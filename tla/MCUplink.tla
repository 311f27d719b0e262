------------------------------ MODULE MCUplink ------------------------------
(***************************************************************************)
(* Uplink on bytes of two bits: the head is 3, a report has two bytes of   *)
(* data and a sector four (so that both bytes of its length matter), the   *)
(* receive buffer holds seven.  Some data has head bytes, some has none,   *)
(* and one reply may cut into a report.                                    *)
(***************************************************************************)
EXTENDS Uplink

SomeReports == {<<3, 3>>, <<0, 1>>}
SomeSectors == {<<3, 0, 1, 3>>, <<1, 0, 2, 1>>}
=============================================================================
