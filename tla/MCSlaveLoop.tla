---------------------------- MODULE MCSlaveLoop ----------------------------
(***************************************************************************)
(* SlaveLoop on a matrix of two rows with a key each, one a modifier.      *)
(* key_t holds one key, which makes it full.                               *)
(***************************************************************************)
EXTENDS SlaveLoop

SmallRows == <<{"a"}, {"shift"}>>
OneRow    == <<{"a"}>>
=============================================================================
