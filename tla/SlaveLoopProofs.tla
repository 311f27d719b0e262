-------------------------- MODULE SlaveLoopProofs --------------------------
(***************************************************************************)
(* Theorems about SlaveLoop, for any matrix, number of rounds, modifiers   *)
(* and key codes.                                                          *)
(***************************************************************************)
EXTENDS SlaveLoop, TLAPS

-----------------------------------------------------------------------------
(* The type invariant.                                                     *)

LEMMA RowsFacts == /\ \A j \in DOMAIN Rows : Rows[j] \subseteq Keys
                   /\ Len(Rows) \in Nat \ {0} /\ DOMAIN Rows = 1..Len(Rows)
<1>1. \A j \in DOMAIN Rows : Rows[j] \subseteq Keys
  BY DEF Keys
<1>2. Rows \in Seq(SUBSET Keys) /\ Rows # <<>>
  BY SlaveLoopAssumption
<1>3. Len(Rows) \in Nat \ {0} /\ DOMAIN Rows = 1..Len(Rows)
  BY <1>2
<1> QED
  BY <1>1, <1>3

(* Every variable of the main loop, the buffer and the endpoint keeps its  *)
(* type, whatever interrupts do between two steps of the loop.             *)
THEOREM TypeCorrect == Spec => []TypeOK
<1>1. Init => TypeOK
  <2> SUFFICES ASSUME Init PROVE TypeOK
    OBVIOUS
  <2> USE SlaveLoopAssumption, RowsFacts DEF Init
  <2>1. row \in DOMAIN Rows /\ key_val \in [DOMAIN Rows -> SUBSET Keys]
    OBVIOUS
  <2>2. Empty \in Reports
    BY DEF Empty, Reports
  <2>3. buf_key \in [head : Mods, report : Reports]
    BY <2>2
  <2>4. pre_press \in BOOLEAN /\ keyboard_flag \in BOOLEAN /\ EP1BUSY \in BOOLEAN
       /\ cut \in BOOLEAN
    BY Zenon
  <2>5. round \in 0..PollRounds
    OBVIOUS
  <2> QED
    BY <2>1, <2>2, <2>3, <2>4, <2>5 DEF TypeOK
<1>2. TypeOK /\ [Next]_vars => TypeOK'
  <2> SUFFICES ASSUME TypeOK, [Next]_vars PROVE TypeOK'
    OBVIOUS
  <2> USE DEF TypeOK, Goto, kvars, rvars, uvars
  <2>1. ASSUME NEW k \in Keys, Touch(k) PROVE TypeOK'
    BY <2>1 DEF Touch
  <2>2. CASE ScanRow
    <3>1. row' \in DOMAIN Rows
      BY <2>2, RowsFacts DEF ScanRow
    <3>2. key_val' \in [DOMAIN Rows -> SUBSET Keys]
      BY <2>2 DEF ScanRow
    <3> QED
      BY <2>2, <3>1, <3>2 DEF ScanRow
  <2>3. CASE SendKeys
    <3>1. Down \in SUBSET Keys
      BY DEF Down
    <3> QED
      BY <2>3, <3>1, SlaveLoopAssumption DEF SendKeys, SendChange
  <2>4. CASE Poll
    <3>1. round' \in 0..PollRounds
      BY <2>4, SlaveLoopAssumption DEF Poll
    <3>2. pc' \in {"scan", "spin", "poll"}
      BY <2>4 DEF Poll
    <3>3. keyboard_flag' \in BOOLEAN
      BY <2>4, Zenon DEF Poll
    <3> QED
      BY <2>4, <3>1, <3>2, <3>3 DEF Poll
  <2>5. CASE Spin
    BY <2>5 DEF Spin
  <2>6. CASE Test
    BY <2>6 DEF Test
  <2>7. CASE LoadMods
    BY <2>7 DEF LoadMods, Reports
  <2>8. CASE StoreHead
    BY <2>8 DEF StoreHead
  <2>9. CASE Copy
    BY <2>9 DEF Copy, Reports
  <2>10. CASE Enable
    BY <2>10 DEF Enable
  <2>11. CASE EnableMouse
    BY <2>11 DEF EnableMouse
  <2>12. ASSUME NEW r \in Reports, ReportArrives(r) PROVE TypeOK'
    BY <2>12, SlaveLoopAssumption DEF ReportArrives
  <2>13. CASE HostTakes
    BY <2>13 DEF HostTakes
  <2>14. CASE HostTakesMouse
    BY <2>14 DEF HostTakesMouse
  <2>15. CASE BusReset
    <3>1. cut' \in BOOLEAN
      BY <2>15, Zenon DEF BusReset
    <3> QED
      BY <2>15, <3>1 DEF BusReset
  <2>16. CASE UNCHANGED vars
    BY <2>16 DEF vars
  <2> QED
    BY <2>1, <2>2, <2>3, <2>4, <2>5, <2>6, <2>7, <2>8, <2>9, <2>10, <2>11,
       <2>12, <2>13, <2>14, <2>15, <2>16 DEF Next, Main
<1> QED
  BY <1>1, <1>2, PTL DEF Spec
-----------------------------------------------------------------------------
(* While the loop is in Joystick_Send, EP1BUSY is set and endpoint 1 is    *)
(* not yet enabled; and EP1BUSY is set as long as it is.                   *)
Sending == pc \in {"test", "load", "store", "copy0", "copy1", "copy2", "enable", "mouse"}
BusyGuards == /\ 1 \in valid => EP1BUSY
              /\ Sending => EP1BUSY /\ 1 \notin valid

LEMMA BusyGuardsKept == TypeOK /\ BusyGuards /\ [Next]_vars => BusyGuards'
<1> SUFFICES ASSUME TypeOK, BusyGuards, [Next]_vars PROVE BusyGuards'
  OBVIOUS
<1> USE DEF BusyGuards, Sending, Goto, kvars, rvars, uvars, TypeOK
<1>1. ASSUME NEW k \in Keys, Touch(k) PROVE BusyGuards'
  BY <1>1 DEF Touch
<1>2. CASE ScanRow
  BY <1>2 DEF ScanRow
<1>3. CASE SendKeys
  BY <1>3 DEF SendKeys
<1>4. CASE Poll
  BY <1>4 DEF Poll
<1>5. CASE Spin
  BY <1>5 DEF Spin
<1>6. CASE Test \/ LoadMods \/ StoreHead \/ Copy
  BY <1>6 DEF Test, LoadMods, StoreHead, Copy
<1>7. CASE Enable
  BY <1>7 DEF Enable
<1>8. CASE EnableMouse
  BY <1>8 DEF EnableMouse
<1>9. ASSUME NEW r \in Reports, ReportArrives(r) PROVE BusyGuards'
  BY <1>9 DEF ReportArrives
<1>10. CASE HostTakes
  BY <1>10 DEF HostTakes
<1>11. CASE HostTakesMouse \/ BusReset
  BY <1>11 DEF HostTakesMouse, BusReset
<1>12. CASE UNCHANGED vars
  BY <1>12 DEF vars
<1> QED
  BY <1>1, <1>2, <1>3, <1>4, <1>5, <1>6, <1>7, <1>8, <1>9, <1>10, <1>11, <1>12
     DEF Next, Main

(* keyborad_process never touches a report that endpoint 1 still has to    *)
(* transmit: EP1BUSY keeps the loop out until the callback has cleared it. *)
THEOREM PendingReportsAreStable == Spec => PendingIsStable
<1>1. Init => BusyGuards
  BY DEF Init, BusyGuards, Sending
<1>2. BusyGuards /\ [Next]_vars
      => [1 \in valid /\ 1 \in valid' => pma' = pma]_vars
  BY DEF BusyGuards, Sending, Next, Main, Touch, ScanRow, SendKeys, Poll, Spin, Test,
         LoadMods, StoreHead, Copy, Enable, EnableMouse, ReportArrives, HostTakes,
         HostTakesMouse, BusReset, Goto, kvars, rvars, uvars, vars
<1> QED
  BY <1>1, <1>2, TypeCorrect, BusyGuardsKept, PTL DEF Spec, PendingIsStable
-----------------------------------------------------------------------------
(* What the loop has already copied of the report being sent is up to date *)
(* or keyboard_flag is set again, provided that byte 0 of buf_key is never *)
(* taken for a mouse's: without modifiers, StoreHead leaves it 0.          *)
CopiedOrFlagged ==
  /\ buf_key.head = 0 /\ buf_key.report.mods = 0 /\ reg = 0 /\ pma.mods = 0
  /\ pc # "mouse"
  /\ pc = "copy2" => keyboard_flag \/ pma.k1 = buf_key.report.k1
  /\ pc \in {"scan", "report", "poll", "enable"} => keyboard_flag \/ pma = buf_key.report

LEMMA CopiedOrFlaggedKept ==
  ASSUME TypeOK, CopiedOrFlagged, [Next]_vars, buf_key'.report.mods = 0
  PROVE  CopiedOrFlagged'
<1> USE DEF CopiedOrFlagged, Goto, kvars, rvars, uvars, TypeOK
<1>1. ASSUME NEW k \in Keys, Touch(k) PROVE CopiedOrFlagged'
  BY <1>1 DEF Touch
<1>2. CASE ScanRow \/ SendKeys
  BY <1>2 DEF ScanRow, SendKeys
<1>3. CASE Poll
  BY <1>3 DEF Poll
<1>4. CASE Spin \/ Test \/ LoadMods
  BY <1>4 DEF Spin, Test, LoadMods
<1>5. CASE StoreHead
  BY <1>5 DEF StoreHead
<1>6. CASE Copy
  <2>1. CASE pc = "copy0"
    BY <1>6, <2>1 DEF Copy, Reports
  <2>2. CASE pc = "copy1"
    BY <1>6, <2>2 DEF Copy, Reports
  <2>3. CASE pc = "copy2"
    <3>1. /\ pc' = "enable" /\ pma' = [pma EXCEPT !.k2 = buf_key.report.k2]
          /\ UNCHANGED <<buf_key, reg, keyboard_flag>>
      BY <1>6, <2>3 DEF Copy
    <3>2. pma.k1 = buf_key.report.k1 => pma' = buf_key.report
      BY <3>1 DEF Reports
    <3> QED
      BY <3>1, <3>2, <2>3 DEF Reports
  <2> QED
    BY <1>6, <2>1, <2>2, <2>3 DEF Copy
<1>7. CASE Enable \/ EnableMouse
  BY <1>7 DEF Enable, EnableMouse
<1>8. ASSUME NEW r \in Reports, ReportArrives(r) PROVE CopiedOrFlagged'
  BY <1>8 DEF ReportArrives, Reports
<1>9. CASE HostTakes \/ HostTakesMouse \/ BusReset
  BY <1>9 DEF HostTakes, HostTakesMouse, BusReset
<1>10. CASE UNCHANGED vars
  BY <1>10 DEF vars
<1> QED
  BY <1>1, <1>2, <1>3, <1>4, <1>5, <1>6, <1>7, <1>8, <1>9, <1>10 DEF Next, Main

(* As long as no report has modifiers, no report that overtakes an earlier *)
(* one in buf_key is lost: clearing keyboard_flag before keyborad_process  *)
(* is what makes the loop come back for it.                                *)
THEOREM LastReportIsKept == Spec => LastReportWins
<1> DEFINE Plain == buf_key.report.mods = 0
<1>1. Init => CopiedOrFlagged
  BY DEF Init, CopiedOrFlagged, Empty
<1>2. TypeOK /\ CopiedOrFlagged /\ [Next]_vars /\ Plain' => CopiedOrFlagged'
  BY CopiedOrFlaggedKept
<1>3. CopiedOrFlagged => InStep
  BY DEF CopiedOrFlagged, InStep
<1> HIDE DEF Plain
<1>4. Spec => ([]Plain => []InStep)
  BY <1>1, <1>2, <1>3, TypeCorrect, PTL DEF Spec
<1> QED
  BY <1>4 DEF Plain, LastReportWins, NoModifiers
=============================================================================
