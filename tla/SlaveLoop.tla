----------------------------- MODULE SlaveLoop -----------------------------
(***************************************************************************)
(* The slave's main loop and the interrupts that run between its steps     *)
(* (src/slave2): keyboard_scan reads the key matrix row by row and sends   *)
(* the state of the keys to the master; the USART interrupt leaves the     *)
(* reports of the master in the one buffer buf_key; the loop copies        *)
(* buf_key to USB endpoint 1, waiting until the host has taken what is     *)
(* there; the USB interrupt clears EP1BUSY once it has.  A reset of the    *)
(* USB bus takes away what waits for the host, and leaves EP1BUSY alone.   *)
(*                                                                         *)
(* Byte 0 of buf_key is 0 for a report of the keyboard.  Joystick_Send     *)
(* tests it to choose between endpoint 1 and endpoint 2 (the mouse), and   *)
(* then overwrites it with the modifiers, so that the first eight bytes    *)
(* make up the report.                                                     *)
(***************************************************************************)
EXTENDS Integers, Sequences, FiniteSets

CONSTANTS Rows,       \* the key matrix: for each row the set of its keys
          Modifiers,  \* the keys that are modifiers
          MaxKeys,    \* 6, the size of key_t.key
          PollRounds, \* 150, the rounds between two scans
          Mods, Codes \* modifier bytes and key codes in the master's reports

Keys    == UNION {Rows[j] : j \in DOMAIN Rows}
Reports == [mods : Mods, k1 : Codes, k2 : Codes]

ASSUME SlaveLoopAssumption == /\ 0 \in Mods /\ 0 \in Codes
                              /\ PollRounds \in Nat \ {0} /\ MaxKeys \in Nat \ {0}
                              /\ Rows \in Seq(SUBSET Keys) /\ Rows # <<>>

VARIABLES matrix,    \* the keys that are down
          pc,        \* where the main loop is
          row,       \* the row keyboard_scan reads next
          key_val,   \* the keys it saw down in each row
          pre_press, \* its static variable
          pre,       \* commu_buf_pre, the last report sent to the master
          round,     \* the loop's i
          keyboard_flag,
          buf_key,   \* its byte 0 (head) and the report behind it
          reg,       \* the register of buf1[0] = buf1[1]
          pma,       \* the packet memory of endpoint 1
          valid,     \* the endpoints that are enabled for transmission
          EP1BUSY,
          host,      \* the last report the host took from endpoint 1
          cut        \* a reset of the bus has taken a report away
kvars == <<row, key_val, pre_press, pre>>
rvars == <<keyboard_flag, buf_key>>
uvars == <<pma, valid, EP1BUSY, host, cut>>
vars  == <<matrix, pc, kvars, round, rvars, reg, uvars>>

Empty == [mods |-> 0, k1 |-> 0, k2 |-> 0]

TypeOK == /\ matrix \in SUBSET Keys
          /\ pc \in {"scan", "report", "poll", "spin", "test", "load", "store",
                     "copy0", "copy1", "copy2", "enable", "mouse"}
          /\ row \in DOMAIN Rows /\ key_val \in [DOMAIN Rows -> SUBSET Keys]
          /\ pre_press \in BOOLEAN /\ pre \in SUBSET Keys
          /\ round \in 0..PollRounds
          /\ keyboard_flag \in BOOLEAN
          /\ buf_key \in [head : Mods, report : Reports]
          /\ reg \in Mods
          /\ pma \in Reports /\ host \in Reports
          /\ valid \in SUBSET {1, 2}
          /\ EP1BUSY \in BOOLEAN /\ cut \in BOOLEAN

Init == /\ matrix = {}
        /\ pc = "scan" /\ row = 1
        /\ key_val = [j \in DOMAIN Rows |-> {}]
        /\ pre_press = FALSE /\ pre = {}
        /\ round = 0
        /\ keyboard_flag = FALSE
        /\ buf_key = [head |-> 0, report |-> Empty]
        /\ reg = 0
        /\ pma = Empty /\ valid = {} /\ EP1BUSY = FALSE
        /\ host = Empty /\ cut = FALSE

Goto(from, to) == pc = from /\ pc' = to
-----------------------------------------------------------------------------
(* The user presses or releases a key.                                     *)
Touch(k) == /\ matrix' = IF k \in matrix THEN matrix \ {k} ELSE matrix \union {k}
            /\ UNCHANGED <<pc, kvars, round, rvars, reg, uvars>>

(* keyboard_scan, a row at a time ...                                      *)
ScanRow ==
  /\ Goto("scan", IF row = Len(Rows) THEN "report" ELSE "scan")
  /\ key_val' = [key_val EXCEPT ![row] = matrix \intersect Rows[row]]
  /\ row' = IF row = Len(Rows) THEN 1 ELSE row + 1
  /\ UNCHANGED <<matrix, pre_press, pre, round, rvars, reg, uvars>>

Down == UNION {key_val[j] : j \in DOMAIN Rows}
Full == Cardinality(Down \ Modifiers) >= MaxKeys

(* Mutant: the release of all keys is not reported.                        *)
SendPressed == pre' = IF Down # {} /\ ~Full THEN Down ELSE pre

(* ... and then the report, when it differs from the last one.  When       *)
(* key_t is full (the goto end), nothing is sent.                          *)
SendChange == pre' = IF ~Full /\ (Down # {} \/ pre_press) THEN Down ELSE pre

SendKeys ==
  /\ Goto("report", "poll")
  /\ SendChange
  /\ pre_press' = (Down # {})
  /\ round' = 0
  /\ UNCHANGED <<matrix, row, key_val, rvars, reg, uvars>>
-----------------------------------------------------------------------------
(* Mutant: one round too many.                                             *)
PollOnceMore ==
  /\ pc = "poll"
  /\ IF round > PollRounds
     THEN pc' = "scan" /\ UNCHANGED <<round, keyboard_flag>>
     ELSE /\ round' = round + 1
          /\ pc' = IF keyboard_flag THEN "spin" ELSE "poll"
          /\ keyboard_flag' = FALSE
  /\ UNCHANGED <<matrix, kvars, buf_key, reg, uvars>>

(* main: the rounds of 100 us between two scans.                           *)
Poll ==
  /\ pc = "poll"
  /\ IF round = PollRounds
     THEN pc' = "scan" /\ UNCHANGED <<round, keyboard_flag>>
     ELSE /\ round' = round + 1
          /\ pc' = IF keyboard_flag THEN "spin" ELSE "poll"
          /\ keyboard_flag' = FALSE
  /\ UNCHANGED <<matrix, kvars, buf_key, reg, uvars>>

(* Mutant: the endpoint is not waited for.                                 *)
NoSpin ==
  /\ Goto("spin", "test")
  /\ EP1BUSY' = TRUE
  /\ UNCHANGED <<matrix, kvars, round, rvars, reg, pma, valid, host, cut>>

(* keyborad_process: while(EP1BUSY!=0), then EP1BUSY = 1.                  *)
Spin ==
  /\ Goto("spin", "test")
  /\ ~EP1BUSY
  /\ EP1BUSY' = TRUE
  /\ UNCHANGED <<matrix, kvars, round, rvars, reg, pma, valid, host, cut>>

(* Joystick_Send.                                                          *)
Test ==
  /\ pc = "test"
  /\ pc' = IF buf_key.head = 0 THEN "load" ELSE "mouse"
  /\ UNCHANGED <<matrix, kvars, round, rvars, reg, uvars>>

LoadMods ==
  /\ Goto("load", "store")
  /\ reg' = buf_key.report.mods
  /\ UNCHANGED <<matrix, kvars, round, rvars, uvars>>

StoreHead ==
  /\ Goto("store", "copy0")
  /\ buf_key' = [buf_key EXCEPT !.head = reg]
  /\ UNCHANGED <<matrix, kvars, round, keyboard_flag, reg, uvars>>

(* UserToPMABufferCopy.                                                    *)
Copy ==
  /\ \/ /\ Goto("copy0", "copy1")
        /\ pma' = [pma EXCEPT !.mods = buf_key.head]
     \/ /\ Goto("copy1", "copy2")
        /\ pma' = [pma EXCEPT !.k1 = buf_key.report.k1]
     \/ /\ Goto("copy2", "enable")
        /\ pma' = [pma EXCEPT !.k2 = buf_key.report.k2]
  /\ UNCHANGED <<matrix, kvars, round, rvars, reg, valid, EP1BUSY, host, cut>>

(* Mutant: keyboard_flag is cleared after the report is processed.         *)
EnableThenClear ==
  /\ Goto("enable", "poll")
  /\ valid' = valid \union {1}
  /\ keyboard_flag' = FALSE
  /\ UNCHANGED <<matrix, kvars, round, buf_key, reg, pma, EP1BUSY, host, cut>>

Enable ==
  /\ Goto("enable", "poll")
  /\ valid' = valid \union {1}
  /\ UNCHANGED <<matrix, kvars, round, rvars, reg, pma, EP1BUSY, host, cut>>

(* The other branch: five bytes to endpoint 2.                             *)
EnableMouse ==
  /\ Goto("mouse", "poll")
  /\ valid' = valid \union {2}
  /\ UNCHANGED <<matrix, kvars, round, rvars, reg, pma, EP1BUSY, host, cut>>
-----------------------------------------------------------------------------
(* USART1_IRQHandler, at the last byte of a KEYBOARD_SM package.           *)
ReportArrives(r) ==
  /\ buf_key' = [head |-> 0, report |-> r]
  /\ keyboard_flag' = TRUE
  /\ UNCHANGED <<matrix, pc, kvars, round, reg, uvars>>

(* The host takes the report; EP1_IN_Callback.                             *)
HostTakes ==
  /\ 1 \in valid
  /\ host' = pma
  /\ valid' = valid \ {1}
  /\ EP1BUSY' = FALSE
  /\ UNCHANGED <<matrix, pc, kvars, round, rvars, reg, pma, cut>>

HostTakesMouse ==
  /\ 2 \in valid
  /\ valid' = valid \ {2}
  /\ UNCHANGED <<matrix, pc, kvars, round, rvars, reg, pma, EP1BUSY, host, cut>>

(* The host resets the bus: Joystick_Reset sets both endpoints to NAK, but *)
(* nothing clears EP1BUSY.  If a report was waiting, the loop, at the next *)
(* one, waits for ever.                                                    *)
BusReset ==
  /\ valid' = {}
  /\ cut' = (cut \/ 1 \in valid)
  /\ UNCHANGED <<matrix, pc, kvars, round, rvars, reg, pma, EP1BUSY, host>>

Main == \/ ScanRow \/ SendKeys \/ Poll \/ Spin \/ Test \/ LoadMods \/ StoreHead
        \/ Copy \/ Enable \/ EnableMouse

Next == \/ \E k \in Keys : Touch(k)
        \/ Main
        \/ \E r \in Reports : ReportArrives(r)
        \/ HostTakes \/ HostTakesMouse \/ BusReset

Spec == Init /\ [][Next]_vars

(* The processor runs the main loop between interrupts, and the host polls *)
(* the endpoint every 10 ms, again when it has configured the device after *)
(* a reset.                                                                *)
FairSpec == Spec /\ WF_vars(Main) /\ WF_vars(HostTakes)
-----------------------------------------------------------------------------
(***************************************************************************)
(* Properties                                                              *)
(***************************************************************************)

(* A report that waits for the host does not change under it.              *)
PendingIsStable == [][1 \in valid /\ 1 \in valid' => pma' = pma]_vars

(* Byte 0 of buf_key keeps saying what kind of report it is only as long   *)
(* as no report has modifiers (see KeyboardIsNoMouse).  What the loop      *)
(* promises of such reports follows.                                       *)
NoModifiers == [](buf_key.report.mods = 0)

(* A report that arrives while the loop is busy with an earlier one, which *)
(* may be copied half old and half new, is not forgotten: whenever the     *)
(* loop is outside keyborad_process and keyboard_flag is clear, endpoint 1 *)
(* has the last report in full.                                            *)
InStep == pc \in {"scan", "report", "poll"} /\ ~keyboard_flag => pma = buf_key.report
LastReportWins == NoModifiers => []InStep

(* A reset of the bus takes no report away: else EP1BUSY stays set, and    *)
(* keyborad_process never comes back from while(EP1BUSY!=0).               *)
NoReportCut == []~cut

(* The last report reaches the host, unless a reset of the bus takes away  *)
(* a report that waits for it.                                             *)
ReportReachesHost ==
  NoModifiers /\ NoReportCut => \A r \in Reports : <>[](buf_key.report = r) => <>[](host = r)

(* When the keys rest, the report they make up is sent to the master,      *)
(* whatever was read while they moved and however long the host makes the  *)
(* loop wait - unless as many keys are down as key_t holds, or a reset of  *)
(* the bus has taken away the report that the loop waits for.              *)
MatrixIsReported ==
  NoModifiers /\ NoReportCut =>
    \A s \in SUBSET Keys :
      Cardinality(s \ Modifiers) < MaxKeys => (<>[](matrix = s) => <>[](pre = s))

(* The comments of commu_recv and Joystick_Send: a 0 in byte 0 is the      *)
(* keyboard's head, anything else the mouse's.  Every report here is the   *)
(* keyboard's, so none is sent on the mouse's endpoint.                    *)
KeyboardIsNoMouse == 2 \notin valid
=============================================================================
