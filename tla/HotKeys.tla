------------------------------ MODULE HotKeys ------------------------------
(***************************************************************************)
(* The hotkeys of the master (src/APP/app_interface.c, pwd.c).  The thread *)
(* app takes the reports of the key matrix from mq_key_ms.  key_handle     *)
(* captures a report that is a hotkey's and executes the hotkey: it types  *)
(* a string, starts the password thread, posts a message or resets the     *)
(* system.  Other reports are forwarded to mq_key_sm, from which key_sm    *)
(* sends them on to the host, modified so that the host does not see what  *)
(* is left of a captured combination.                                      *)
(*                                                                         *)
(* The thread app (priority 10) handles a report before the next one       *)
(* arrives; key_sm (3) runs between any two of its rt_mq_send; the         *)
(* password thread (15) runs while app is waiting.  ini.Debug.keyboard,    *)
(* without which nothing is forwarded, is set.  Macros, which no hotkey    *)
(* starts, and the copies of the reports for Lua are left out.             *)
(***************************************************************************)
EXTENDS Integers, Sequences, FiniteSets, FiniteSetsExt

CONSTANTS Mods,      \* the modifiers
          Keys,      \* the other keys, numbered in the order of a report
          Caps,      \* the hotkeys in the order of key_cap_add
          key_changetable, \* what key_remap.c makes of each modifier
          SmSize,    \* the number of messages of mq_key_sm
          MbAppSize  \* the size of the password thread's mailbox

(* A hotkey has its control_filter (a sequence of masks: a set of          *)
(* modifiers of which one at least is down), its key and what it executes. *)
(* A string is made of keys; the bits 8, 9 and 10 of a code, for a shifted *)
(* key and for a modifier pressed or released, are its kind.               *)
Codes == [kind : {"plain", "shift"}, key : Keys] \union [kind : {"down", "up"}, mods : SUBSET Mods]
ASSUME HotKeysAssumption ==
       /\ Keys \subseteq Nat \ {0} /\ IsFiniteSet(Keys)
       /\ "shift" \in Mods /\ key_changetable \in [Mods -> Mods]
       /\ Caps \in Seq([filter : Seq(SUBSET Mods), key : Keys,
                        exe : {"string", "pwd", "mail", "reset"},
                        string : Seq(Codes)])
       /\ SmSize \in Nat /\ MbAppSize \in Nat

VARIABLES held,         \* what the user holds
          up,           \* whether the master is running
          hotkey_flag, hotkey_value,
          out_mods,     \* buf_out[1]
          out,          \* what app has yet to send to mq_key_sm
          mq_key_sm,
          host,         \* the last report sent to the host
          lost,         \* whether the last report of all was lost
          mb_app,       \* whether it is set
          mailbox,      \* the characters in the password thread's mailbox
          live,         \* the number of mailboxes created and not deleted
          pwd,          \* where the password thread is
          keys_last     \* KEYBRD_Decode's, as a set
hvars == <<hotkey_flag, hotkey_value>>
pvars == <<mailbox, live, pwd>>
vars  == <<held, up, hvars, out_mods, out, mq_key_sm, host, lost, mb_app, pvars, keys_last>>

Holdings == [mods : SUBSET Mods, keys : SUBSET Keys]
Nothing  == [mods |-> {}, keys |-> {}]
Blank    == [mods |-> {}, keys |-> <<>>]
Messages == [mods : SUBSET Mods, keys : Seq(Keys)]
InOrder(S) == CHOOSE s \in [1..Cardinality(S) -> S] :
                \A i, j \in DOMAIN s : i < j => s[i] < s[j]
key_process(mods) == {key_changetable[m] : m \in mods}
Report(h) == [mods |-> key_process(h.mods), keys |-> InOrder(h.keys)]
First(r)  == IF r.keys = <<>> THEN 0 ELSE r.keys[1]   \* buf[2]

TypeOK == /\ held \in Holdings /\ up \in BOOLEAN
          /\ hotkey_flag \in 0..2 /\ hotkey_value \in Keys \union {0}
          /\ out_mods \in SUBSET Mods
          /\ out \in Seq(Messages)
          /\ mq_key_sm \in Seq(Messages) /\ Len(mq_key_sm) <= SmSize
          /\ host \in Messages
          /\ lost \in BOOLEAN /\ mb_app \in BOOLEAN
          /\ mailbox \in Seq(Keys) /\ Len(mailbox) <= MbAppSize
          /\ live \in Nat
          /\ pwd \in {"off", "getkbchar", "delete", "clear"}
          /\ keys_last \in SUBSET Keys

MasterInit == /\ hotkey_flag = 0 /\ hotkey_value = 0
              /\ out_mods = {} /\ out = <<>> /\ mq_key_sm = <<>>
              /\ mb_app = FALSE
              /\ mailbox = <<>> /\ live = 0 /\ pwd = "off"
              /\ keys_last = {}

Init == MasterInit /\ held = Nothing /\ up = TRUE /\ host = Blank /\ lost = FALSE
-----------------------------------------------------------------------------
(* control_key_filt: each mask in turn takes the modifiers it covers, at   *)
(* least one, and none is left.                                            *)
Filter(mods, masks) ==
  /\ \A i \in DOMAIN masks : (mods \ UNION {masks[j] : j \in 1..(i - 1)}) \intersect masks[i] # {}
  /\ mods \subseteq UNION {masks[j] : j \in DOMAIN masks}

(* Mutant: the loop over the hotkeys stops one early.                      *)
MatchesButLast(r) == {i \in 1..(Len(Caps) - 1) : Filter(r.mods, Caps[i].filter)
                                                 /\ First(r) = Caps[i].key}

Matches(r) == {i \in DOMAIN Caps : Filter(r.mods, Caps[i].filter) /\ First(r) = Caps[i].key}

(* press_string_pure: control_key after code i, the report code i presses, *)
(* what it leaves in buf_out[1], and all reports.  buf_clear precedes the  *)
(* first code and follows every code but the last.                         *)
ControlKey(string, i) ==
  {m \in Mods : \E d \in 1..i :
     /\ string[d].kind = "down" /\ m \in string[d].mods
     /\ \A u \in (d + 1)..i : ~(string[u].kind = "up" /\ m \in string[u].mods)}
Press(string, i) ==
  [mods |-> IF string[i].kind = "shift" THEN {"shift"} ELSE ControlKey(string, i),
   keys |-> IF string[i].kind \in {"plain", "shift"} THEN <<string[i].key>> ELSE <<>>]
Left(string, i) == IF i = 0 \/ string[i].kind = "shift" THEN {} ELSE ControlKey(string, i)
Clear(mods) == [mods |-> mods, keys |-> <<>>]

Typed(string) ==
  <<Clear(out_mods)>> \o
  [j \in 1..(2 * Len(string) - 1) |-> IF j % 2 = 1 THEN Press(string, (j + 1) \div 2)
                                                  ELSE Clear(Left(string, j \div 2))]
-----------------------------------------------------------------------------
(* What a hotkey executes: press_string, pwd_start, lua_send_mail and      *)
(* blue_set (messages to queues not modelled here), and reset_system.      *)
TypeString(string) == /\ out' = Typed(string)
                      /\ out_mods' = Left(string, Len(string))
                      /\ UNCHANGED <<mb_app, pvars>>

StartPwd == /\ mb_app' = TRUE
            /\ mailbox' = <<>> /\ live' = live + 1
            /\ pwd' = "getkbchar"
            /\ UNCHANGED <<out, out_mods>>

PostMail == UNCHANGED <<out, out_mods, mb_app, pvars>>

(* The other end of the master is not reset: the slave and the host keep   *)
(* what they have, and what the slave sends before the USART is set up is  *)
(* lost.                                                                   *)
ResetSystem == /\ hotkey_flag' = 0 /\ hotkey_value' = 0
               /\ out_mods' = {} /\ out' = <<>> /\ mq_key_sm' = <<>>
               /\ mb_app' = FALSE
               /\ mailbox' = <<>> /\ live' = 0 /\ pwd' = "off"
               /\ keys_last' = {}
               /\ up' = FALSE /\ lost' = TRUE

Execute(cap, key) ==
  \/ /\ cap.exe = "reset" /\ ResetSystem
  \/ /\ \/ cap.exe = "string" /\ TypeString(cap.string)
        \/ cap.exe = "pwd" /\ StartPwd
        \/ cap.exe = "mail" /\ PostMail
     /\ hotkey_flag' = 1 /\ hotkey_value' = key
     /\ UNCHANGED <<up, mq_key_sm, lost, keys_last>>

(* KEYBRD_Decode: a character for each key that the previous report it saw *)
(* did not have.                                                           *)
Decode(r) ==
  LET new  == InOrder({i \in DOMAIN r.keys : r.keys[i] \notin keys_last})
      free == MbAppSize - Len(mailbox)
  IN  /\ mailbox' = mailbox \o [j \in 1..Min({Len(new), free}) |-> r.keys[new[j]]]
      /\ keys_last' = {r.keys[i] : i \in DOMAIN r.keys}

(* The end of key_handle: r is the report as it came, s as it may be       *)
(* forwarded, flag what hotkey_flag is so far.                             *)
Divert(s, flag) == /\ Decode(s)
                   /\ lost' = TRUE
                   /\ hotkey_flag' = flag
                   /\ UNCHANGED <<up, hotkey_value, out_mods, out, mq_key_sm, mb_app, live, pwd>>

Forward(s, flag) == /\ out' = <<s>>
                    /\ hotkey_flag' = flag
                    /\ UNCHANGED <<up, hotkey_value, out_mods, mq_key_sm, lost, mb_app, pvars, keys_last>>

(* Mutant: the modifiers are cleared before they are compared.             *)
LookUpStripped(r, s, flag) ==
  IF mb_app THEN Divert(s, flag)
  ELSE IF Matches(s) # {} THEN Execute(Caps[Min(Matches(s))], First(r))
  ELSE Forward(s, flag)

LookUp(r, s, flag) ==
  IF mb_app THEN Divert(s, flag)
  ELSE IF Matches(r) # {} THEN Execute(Caps[Min(Matches(r))], First(r))
  ELSE Forward(s, flag)

(* Mutant: after a hotkey, its key is blocked but hotkey_flag never reset. *)
KeyHandleKeepFlag(r) ==
  LET bare == [r EXCEPT !.mods = {}] IN
  IF hotkey_flag = 1 /\ First(r) = hotkey_value THEN Forward([bare EXCEPT !.keys = Tail(@)], 1)
  ELSE LookUp(r, bare, hotkey_flag)

(* Mutant: what is left of a hotkey is not forwarded, its release neither. *)
KeyHandleSwallow(r) ==
  IF hotkey_flag = 0 THEN LookUp(r, r, 0)
  ELSE /\ hotkey_flag' = IF r.mods = {} THEN 0 ELSE 2
       /\ UNCHANGED <<up, hotkey_value, out_mods, out, mq_key_sm, lost, mb_app, pvars, keys_last>>

(* key_handle.  After a hotkey, as long as its key is the first of the     *)
(* report, that key (which becomes a 0, no key) and the modifiers are      *)
(* blocked; then, as long as modifiers are down, they are cleared.         *)
KeyHandle(r) ==
  LET bare == [r EXCEPT !.mods = {}] IN
  IF hotkey_flag = 1 /\ First(r) = hotkey_value THEN Forward([bare EXCEPT !.keys = Tail(@)], 1)
  ELSE IF hotkey_flag # 0 /\ r.mods # {} THEN LookUp(r, bare, 2)
  ELSE LookUp(r, r, 0)

(* The user presses or releases a key or a modifier: the slave sends a     *)
(* report, which the thread app handles at once, or which is lost.         *)
Touch(h) ==
  /\ out = <<>>
  /\ \/ \E m \in Mods : h = [held EXCEPT !.mods = IF m \in @ THEN @ \ {m} ELSE @ \union {m}]
     \/ \E k \in Keys : h = [held EXCEPT !.keys = IF k \in @ THEN @ \ {k} ELSE @ \union {k}]
  /\ held' = h
  /\ IF up THEN KeyHandle(Report(h)) /\ UNCHANGED host
     ELSE lost' = TRUE /\ UNCHANGED <<up, hvars, out_mods, out, mq_key_sm, host, mb_app, pvars, keys_last>>

(* The master has started again.                                           *)
Boot == /\ ~up
        /\ up' = TRUE
        /\ UNCHANGED <<held, hvars, out_mods, out, mq_key_sm, host, lost, mb_app, pvars, keys_last>>

(* Mutant: a full queue is not noticed.                                    *)
SendAlways ==
  /\ out # <<>>
  /\ out' = Tail(out)
  /\ mq_key_sm' = Append(mq_key_sm, Head(out))
  /\ lost' = FALSE
  /\ UNCHANGED <<held, up, hvars, out_mods, host, mb_app, pvars, keys_last>>

(* rt_mq_send(mq_key_sm, ...), which drops the report when the queue is    *)
(* full.                                                                   *)
Send ==
  /\ out # <<>>
  /\ out' = Tail(out)
  /\ lost' = (Len(mq_key_sm) >= SmSize)
  /\ mq_key_sm' = IF Len(mq_key_sm) < SmSize THEN Append(mq_key_sm, Head(out)) ELSE mq_key_sm
  /\ UNCHANGED <<held, up, hvars, out_mods, host, mb_app, pvars, keys_last>>

(* key_sm passes a report on.                                              *)
TakeKeySm ==
  /\ mq_key_sm # <<>>
  /\ host' = Head(mq_key_sm)
  /\ mq_key_sm' = Tail(mq_key_sm)
  /\ UNCHANGED <<held, up, hvars, out_mods, out, lost, mb_app, pvars, keys_last>>
-----------------------------------------------------------------------------
(* The password thread: getkbchar, rt_mb_delete, mb_app = 0.               *)
PwdStep(from, to) == out = <<>> /\ pwd = from /\ pwd' = to

GetKbChar == /\ PwdStep("getkbchar", "delete")
             /\ mailbox # <<>>
             /\ mailbox' = Tail(mailbox)
             /\ UNCHANGED <<held, up, hvars, out_mods, out, mq_key_sm, host, lost, mb_app, live, keys_last>>

(* Mutant: mb_app is cleared before the mailbox is deleted.                *)
DeleteLate == /\ PwdStep("delete", "clear")
              /\ mb_app' = FALSE
              /\ UNCHANGED <<held, up, hvars, out_mods, out, mq_key_sm, host, lost, mailbox, live, keys_last>>

Delete == /\ PwdStep("delete", "clear")
          /\ live' = live - 1
          /\ UNCHANGED <<held, up, hvars, out_mods, out, mq_key_sm, host, lost, mb_app, mailbox, keys_last>>

ClearMbApp == /\ PwdStep("clear", "off")
              /\ mb_app' = FALSE
              /\ UNCHANGED <<held, up, hvars, out_mods, out, mq_key_sm, host, lost, mailbox, live, keys_last>>

Next == \/ \E h \in Holdings : Touch(h)
        \/ Boot \/ Send \/ TakeKeySm
        \/ GetKbChar \/ Delete \/ ClearMbApp

Spec == Init /\ [][Next]_vars

(* The threads run: app sends what it has to, key_sm empties its queue.    *)
FairSpec == Spec /\ WF_vars(Send) /\ WF_vars(TakeKeySm)
-----------------------------------------------------------------------------
(***************************************************************************)
(* Properties                                                              *)
(***************************************************************************)

(* Whatever was captured, blocked, stripped of its modifiers or typed by a *)
(* hotkey: when the user has let go of the keyboard and all is sent,       *)
(* nothing stays pressed at the host - unless the last report was lost (in *)
(* a full queue or a reset, or because the password thread got it).        *)
NothingStuck ==
  out = <<>> /\ mq_key_sm = <<>> /\ held = Nothing /\ ~lost => host = Blank

(* When the user has let go of the keyboard, key_handle is done with the   *)
(* last hotkey: what comes next is not blocked or stripped.                *)
ReleasedMeansReset == up /\ held = Nothing => hotkey_flag = 0

(* The host never sees the combination of a hotkey that has modifiers:     *)
(* neither when it is pressed nor from what is left of it.  That supposes  *)
(* that no string types one: press_string does not look up what it types.  *)
IsHotKey(r) == \E i \in DOMAIN Caps :
  Caps[i].filter # <<>> /\ Filter(r.mods, Caps[i].filter) /\ First(r) = Caps[i].key
NoStringIsHotKey ==
  \A c \in DOMAIN Caps : \A j \in DOMAIN Caps[c].string : ~IsHotKey(Press(Caps[c].string, j))
HotKeysAreHidden == ~IsHotKey(host)

(* Pressing the key of a hotkey fires it, also when its modifiers are down *)
(* since an earlier hotkey: clearing the modifiers of the forwarded report *)
(* does not hide them from the comparison.  That supposes that no          *)
(* combination both resets and does something else: the first such hotkey  *)
(* would be executed, and a reset forgets that there was one.              *)
ResetsStandAlone ==
  \A c, d \in DOMAIN Caps : Caps[c].exe = "reset" /\ Caps[d].exe # "reset" =>
    \A mods \in SUBSET Mods :
      ~(/\ Caps[c].key = Caps[d].key
        /\ Filter(mods, Caps[c].filter) /\ Filter(mods, Caps[d].filter))
HotKeyFires ==
  [][ \A i \in DOMAIN Caps :
        /\ up /\ ~mb_app /\ Caps[i].exe # "reset" /\ Caps[i].filter # <<>>
        /\ held.keys = {} /\ held'.keys = {Caps[i].key}
        /\ Filter(key_process(held'.mods), Caps[i].filter)
        => hotkey_flag' = 1 /\ hotkey_value' = Caps[i].key ]_vars

(* There is never a second password mailbox (and thread): the thread lets  *)
(* go of its own before key_handle can start another.                      *)
OnePassword == live \in {0, 1} /\ (pwd \in {"getkbchar", "delete"} <=> live = 1)

(* Once the user has let go of the keyboard for good, the host gets to     *)
(* know, unless that report was lost.                                      *)
KeysAreReleased == <>[](held = Nothing /\ ~lost) => <>[](host = Blank)

(* The comment of rt_mb_delete, that it releases the memory of the         *)
(* mailbox, taken with the use of mb_app: no character is sent to a        *)
(* mailbox that does not exist any more.                                   *)
SendsToLiveMailbox == [][Len(mailbox') > Len(mailbox) => live = 1]_vars
=============================================================================
