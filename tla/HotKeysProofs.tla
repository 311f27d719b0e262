--------------------------- MODULE HotKeysProofs ---------------------------
(***************************************************************************)
(* Theorems about HotKeys, for every keyboard, every list of hotkeys and   *)
(* every queue size: the types, the safety invariants and the action       *)
(* property that the run of MCHotKeys checks on one list of four.          *)
(***************************************************************************)
EXTENDS HotKeys, SeqLemmas

(* One report and the keys in it, in ascending order.                      *)
Ascending(s) == \A i, j \in DOMAIN s : i < j => s[i] < s[j]

(* InOrder is what it says: some enumeration of a finite set of numbers is *)
(* ascending.  The proof takes the least cardinality of a set without one  *)
(* and removes its least element.                                          *)
LEMMA SomeOrder ==
  ASSUME NEW S, S \subseteq Nat, IsFiniteSet(S)
  PROVE  \E s \in [1..Cardinality(S) -> S] : Ascending(s)
<1> DEFINE Bad(T) == /\ T \subseteq Nat /\ IsFiniteSet(T)
                     /\ ~ \E s \in [1..Cardinality(T) -> T] : Ascending(s)
           B == {n \in Nat : \E T : Bad(T) /\ Cardinality(T) = n}
<1> SUFFICES ASSUME B # {} PROVE FALSE
  <2>1. Cardinality(S) \in Nat
    BY FS_CardinalityType
  <2> QED BY <2>1
<1>1. PICK n \in B : \A m \in B : n <= m
  BY LeastLemma
<1>2. PICK T : Bad(T) /\ Cardinality(T) = n
  OBVIOUS
<1> HIDE DEF B
<1>3. n \in Nat
  BY <1>1 DEF B
<1>4. CASE T = {}
  <2>1. n = 0
    BY <1>2, <1>4, FS_EmptySet
  <2> DEFINE e == [i \in 1..0 |-> 0]
  <2>2. e \in [1..0 -> T] /\ Ascending(e)
    BY DEF Ascending
  <2> QED BY <1>2, <2>1, <2>2
<1>5. CASE T # {}
  <2> DEFINE m == Min(T)
             U == T \ {m}
  <2>1. m \in T /\ \A k \in T : m <= k
    BY <1>2, <1>5, MinLemma
  <2> HIDE DEF m
  <2>2. IsFiniteSet(U) /\ Cardinality(U) = n - 1 /\ U \subseteq Nat
    BY <1>2, <2>1, FS_RemoveElement
  <2>3. n - 1 \in Nat
    BY <2>2, FS_CardinalityType
  <2>4. ~ Bad(U)
    <3>1. n - 1 \notin B
      BY <1>1, <1>3
    <3> QED BY <2>2, <2>3, <3>1 DEF B
  <2>5. PICK u \in [1..(n - 1) -> U] : Ascending(u)
    BY <2>2, <2>4
  <2> DEFINE t == [i \in 1..n |-> IF i = 1 THEN m ELSE u[i - 1]]
  <2>6. t \in [1..n -> T]
    <3>1. ASSUME NEW i \in 1..n, i # 1 PROVE u[i - 1] \in T
      BY <1>3, <2>5, <3>1
    <3> QED BY <2>1, <3>1
  <2>7. ASSUME NEW i \in 1..n, NEW j \in 1..n, i < j PROVE t[i] < t[j]
    <3>1. j - 1 \in 1..(n - 1) /\ t[j] = u[j - 1] /\ u[j - 1] \in U
      BY <1>3, <2>5, <2>7
    <3>2. CASE i = 1
      <4>1. m <= u[j - 1] /\ u[j - 1] # m /\ u[j - 1] \in Nat /\ m \in Nat
        BY <1>2, <2>1, <3>1
      <4>2. t[i] = m
        BY <3>2
      <4> QED BY <3>1, <4>1, <4>2
    <3>3. CASE i # 1
      <4>1. i - 1 \in 1..(n - 1) /\ t[i] = u[i - 1] /\ i - 1 < j - 1
        BY <1>3, <2>7, <3>3
      <4> QED BY <2>5, <3>1, <4>1 DEF Ascending
    <3> QED BY <3>2, <3>3
  <2> HIDE DEF t
  <2>8. Ascending(t)
    BY <2>6, <2>7 DEF Ascending
  <2> QED BY <1>2, <2>6, <2>8
<1> QED BY <1>4, <1>5

LEMMA InOrderLemma ==
  ASSUME NEW S, S \subseteq Nat, IsFiniteSet(S)
  PROVE  /\ Cardinality(S) \in Nat
         /\ InOrder(S) \in [1..Cardinality(S) -> S]
         /\ InOrder(S) \in Seq(S) /\ Len(InOrder(S)) = Cardinality(S)
<1>1. Cardinality(S) \in Nat
  BY FS_CardinalityType
<1>2. InOrder(S) \in [1..Cardinality(S) -> S]
  BY SomeOrder DEF InOrder, Ascending
<1> HIDE DEF InOrder
<1> QED BY <1>1, <1>2

LEMMA InOrderFew ==
  /\ InOrder({}) = <<>>
  /\ \A k \in Nat : InOrder({k}) = <<k>>
<1>1. InOrder({}) = <<>>
  <2>1. InOrder({}) \in Seq({}) /\ Len(InOrder({})) = 0
    BY InOrderLemma, FS_EmptySet
  <2> QED BY <2>1, EmptySeq
<1>2. ASSUME NEW k \in Nat PROVE InOrder({k}) = <<k>>
  <2>1. InOrder({k}) \in Seq({k}) /\ Len(InOrder({k})) = 1
    BY InOrderLemma, FS_Singleton
  <2>2. InOrder({k}) # <<>>
    BY <2>1
  <2>3. InOrder({k})[1] \in {k} /\ InOrder({k}) = <<InOrder({k})[1]>>
    BY <2>1, <2>2, SingleLemma
  <2> QED BY <2>3
<1> QED BY <1>1, <1>2
-----------------------------------------------------------------------------
(* What the user holds makes a report.                                     *)
LEMMA ReportLemma ==
  ASSUME NEW h \in Holdings
  PROVE  Report(h) \in Messages
<1>1. key_process(h.mods) \in SUBSET Mods
  BY HotKeysAssumption DEF key_process, Holdings
<1>2. h.keys \subseteq Nat /\ IsFiniteSet(h.keys)
  BY HotKeysAssumption, FS_Subset DEF Holdings
<1>3. InOrder(h.keys) \in Seq(h.keys)
  BY <1>2, InOrderLemma
<1>4. InOrder(h.keys) \in Seq(Keys)
  BY <1>3 DEF Holdings
<1> QED BY <1>1, <1>4 DEF Report, Messages

(* The hotkey that key_handle finds, and what it compared.                 *)
LEMMA MatchLemma ==
  ASSUME NEW r, Matches(r) # {}
  PROVE  /\ Min(Matches(r)) \in Matches(r)
         /\ First(r) \in Keys
         /\ Caps[Min(Matches(r))].key = First(r)
         /\ Caps[Min(Matches(r))].string \in Seq(Codes)
<1> DEFINE c == Min(Matches(r))
<1>1. Matches(r) \subseteq Nat
  BY HotKeysAssumption DEF Matches
<1>2. c \in Matches(r)
  BY <1>1, MinLemma
<1> HIDE DEF c
<1>3. c \in DOMAIN Caps /\ Caps[c].key = First(r)
  BY <1>2 DEF Matches
<1>4. Caps[c].key \in Keys /\ Caps[c].string \in Seq(Codes)
  <2> DEFINE R == [filter : Seq(SUBSET Mods), key : Keys,
                   exe : {"string", "pwd", "mail", "reset"}, string : Seq(Codes)]
  <2>1. Caps \in Seq(R)
    BY HotKeysAssumption
  <2> HIDE DEF R
  <2>2. Caps[c] \in R
    BY <1>3, <2>1
  <2> QED BY <2>2 DEF R
<1> QED BY <1>2, <1>3, <1>4 DEF c

(* A string is typed as the reports of its codes, each between reports     *)
(* without keys.                                                           *)
LEMMA TypedLemma ==
  ASSUME NEW string \in Seq(Codes), out_mods \in SUBSET Mods
  PROVE  /\ Left(string, Len(string)) \in SUBSET Mods
         /\ Typed(string) \in Seq(Messages)
         /\ \A i \in DOMAIN Typed(string) :
               \/ Typed(string)[i].keys = <<>>
               \/ \E j \in DOMAIN string : Typed(string)[i] = Press(string, j)
<1>0. \A i : ControlKey(string, i) \in SUBSET Mods
  BY DEF ControlKey
<1>1. \A i : Left(string, i) \in SUBSET Mods
  BY <1>0 DEF Left
<1>2. ASSUME NEW i \in DOMAIN string PROVE Press(string, i) \in Messages
  <2>1. string[i] \in Codes
    OBVIOUS
  <2>2. string[i].kind \in {"plain", "shift"} => string[i].key \in Keys
    BY <2>1 DEF Codes
  <2>3. Press(string, i).mods \in SUBSET Mods
    BY <1>0, HotKeysAssumption DEF Press
  <2>4. Press(string, i).keys \in Seq(Keys)
    BY <2>2 DEF Press
  <2> QED BY <2>3, <2>4 DEF Press, Messages
<1>3. ASSUME NEW m \in SUBSET Mods PROVE Clear(m) \in Messages
  BY DEF Clear, Messages
<1> DEFINE n == 2 * Len(string) - 1
           t == [j \in 1..n |-> IF j % 2 = 1 THEN Press(string, (j + 1) \div 2)
                                             ELSE Clear(Left(string, j \div 2))]
<1>4. ASSUME NEW j \in 1..n
      PROVE  /\ t[j] \in Messages
             /\ \/ t[j].keys = <<>>
                \/ \E k \in DOMAIN string : t[j] = Press(string, k)
  <2>1. CASE j % 2 = 1
    <3>1. (j + 1) \div 2 \in DOMAIN string
      <4>1. DOMAIN string = 1..Len(string) /\ Len(string) \in Nat
        OBVIOUS
      <4> QED BY <4>1, <2>1
    <3> QED BY <2>1, <3>1, <1>2
  <2>2. CASE j % 2 # 1
    <3>1. t[j] = Clear(Left(string, j \div 2))
      BY <2>2
    <3> QED BY <3>1, <1>1, <1>3 DEF Clear
  <2> QED BY <2>1, <2>2
<1>5. t \in Seq(Messages) /\ DOMAIN t = 1..n
  <2>1. n \in Int
    OBVIOUS
  <2> HIDE DEF n
  <2>2. CASE n \in Nat
    BY <1>4, <2>2
  <2>3. CASE n \notin Nat
    <3>1. 1..n = 1..0
      BY <2>1, <2>3
    <3>2. t \in [1..n -> Messages] /\ DOMAIN t = 1..n
      BY <1>4
    <3> HIDE DEF t
    <3>3. t \in [1..0 -> Messages]
      BY <3>1, <3>2
    <3>4. t \in Seq(Messages)
      BY <3>3
    <3> QED BY <3>2, <3>4
  <2> QED BY <2>2, <2>3
<1>6. Typed(string) = <<Clear(out_mods)>> \o t
  BY DEF Typed
<1> HIDE DEF n, t
<1>7. Clear(out_mods) \in Messages /\ Clear(out_mods).keys = <<>>
  BY <1>3 DEF Clear
<1>8. Typed(string) \in Seq(Messages)
  BY <1>5, <1>6, <1>7, ConsLemma
<1>9. ASSUME NEW i \in DOMAIN Typed(string)
      PROVE  \/ Typed(string)[i].keys = <<>>
             \/ \E j \in DOMAIN string : Typed(string)[i] = Press(string, j)
  <2>1. Range(Typed(string)) = Range(t) \union {Clear(out_mods)}
    BY <1>5, <1>6, <1>7, ConsLemma
  <2>2. Typed(string)[i] \in Range(t) \union {Clear(out_mods)}
    BY <2>1 DEF Range
  <2>3. CASE Typed(string)[i] = Clear(out_mods)
    BY <2>3, <1>7
  <2>4. CASE Typed(string)[i] \in Range(t)
    BY <2>4, <1>4, <1>5 DEF Range
  <2> QED BY <2>2, <2>3, <2>4
<1> QED BY <1>1, <1>8, <1>9

(* KEYBRD_Decode fills the mailbox up to its size.                         *)
LEMMA DecodeLemma ==
  ASSUME NEW r \in Messages, Decode(r), keys_last \in SUBSET Keys,
         mailbox \in Seq(Keys), Len(mailbox) <= MbAppSize
  PROVE  /\ mailbox' \in Seq(Keys) /\ Len(mailbox') <= MbAppSize
         /\ keys_last' \in SUBSET Keys
<1> DEFINE P == {i \in DOMAIN r.keys : r.keys[i] \notin keys_last}
           new == InOrder(P)
           free == MbAppSize - Len(mailbox)
           k == Min({Len(new), free})
           more == [j \in 1..k |-> r.keys[new[j]]]
<1>0. r.keys \in Seq(Keys)
  BY DEF Messages
<1>1. mailbox' = mailbox \o more /\ keys_last' = {r.keys[i] : i \in DOMAIN r.keys}
  BY DEF Decode
<1>2. P \subseteq Nat /\ IsFiniteSet(P)
  <2>1. DOMAIN r.keys = 1..Len(r.keys) /\ Len(r.keys) \in Nat
    BY <1>0
  <2>2. IsFiniteSet(1..Len(r.keys))
    BY <2>1, FS_Interval
  <2>3. P \in SUBSET (1..Len(r.keys))
    BY <2>1
  <2> QED BY <2>2, <2>3, FS_Subset
<1>3. new \in Seq(P) /\ Len(new) \in Nat
  BY <1>2, InOrderLemma
<1>4. free \in Nat /\ Len(mailbox) \in Nat
  BY HotKeysAssumption
<1> HIDE DEF new, free
<1>5. k \in Nat /\ k <= free /\ k <= Len(new)
  <2>1. {Len(new), free} \subseteq Nat /\ {Len(new), free} # {}
    BY <1>3, <1>4
  <2>2. Min({Len(new), free}) \in {Len(new), free}
        /\ \A m \in {Len(new), free} : Min({Len(new), free}) <= m
    BY <2>1, MinLemma
  <2> QED BY <2>2, <1>3, <1>4
<1> HIDE DEF k
<1>6. more \in Seq(Keys) /\ Len(more) = k
  <2>1. ASSUME NEW j \in 1..k PROVE r.keys[new[j]] \in Keys
    <3>1. new[j] \in P
      BY <1>3, <1>5
    <3> QED BY <3>1, <1>0
  <2> QED BY <2>1, <1>5
<1> HIDE DEF more, P
<1>7. mailbox' \in Seq(Keys) /\ Len(mailbox') = Len(mailbox) + k
  BY <1>1, <1>6, ConcatProperties
<1>8. Len(mailbox') <= MbAppSize
  BY <1>4, <1>5, <1>7, HotKeysAssumption DEF free
<1>9. keys_last' \in SUBSET Keys
  BY <1>0, <1>1
<1> QED BY <1>7, <1>8, <1>9
-----------------------------------------------------------------------------
(* What the invariants need besides the types.  hotkey_value is a key      *)
(* while it is compared, and a reset leaves nothing to compare.            *)
FlagOK == /\ hotkey_flag = 1 => hotkey_value \in Keys
          /\ ~up => hotkey_flag = 0

(* While mb_app is clear there is no password thread.                      *)
PwdOK == OnePassword /\ (~mb_app => pwd = "off")

(* When the user has let go, all there is to tell is the last report.      *)
BlankLast ==
  held = Nothing =>
    /\ out # <<>> => out = <<Blank>>
    /\ out = <<>> /\ ~lost =>
         IF mq_key_sm = <<>> THEN host = Blank ELSE mq_key_sm[Len(mq_key_sm)] = Blank

Types == TypeOK /\ FlagOK /\ PwdOK

(* What key_handle does with a report, in one of three ways.               *)
Handled(r, s, flag) ==
  /\ s \in Messages /\ flag \in 0..2
  /\ flag = 1 => hotkey_flag = 1
  /\ r = Blank => s = Blank /\ flag = 0
  /\ \/ Forward(s, flag) /\ (s.mods = {} \/ (s = r /\ Matches(r) = {}))
     \/ Divert(s, flag)
     \/ /\ ~mb_app /\ Matches(r) # {} /\ r # Blank
        /\ Execute(Caps[Min(Matches(r))], First(r))

LEMMA HandledLemma ==
  ASSUME TypeOK, FlagOK, NEW r \in Messages, KeyHandle(r)
  PROVE  \E s \in Messages, flag \in 0..2 : Handled(r, s, flag)
<1> DEFINE bare == [r EXCEPT !.mods = {}]
           rest == [bare EXCEPT !.keys = Tail(@)]
<1>1. bare \in Messages /\ bare.mods = {} /\ bare.keys = r.keys
  BY DEF Messages
<1>2. First(Blank) = 0 /\ 0 \notin Keys /\ Blank.mods = {}
  BY HotKeysAssumption DEF First, Blank
<1>3. Matches(r) # {} => r # Blank
  BY <1>2, MatchLemma
<1>4. CASE hotkey_flag = 1 /\ First(r) = hotkey_value
  <2>1. First(r) # 0
    BY <1>2, <1>4 DEF FlagOK
  <2>2. r.keys # <<>> /\ r # Blank
    BY <1>2, <2>1 DEF First
  <2>3. Tail(r.keys) \in Seq(Keys)
    BY <2>2, RestLemma DEF Messages
  <2>4. rest \in Messages /\ rest.mods = {}
    BY <1>1, <2>3 DEF Messages
  <2>5. Forward(rest, 1)
    BY <1>4 DEF KeyHandle
  <2> HIDE DEF rest
  <2>6. Handled(r, rest, 1)
    BY <1>4, <2>2, <2>4, <2>5 DEF Handled
  <2> QED BY <2>4, <2>6
<1>5. CASE ~(hotkey_flag = 1 /\ First(r) = hotkey_value) /\ hotkey_flag # 0 /\ r.mods # {}
  <2>1. LookUp(r, bare, 2) /\ r # Blank
    BY <1>2, <1>5 DEF KeyHandle
  <2> HIDE DEF bare
  <2>2. Handled(r, bare, 2)
    BY <1>1, <2>1 DEF LookUp, Handled
  <2> QED BY <1>1, <2>2
<1>6. CASE ~(hotkey_flag = 1 /\ First(r) = hotkey_value) /\ ~(hotkey_flag # 0 /\ r.mods # {})
  <2>1. LookUp(r, r, 0)
    BY <1>6 DEF KeyHandle
  <2>2. Handled(r, r, 0)
    BY <1>3, <2>1 DEF LookUp, Handled
  <2> QED BY <2>2
<1> QED BY <1>4, <1>5, <1>6

LEMMA EmptiesLemma ==
  \A q : q = <<>> => /\ q \in Seq(Messages) /\ q \in Seq(Keys)
                     /\ Len(q) <= SmSize /\ Len(q) <= MbAppSize
BY HotKeysAssumption

LEMMA InitTypes == Init => Types
<1> SUFFICES ASSUME Init PROVE Types
  OBVIOUS
<1>1. Nothing \in Holdings /\ Blank \in Messages
  BY DEF Nothing, Holdings, Blank, Messages
<1>3. TypeOK
  <2>1. /\ out = <<>> /\ mq_key_sm = <<>> /\ mailbox = <<>> /\ held = Nothing /\ host = Blank
        /\ up \in BOOLEAN /\ hotkey_flag = 0 /\ hotkey_value = 0 /\ out_mods = {}
        /\ lost \in BOOLEAN /\ mb_app \in BOOLEAN /\ live = 0 /\ pwd = "off" /\ keys_last = {}
    BY DEF Init, MasterInit
  <2> QED BY <1>1, <2>1, EmptiesLemma DEF TypeOK
<1>2. FlagOK /\ PwdOK
  BY DEF Init, MasterInit, FlagOK, PwdOK, OnePassword
<1> QED BY <1>2, <1>3 DEF Types

(* The report of a press or a release, as key_handle treats it.            *)
LEMMA TouchTypes ==
  ASSUME Types, NEW h \in Holdings, Touch(h)
  PROVE  Types'
<1> USE DEF Types
<1>1. held' \in Holdings /\ held' = h
  BY DEF Touch
<1>2. CASE ~up
  <2>1. UNCHANGED <<up, hvars, out_mods, out, mq_key_sm, host, mb_app, pvars, keys_last>>
        /\ lost' = TRUE
    BY <1>2 DEF Touch
  <2> QED BY <1>1, <2>1 DEF TypeOK, FlagOK, PwdOK, OnePassword, hvars, pvars
<1>3. CASE up
  <2> DEFINE r == Report(h)
  <2>1. r \in Messages /\ KeyHandle(r) /\ host' = host
    BY <1>3, ReportLemma DEF Touch
  <2> HIDE DEF r
  <2>2. PICK s \in Messages, flag \in 0..2 : Handled(r, s, flag)
    BY <2>1, HandledLemma
  <2>3. CASE Forward(s, flag)
    <3>1. /\ out' = <<s>> /\ hotkey_flag' = flag
          /\ UNCHANGED <<up, hotkey_value, out_mods, mq_key_sm, lost, mb_app, mailbox, live, pwd, keys_last>>
      BY <2>3 DEF Forward, pvars
    <3>2. out' \in Seq(Messages)
      BY <3>1
    <3>3. TypeOK'
      BY <1>1, <2>1, <3>1, <3>2 DEF TypeOK
    <3>4. FlagOK'
      BY <1>3, <2>2, <3>1 DEF FlagOK, Handled
    <3>5. PwdOK'
      BY <3>1 DEF PwdOK, OnePassword
    <3> QED BY <3>3, <3>4, <3>5
  <2>4. CASE Divert(s, flag)
    <3>1. /\ Decode(s) /\ lost' = TRUE /\ hotkey_flag' = flag
          /\ UNCHANGED <<up, hotkey_value, out_mods, out, mq_key_sm, mb_app, live, pwd>>
      BY <2>4 DEF Divert
    <3>2. /\ mailbox' \in Seq(Keys) /\ Len(mailbox') <= MbAppSize
          /\ keys_last' \in SUBSET Keys
      BY <3>1, DecodeLemma DEF TypeOK
    <3>3. TypeOK'
      BY <1>1, <2>1, <3>1, <3>2 DEF TypeOK
    <3>4. FlagOK'
      BY <1>3, <2>2, <3>1 DEF FlagOK, Handled
    <3>5. PwdOK'
      BY <3>1 DEF PwdOK, OnePassword
    <3> QED BY <3>3, <3>4, <3>5
  <2>5. CASE ~mb_app /\ Matches(r) # {} /\ Execute(Caps[Min(Matches(r))], First(r))
    <3> DEFINE cap == Caps[Min(Matches(r))]
    <3>1. First(r) \in Keys /\ cap.string \in Seq(Codes)
      BY <2>5, MatchLemma
    <3> HIDE DEF cap
    <3>2. CASE ResetSystem
      <4>1. /\ out' = <<>> /\ mq_key_sm' = <<>> /\ mailbox' = <<>>
            /\ up' = FALSE /\ hotkey_flag' = 0 /\ hotkey_value' = 0 /\ out_mods' = {}
            /\ lost' = TRUE /\ mb_app' = FALSE /\ live' = 0 /\ pwd' = "off" /\ keys_last' = {}
        BY <3>2 DEF ResetSystem
      <4>2. /\ out' \in Seq(Messages)
            /\ mq_key_sm' \in Seq(Messages) /\ Len(mq_key_sm') <= SmSize
            /\ mailbox' \in Seq(Keys) /\ Len(mailbox') <= MbAppSize
        BY <4>1, EmptiesLemma, Zenon
      <4>3. /\ up' \in BOOLEAN /\ lost' \in BOOLEAN /\ mb_app' \in BOOLEAN
            /\ host' \in Messages
        BY <2>1, <4>1, Zenon DEF TypeOK
      <4>4. /\ hotkey_flag' \in 0..2 /\ hotkey_value' \in Keys \union {0}
            /\ out_mods' \in SUBSET Mods /\ keys_last' \in SUBSET Keys
            /\ live' \in Nat /\ pwd' \in {"off", "getkbchar", "delete", "clear"}
        BY <4>1
      <4>5. TypeOK'
        BY <1>1, <4>2, <4>3, <4>4, Zenon DEF TypeOK
      <4> QED BY <4>1, <4>5 DEF FlagOK, PwdOK, OnePassword
    <3>3. CASE /\ TypeString(cap.string) \/ StartPwd \/ PostMail
               /\ hotkey_flag' = 1 /\ hotkey_value' = First(r)
               /\ UNCHANGED <<up, mq_key_sm, lost, keys_last>>
      <4>1. /\ out' \in Seq(Messages) /\ out_mods' \in SUBSET Mods
            /\ mb_app' \in BOOLEAN
            /\ mailbox' \in Seq(Keys) /\ Len(mailbox') <= MbAppSize
            /\ PwdOK' /\ live' \in Nat /\ pwd' \in {"off", "getkbchar", "delete", "clear"}
        <5>1. CASE TypeString(cap.string)
          <6>1. /\ out' = Typed(cap.string)
                /\ out_mods' = Left(cap.string, Len(cap.string))
                /\ UNCHANGED <<mb_app, mailbox, live, pwd>>
            BY <5>1 DEF TypeString, pvars
          <6>2. out' \in Seq(Messages) /\ out_mods' \in SUBSET Mods
            BY <3>1, <6>1, TypedLemma DEF TypeOK
          <6> QED BY <6>1, <6>2 DEF TypeOK, PwdOK, OnePassword
        <5>2. CASE StartPwd
          <6>1. /\ mb_app' = TRUE /\ mailbox' = <<>> /\ live' = live + 1
                /\ pwd' = "getkbchar" /\ UNCHANGED <<out, out_mods>>
            BY <5>2 DEF StartPwd
          <6>2. live = 0
            BY <2>5 DEF PwdOK, OnePassword
          <6>3. mailbox' \in Seq(Keys) /\ Len(mailbox') <= MbAppSize
            BY <6>1, HotKeysAssumption
          <6>4. PwdOK'
            BY <6>1, <6>2 DEF PwdOK, OnePassword
          <6> QED BY <6>1, <6>2, <6>3, <6>4 DEF TypeOK
        <5>3. CASE PostMail
          BY <5>3 DEF PostMail, pvars, TypeOK, PwdOK, OnePassword
        <5> QED BY <3>3, <5>1, <5>2, <5>3
      <4>2. TypeOK'
        BY <1>1, <2>1, <3>1, <3>3, <4>1 DEF TypeOK
      <4>3. FlagOK'
        BY <1>3, <3>1, <3>3 DEF FlagOK
      <4> QED BY <4>1, <4>2, <4>3
    <3> QED BY <2>5, <3>2, <3>3 DEF Execute, cap
  <2> QED BY <2>2, <2>3, <2>4, <2>5 DEF Handled
<1> QED BY <1>2, <1>3

LEMMA NextTypes == Types /\ [Next]_vars => Types'
<1> SUFFICES ASSUME Types, [Next]_vars PROVE Types'
  OBVIOUS
<1> USE DEF Types
<1>1. ASSUME NEW h \in Holdings, Touch(h) PROVE Types'
  BY <1>1, TouchTypes
<1>2. CASE Boot
  BY <1>2 DEF Boot, TypeOK, FlagOK, PwdOK, OnePassword, hvars, pvars
<1>3. CASE Send
  <2>1. /\ out # <<>> /\ out' = Tail(out)
        /\ lost' = (Len(mq_key_sm) >= SmSize)
        /\ mq_key_sm' = IF Len(mq_key_sm) < SmSize THEN Append(mq_key_sm, Head(out)) ELSE mq_key_sm
        /\ UNCHANGED <<held, up, hvars, out_mods, host, mb_app, pvars, keys_last>>
    BY <1>3 DEF Send
  <2>2. Head(out) \in Messages /\ out' \in Seq(Messages)
    BY <2>1, RestLemma DEF TypeOK
  <2>3. mq_key_sm' \in Seq(Messages) /\ Len(mq_key_sm') <= SmSize
    BY <2>1, <2>2, AppendLemma, HotKeysAssumption DEF TypeOK
  <2>4. TypeOK'
    BY <2>1, <2>2, <2>3 DEF TypeOK, hvars, pvars
  <2> QED BY <2>1, <2>4 DEF FlagOK, PwdOK, OnePassword, hvars, pvars
<1>4. CASE TakeKeySm
  <2>1. /\ mq_key_sm # <<>> /\ host' = Head(mq_key_sm) /\ mq_key_sm' = Tail(mq_key_sm)
        /\ UNCHANGED <<held, up, hvars, out_mods, out, lost, mb_app, pvars, keys_last>>
    BY <1>4 DEF TakeKeySm
  <2>2. /\ host' \in Messages /\ mq_key_sm' \in Seq(Messages)
        /\ Len(mq_key_sm') = Len(mq_key_sm) - 1
    BY <2>1, RestLemma DEF TypeOK
  <2>3. Len(mq_key_sm') <= SmSize
    BY <2>2, HotKeysAssumption DEF TypeOK
  <2>4. TypeOK'
    BY <2>1, <2>2, <2>3 DEF TypeOK, hvars, pvars
  <2> QED BY <2>1, <2>4 DEF FlagOK, PwdOK, OnePassword, hvars, pvars
<1>5. CASE GetKbChar
  <2>1. /\ mailbox # <<>> /\ mailbox' = Tail(mailbox) /\ pwd = "getkbchar" /\ pwd' = "delete"
        /\ UNCHANGED <<held, up, hvars, out_mods, out, mq_key_sm, host, lost, mb_app, live, keys_last>>
    BY <1>5 DEF GetKbChar, PwdStep
  <2>2. mailbox' \in Seq(Keys) /\ Len(mailbox') = Len(mailbox) - 1
    BY <2>1, RestLemma DEF TypeOK
  <2>3. Len(mailbox') <= MbAppSize
    BY <2>2, HotKeysAssumption DEF TypeOK
  <2>4. TypeOK'
    BY <2>1, <2>2, <2>3 DEF TypeOK, hvars
  <2> QED BY <2>1, <2>4 DEF FlagOK, PwdOK, OnePassword, hvars
<1>6. CASE Delete
  BY <1>6 DEF Delete, PwdStep, TypeOK, FlagOK, PwdOK, OnePassword, hvars
<1>7. CASE ClearMbApp
  BY <1>7 DEF ClearMbApp, PwdStep, TypeOK, FlagOK, PwdOK, OnePassword, hvars
<1>8. CASE UNCHANGED vars
  BY <1>8 DEF vars, TypeOK, FlagOK, PwdOK, OnePassword, hvars, pvars
<1> QED
  BY <1>1, <1>2, <1>3, <1>4, <1>5, <1>6, <1>7, <1>8 DEF Next

(* Every variable stays in its type, whatever is pressed and whatever the  *)
(* hotkeys do: the queue and the mailbox keep their bounds, and what is    *)
(* forwarded is a report.                                                  *)
THEOREM TypeCorrect == Spec => []Types
<1> QED BY InitTypes, NextTypes, PTL DEF Spec

THEOREM TypesHold == Spec => []TypeOK
<1>1. Types => TypeOK
  BY DEF Types
<1> QED BY <1>1, TypeCorrect, PTL

(* There is at most one password mailbox, and it exists as long as its     *)
(* thread may use it: key_handle starts no other, because mb_app is set    *)
(* from before the mailbox is created until after it is deleted.           *)
THEOREM PasswordsDoNotOverlap == Spec => []OnePassword
<1>1. Types => OnePassword
  BY DEF Types, PwdOK
<1> QED BY <1>1, TypeCorrect, PTL
-----------------------------------------------------------------------------
(* The user lets go: the last report is the blank one, which is forwarded  *)
(* as it is or lost to the password thread, and ends the last hotkey.      *)
LEMMA LetGo ==
  ASSUME Types, NEW h \in Holdings, Touch(h), held' = Nothing, up
  PROVE  /\ hotkey_flag' = 0 /\ host' = host /\ mq_key_sm' = mq_key_sm
         /\ out' = <<Blank>> \/ (out' = <<>> /\ lost' = TRUE)
<1>1. /\ h = Nothing /\ out = <<>> /\ KeyHandle(Report(h)) /\ host' = host
  BY DEF Touch
<1>2. Report(h) = Blank
  BY <1>1, InOrderFew DEF Report, Nothing, Blank, key_process
<1>3. PICK s \in Messages, flag \in 0..2 : Handled(Blank, s, flag)
  BY <1>1, <1>2, ReportLemma, HandledLemma DEF Types
<1>4. s = Blank /\ flag = 0 /\ (Forward(s, flag) \/ Divert(s, flag))
  BY <1>3 DEF Handled
<1> QED BY <1>1, <1>4 DEF Forward, Divert

(* When the user has let go of the keyboard, no hotkey is left to be       *)
(* blocked or stripped - across every hotkey, and a reset in the middle.   *)
THEOREM ReleaseResetsFlag == Spec => []ReleasedMeansReset
<1>1. Init => ReleasedMeansReset
  BY DEF Init, MasterInit, ReleasedMeansReset
<1>2. Types /\ ReleasedMeansReset /\ [Next]_vars => ReleasedMeansReset'
  <2> SUFFICES ASSUME Types, ReleasedMeansReset, [Next]_vars, up', held' = Nothing
               PROVE  hotkey_flag' = 0
    BY DEF ReleasedMeansReset
  <2>1. ASSUME NEW h \in Holdings, Touch(h) PROVE hotkey_flag' = 0
    <3>1. CASE up BY <2>1, <3>1, LetGo
    <3>2. CASE ~up BY <2>1, <3>2 DEF Touch
    <3> QED BY <3>1, <3>2
  <2>2. CASE Boot
    BY <2>2 DEF Boot, hvars, Types, FlagOK
  <2>3. CASE Send \/ TakeKeySm
    BY <2>3 DEF Send, TakeKeySm, hvars, ReleasedMeansReset
  <2>4. CASE GetKbChar \/ Delete \/ ClearMbApp
    BY <2>4 DEF GetKbChar, Delete, ClearMbApp, hvars, ReleasedMeansReset
  <2>5. CASE UNCHANGED vars
    BY <2>5 DEF vars, hvars, ReleasedMeansReset
  <2> QED BY <2>1, <2>2, <2>3, <2>4, <2>5 DEF Next
<1> QED BY <1>1, <1>2, TypeCorrect, PTL DEF Spec

LEMMA NextBlankLast == Types /\ BlankLast /\ [Next]_vars => BlankLast'
<1> SUFFICES ASSUME Types, BlankLast, [Next]_vars, held' = Nothing
             PROVE  /\ out' # <<>> => out' = <<Blank>>
                    /\ out' = <<>> /\ ~lost' =>
                         IF mq_key_sm' = <<>> THEN host' = Blank
                         ELSE mq_key_sm'[Len(mq_key_sm')] = Blank
  BY DEF BlankLast
<1>1. ASSUME NEW h \in Holdings, Touch(h)
      PROVE  out' = <<Blank>> \/ (out' = <<>> /\ lost' = TRUE)
  <2>1. CASE up BY <1>1, <2>1, LetGo
  <2>2. CASE ~up BY <1>1, <2>2 DEF Touch
  <2> QED BY <2>1, <2>2
<1>2. CASE Send
  <2>1. /\ out # <<>> /\ out' = Tail(out) /\ held = Nothing
        /\ lost' = (Len(mq_key_sm) >= SmSize)
        /\ mq_key_sm' = IF Len(mq_key_sm) < SmSize THEN Append(mq_key_sm, Head(out)) ELSE mq_key_sm
    BY <1>2 DEF Send
  <2>2. out = <<Blank>>
    BY <2>1 DEF BlankLast
  <2>3. out' = <<>> /\ Head(out) = Blank
    BY <2>1, <2>2
  <2>4. ASSUME ~lost'
        PROVE  mq_key_sm' # <<>> /\ mq_key_sm'[Len(mq_key_sm')] = Blank
    <3>0. ~ (Len(mq_key_sm) >= SmSize)
      BY <2>1, <2>4, Zenon
    <3>1. Len(mq_key_sm) < SmSize
      BY <3>0, HotKeysAssumption DEF Types, TypeOK
    <3>2. mq_key_sm' = Append(mq_key_sm, Blank) /\ Blank \in Messages
      BY <2>1, <2>2, <2>3, <3>1 DEF Types, TypeOK, Blank, Messages
    <3>3. mq_key_sm \in Seq(Messages)
      BY DEF Types, TypeOK
    <3> QED BY <3>2, <3>3
  <2> QED BY <2>3, <2>4
<1>3. CASE TakeKeySm
  <2>1. /\ mq_key_sm # <<>> /\ host' = Head(mq_key_sm) /\ mq_key_sm' = Tail(mq_key_sm)
        /\ UNCHANGED <<held, out, lost>>
    BY <1>3 DEF TakeKeySm
  <2>2. /\ Len(mq_key_sm) \in Nat \ {0} /\ Len(mq_key_sm') = Len(mq_key_sm) - 1
        /\ host' = mq_key_sm[1]
        /\ \A i \in 1..(Len(mq_key_sm) - 1) : mq_key_sm'[i] = mq_key_sm[i + 1]
        /\ mq_key_sm' = <<>> <=> Len(mq_key_sm) = 1
    BY <2>1, RestLemma DEF Types, TypeOK
  <2>3. ASSUME mq_key_sm' # <<>>
        PROVE  mq_key_sm'[Len(mq_key_sm')] = mq_key_sm[Len(mq_key_sm)]
    <3>1. Len(mq_key_sm') \in 1..(Len(mq_key_sm) - 1) /\ Len(mq_key_sm') + 1 = Len(mq_key_sm)
      BY <2>2, <2>3
    <3> QED BY <2>2, <3>1
  <2> QED BY <2>1, <2>2, <2>3 DEF BlankLast
<1>4. CASE Boot \/ GetKbChar \/ Delete \/ ClearMbApp \/ UNCHANGED vars
  BY <1>4 DEF Boot, GetKbChar, Delete, ClearMbApp, vars, BlankLast
<1>5. <<Blank>> # <<>>
  OBVIOUS
<1>6. CASE \E h \in Holdings : Touch(h)
  BY <1>1, <1>5, <1>6
<1> QED BY <1>2, <1>3, <1>4, <1>6 DEF Next

(* Whatever was captured, blocked, stripped or typed in between: when the  *)
(* user has let go and everything is sent, the host knows, unless the last *)
(* report of all was lost.                                                 *)
THEOREM NoKeyStuck == Spec => []NothingStuck
<1>1. Init => BlankLast
  BY DEF Init, MasterInit, BlankLast
<1>2. Spec => []BlankLast
  BY <1>1, NextBlankLast, TypeCorrect, PTL DEF Spec
<1>3. BlankLast => NothingStuck
  BY DEF BlankLast, NothingStuck
<1> QED BY <1>2, <1>3, PTL
-----------------------------------------------------------------------------
(* Nothing on its way to the host is the combination of a hotkey.          *)
Hidden(s) == \A i \in DOMAIN s : ~ IsHotKey(s[i])
AllHidden == Hidden(out) /\ Hidden(mq_key_sm) /\ ~ IsHotKey(host)

LEMMA BareLemma ==
  ASSUME NEW m, m.mods = {} \/ m.keys = <<>>
  PROVE  ~ IsHotKey(m)
<1> SUFFICES ASSUME NEW i \in DOMAIN Caps, Caps[i].filter # <<>>,
                    Filter(m.mods, Caps[i].filter), First(m) = Caps[i].key
             PROVE  FALSE
  BY DEF IsHotKey
<1> DEFINE R == [filter : Seq(SUBSET Mods), key : Keys,
                 exe : {"string", "pwd", "mail", "reset"}, string : Seq(Codes)]
<1>1. Caps \in Seq(R)
  BY HotKeysAssumption
<1> HIDE DEF R
<1>2. Caps[i] \in R
  BY <1>1
<1>3. Caps[i].filter \in Seq(SUBSET Mods) /\ Caps[i].key \in Keys
  BY <1>2 DEF R
<1>4. CASE m.keys = <<>>
  BY <1>3, <1>4, HotKeysAssumption DEF First
<1>5. CASE m.mods = {}
  <2> DEFINE f == Caps[i].filter
  <2>1. f # <<>> /\ f \in Seq(SUBSET Mods)
    BY <1>3
  <2> HIDE DEF f
  <2>2. 1 \in DOMAIN f
    BY <2>1
  <2>3. Filter(m.mods, f)
    BY DEF f
  <2>4. m.mods \intersect f[1] # {}
    BY <2>2, <2>3 DEF Filter
  <2> QED BY <1>5, <2>4
<1> QED BY <1>4, <1>5

LEMMA NextAllHidden ==
  ASSUME NoStringIsHotKey, Types, AllHidden, [Next]_vars
  PROVE  AllHidden'
<1>0. /\ out \in Seq(Messages) /\ mq_key_sm \in Seq(Messages)
      /\ \A i \in DOMAIN out : ~ IsHotKey(out[i])
      /\ \A i \in DOMAIN mq_key_sm : ~ IsHotKey(mq_key_sm[i])
      /\ ~ IsHotKey(host)
  BY DEF Types, TypeOK, AllHidden, Hidden
<1>1. ASSUME NEW h \in Holdings, Touch(h), up PROVE AllHidden'
  <2> DEFINE r == Report(h)
  <2>1. r \in Messages /\ KeyHandle(r) /\ host' = host
    BY <1>1, ReportLemma DEF Touch
  <2> HIDE DEF r
  <2>2. PICK s \in Messages, flag \in 0..2 : Handled(r, s, flag)
    BY <2>1, HandledLemma DEF Types
  <2>3. CASE Forward(s, flag) /\ (s.mods = {} \/ (s = r /\ Matches(r) = {}))
    <3>1. ~ IsHotKey(s)
      <4>1. CASE s.mods = {}
        BY <4>1, BareLemma
      <4>2. CASE Matches(s) = {}
        BY <4>2 DEF Matches, IsHotKey
      <4> QED BY <2>3, <4>1, <4>2
    <3>2. out' = <<s>> /\ mq_key_sm' = mq_key_sm
      BY <2>3 DEF Forward
    <3>3. Hidden(out')
      <4>1. DOMAIN <<s>> = {1} /\ <<s>>[1] = s
        OBVIOUS
      <4> QED BY <3>1, <3>2, <4>1 DEF Hidden
    <3> QED BY <1>0, <2>1, <3>2, <3>3 DEF AllHidden, Hidden
  <2>4. CASE Divert(s, flag)
    BY <1>0, <2>1, <2>4 DEF Divert, AllHidden, Hidden
  <2>5. CASE Matches(r) # {} /\ Execute(Caps[Min(Matches(r))], First(r))
    <3> DEFINE c == Min(Matches(r))
               cap == Caps[c]
    <3>1. cap.string \in Seq(Codes) /\ c \in DOMAIN Caps
      BY <2>5, MatchLemma DEF Matches
    <3>2. \A j \in DOMAIN cap.string : ~ IsHotKey(Press(cap.string, j))
      BY <3>1 DEF NoStringIsHotKey
    <3>3. \/ ResetSystem
          \/ (TypeString(cap.string) \/ StartPwd \/ PostMail) /\ UNCHANGED mq_key_sm
      BY <2>5 DEF Execute
    <3> HIDE DEF cap, c
    <3>4. CASE ResetSystem
      <4>1. out' = <<>> /\ mq_key_sm' = <<>>
        BY <3>4 DEF ResetSystem
      <4> QED BY <1>0, <2>1, <4>1 DEF AllHidden, Hidden
    <3>5. CASE TypeString(cap.string) /\ UNCHANGED mq_key_sm
      <4>1. out' = Typed(cap.string)
        BY <3>5 DEF TypeString
      <4>2. ASSUME NEW i \in DOMAIN Typed(cap.string)
            PROVE  ~ IsHotKey(Typed(cap.string)[i])
        <5>1. \/ Typed(cap.string)[i].keys = <<>>
              \/ \E j \in DOMAIN cap.string : Typed(cap.string)[i] = Press(cap.string, j)
          BY <3>1, TypedLemma DEF Types, TypeOK
        <5>2. CASE Typed(cap.string)[i].keys = <<>>
          BY <5>2, BareLemma
        <5> QED BY <3>2, <5>1, <5>2
      <4>3. Hidden(out')
        BY <4>1, <4>2 DEF Hidden
      <4> QED BY <1>0, <2>1, <3>5, <4>3 DEF AllHidden, Hidden
    <3>6. CASE (StartPwd \/ PostMail) /\ UNCHANGED mq_key_sm
      BY <1>0, <2>1, <3>6 DEF StartPwd, PostMail, AllHidden, Hidden
    <3> QED BY <3>3, <3>4, <3>5, <3>6
  <2> QED BY <2>2, <2>3, <2>4, <2>5 DEF Handled
<1>2. ASSUME NEW h \in Holdings, Touch(h), ~up PROVE AllHidden'
  BY <1>0, <1>2 DEF Touch, AllHidden, Hidden
<1>3. CASE Send
  <2>1. /\ out # <<>> /\ out' = Tail(out) /\ host' = host
        /\ mq_key_sm' = IF Len(mq_key_sm) < SmSize THEN Append(mq_key_sm, Head(out)) ELSE mq_key_sm
    BY <1>3 DEF Send
  <2>2. /\ Head(out) = out[1] /\ out[1] \in Messages /\ out' \in Seq(Messages)
        /\ Len(out) \in Nat \ {0} /\ Len(out') = Len(out) - 1
        /\ \A i \in 1..(Len(out) - 1) : out'[i] = out[i + 1]
    BY <1>0, <2>1, RestLemma
  <2>3. ~ IsHotKey(out[1])
    BY <1>0, <2>2
  <2>4. Hidden(out')
    <3> SUFFICES ASSUME NEW i \in DOMAIN out' PROVE ~ IsHotKey(out'[i])
      BY DEF Hidden
    <3>1. i \in 1..(Len(out) - 1) /\ i + 1 \in DOMAIN out
      BY <1>0, <2>2
    <3> QED BY <1>0, <2>2, <3>1
  <2>5. Hidden(mq_key_sm')
    <3> SUFFICES ASSUME NEW i \in DOMAIN mq_key_sm' PROVE ~ IsHotKey(mq_key_sm'[i])
      BY DEF Hidden
    <3>1. mq_key_sm'[i] = out[1] \/ (i \in DOMAIN mq_key_sm /\ mq_key_sm'[i] = mq_key_sm[i])
      <4>1. CASE mq_key_sm' = mq_key_sm
        BY <4>1
      <4>2. CASE mq_key_sm' = Append(mq_key_sm, out[1])
        <5>1. /\ DOMAIN mq_key_sm' = 1..(Len(mq_key_sm) + 1) /\ Len(mq_key_sm) \in Nat
              /\ DOMAIN mq_key_sm = 1..Len(mq_key_sm)
              /\ \A k \in 1..Len(mq_key_sm) : mq_key_sm'[k] = mq_key_sm[k]
              /\ mq_key_sm'[Len(mq_key_sm) + 1] = out[1]
          BY <1>0, <2>2, <4>2
        <5> QED BY <5>1
      <4> QED BY <2>1, <2>2, <4>1, <4>2
    <3> QED BY <1>0, <2>3, <3>1
  <2> QED BY <1>0, <2>1, <2>4, <2>5 DEF AllHidden
<1>4. CASE TakeKeySm
  <2>1. /\ mq_key_sm # <<>> /\ host' = Head(mq_key_sm) /\ mq_key_sm' = Tail(mq_key_sm)
        /\ out' = out
    BY <1>4 DEF TakeKeySm
  <2>2. /\ host' = mq_key_sm[1] /\ mq_key_sm' \in Seq(Messages)
        /\ Len(mq_key_sm) \in Nat \ {0} /\ Len(mq_key_sm') = Len(mq_key_sm) - 1
        /\ \A i \in 1..(Len(mq_key_sm) - 1) : mq_key_sm'[i] = mq_key_sm[i + 1]
    BY <1>0, <2>1, RestLemma
  <2>3. ~ IsHotKey(host')
    BY <1>0, <2>2
  <2>4. Hidden(mq_key_sm')
    <3> SUFFICES ASSUME NEW i \in DOMAIN mq_key_sm' PROVE ~ IsHotKey(mq_key_sm'[i])
      BY DEF Hidden
    <3>1. i \in 1..(Len(mq_key_sm) - 1) /\ i + 1 \in DOMAIN mq_key_sm
      BY <1>0, <2>2
    <3> QED BY <1>0, <2>2, <3>1
  <2> QED BY <1>0, <2>1, <2>3, <2>4 DEF AllHidden, Hidden
<1>5. CASE Boot \/ GetKbChar \/ Delete \/ ClearMbApp \/ UNCHANGED vars
  BY <1>0, <1>5 DEF Boot, GetKbChar, Delete, ClearMbApp, vars, AllHidden, Hidden
<1> QED BY <1>1, <1>2, <1>3, <1>4, <1>5 DEF Next

(* The host never sees the combination of a hotkey with modifiers, neither *)
(* from the user nor from what is left of it, if no string types one.      *)
THEOREM CombinationsAreHidden ==
  ASSUME NoStringIsHotKey
  PROVE  Spec => []HotKeysAreHidden
<1>1. Init => AllHidden
  BY BareLemma DEF Init, MasterInit, AllHidden, Hidden, Blank
<1>2. Types /\ AllHidden /\ [Next]_vars => AllHidden'
  BY NextAllHidden
<1>3. Spec => []AllHidden
  BY <1>1, <1>2, TypeCorrect, PTL DEF Spec
<1>4. AllHidden => HotKeysAreHidden
  BY DEF AllHidden, HotKeysAreHidden
<1> QED BY <1>3, <1>4, PTL
-----------------------------------------------------------------------------
(* What HotKeyFires says of one step.                                      *)
Fires ==
  \A i \in DOMAIN Caps :
    /\ up /\ ~mb_app /\ Caps[i].exe # "reset" /\ Caps[i].filter # <<>>
    /\ held.keys = {} /\ held'.keys = {Caps[i].key}
    /\ Filter(key_process(held'.mods), Caps[i].filter)
    => hotkey_flag' = 1 /\ hotkey_value' = Caps[i].key

LEMMA StepFires ==
  ASSUME ResetsStandAlone, Types, [Next]_vars
  PROVE  Fires
<1> SUFFICES ASSUME NEW i \in DOMAIN Caps,
                    up, ~mb_app, Caps[i].exe # "reset", Caps[i].filter # <<>>,
                    held.keys = {}, held'.keys = {Caps[i].key},
                    Filter(key_process(held'.mods), Caps[i].filter)
             PROVE  hotkey_flag' = 1 /\ hotkey_value' = Caps[i].key
  BY DEF Fires
<1>1. held' # held
  OBVIOUS
<1>2. PICK h \in Holdings : Touch(h)
  BY <1>1 DEF Next, vars, Boot, Send, TakeKeySm, GetKbChar, Delete, ClearMbApp
<1> DEFINE r == Report(h)
           c == Min(Matches(r))
<1>3. held' = h /\ KeyHandle(r) /\ r \in Messages
  BY <1>2, ReportLemma DEF Touch
<1>4. Caps[i].key \in Nat
  <2> DEFINE R == [filter : Seq(SUBSET Mods), key : Keys,
                   exe : {"string", "pwd", "mail", "reset"}, string : Seq(Codes)]
  <2>1. Caps \in Seq(R)
    BY HotKeysAssumption
  <2> HIDE DEF R
  <2>2. Caps[i] \in R
    BY <2>1
  <2> QED BY <2>2, HotKeysAssumption DEF R
<1>5. r.keys = <<Caps[i].key>> /\ r.mods = key_process(held'.mods)
  BY <1>3, <1>4, InOrderFew DEF Report
<1>6. First(r) = Caps[i].key
  BY <1>5 DEF First
<1> HIDE DEF r
<1>7. i \in Matches(r)
  BY <1>5, <1>6 DEF Matches
<1>8. c \in Matches(r) /\ Caps[c].key = First(r)
  BY <1>7, MatchLemma
<1> HIDE DEF c
<1>9. Caps[c].exe # "reset"
  <2>1. c \in DOMAIN Caps /\ Filter(r.mods, Caps[c].filter) /\ r.mods \in SUBSET Mods
    BY <1>3, <1>8 DEF Matches, Messages
  <2> QED BY <1>5, <1>6, <1>8, <2>1 DEF ResetsStandAlone
<1>10. CASE hotkey_flag = 1 /\ First(r) = hotkey_value
  BY <1>3, <1>6, <1>10 DEF KeyHandle, Forward
<1>11. CASE ~ (hotkey_flag = 1 /\ First(r) = hotkey_value)
  <2>1. \E s, flag : LookUp(r, s, flag)
    BY <1>3, <1>11 DEF KeyHandle
  <2>2. Execute(Caps[c], First(r))
    BY <1>7, <2>1 DEF LookUp, c
  <2> QED BY <1>6, <1>9, <2>2 DEF Execute
<1> QED BY <1>10, <1>11

(* Pressing the key of a hotkey under its modifiers executes a hotkey,     *)
(* whatever hotkey came before and left of its keys and modifiers.         *)
THEOREM HotKeysFire ==
  ASSUME ResetsStandAlone
  PROVE  Spec => HotKeyFires
<1>1. Types /\ [Next]_vars => Fires
  BY StepFires
<1>2. Types /\ [Next]_vars => [Fires]_vars
  BY <1>1
<1>3. Spec => [][Fires]_vars
  BY <1>2, TypeCorrect, PTL DEF Spec
<1> QED BY <1>3 DEF HotKeyFires, Fires
=============================================================================
