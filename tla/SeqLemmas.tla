----------------------------- MODULE SeqLemmas -----------------------------
(***************************************************************************)
(* What the list operations of the kernel do to the set of the elements of *)
(* a list, and that they keep a list free of duplicates; and that a set of *)
(* numbers has a least element, which Min chooses.                         *)
(***************************************************************************)
EXTENDS Integers, SequencesExt, SequenceTheorems, FiniteSetTheorems, TLAPS

(* Induction over the natural numbers, as a least counterexample.          *)
LEMMA LeastLemma ==
  ASSUME NEW B, B \subseteq Nat, B # {}
  PROVE  \E n \in B : \A m \in B : n <= m
<1>1. PICK n \in B : \A m \in B : ~ (<<m, n>> \in OpToRel(<, Nat))
  BY NatLessThanWellFounded, WFMin
<1>2. ASSUME NEW m \in B PROVE n <= m
  <2>1. ~ (m < n)
    BY <1>1 DEF OpToRel
  <2> QED BY <2>1
<1> QED BY <1>2

LEMMA MinLemma ==
  ASSUME NEW S, S \subseteq Nat, S # {}
  PROVE  Min(S) \in S /\ \A m \in S : Min(S) <= m
BY LeastLemma DEF Min

(* The range of a list, from what its elements are.                        *)
LEMMA RangeLemma ==
  ASSUME NEW s, NEW T,
         \A i \in DOMAIN s : s[i] \in T,
         \A x \in T : \E i \in DOMAIN s : s[i] = x
  PROVE  Range(s) = T
<1>1. ASSUME NEW x \in Range(s) PROVE x \in T
  BY DEF Range
<1>2. ASSUME NEW x \in T PROVE x \in Range(s)
  BY DEF Range
<1> QED BY <1>1, <1>2

(* Inserting at the end: rt_list_insert_before on the list head.           *)
LEMMA AppendLemma ==
  ASSUME NEW S, NEW s \in Seq(S), NEW e \in S
  PROVE  /\ Append(s, e) \in Seq(S)
         /\ Len(Append(s, e)) = Len(s) + 1
         /\ Append(s, e) # <<>>
         /\ Range(Append(s, e)) = Range(s) \union {e}
         /\ IsInjective(s) /\ e \notin Range(s) => IsInjective(Append(s, e))
<1> DEFINE r == Append(s, e)
<1>1. /\ r \in Seq(S) /\ Len(r) = Len(s) + 1 /\ r # <<>>
      /\ DOMAIN s = 1..Len(s) /\ DOMAIN r = 1..(Len(s) + 1) /\ Len(s) \in Nat
      /\ \A i \in 1..Len(s) : r[i] = s[i]
      /\ r[Len(s) + 1] = e
  OBVIOUS
<1> HIDE DEF r
<1>2. Range(r) = Range(s) \union {e}
  <2>1. \A i \in DOMAIN r : r[i] \in Range(s) \union {e}
    BY <1>1 DEF Range
  <2>2. \A x \in Range(s) \union {e} : \E i \in DOMAIN r : r[i] = x
    BY <1>1 DEF Range
  <2> QED BY <2>1, <2>2, RangeLemma
<1>3. ASSUME IsInjective(s), e \notin Range(s) PROVE IsInjective(r)
  BY <1>1, <1>3 DEF IsInjective, Range
<1> QED BY <1>1, <1>2, <1>3 DEF r

(* Inserting at the front, as an urgent message is.                        *)
LEMMA ConsLemma ==
  ASSUME NEW S, NEW s \in Seq(S), NEW e \in S
  PROVE  /\ <<e>> \o s \in Seq(S)
         /\ Len(<<e>> \o s) = Len(s) + 1
         /\ Range(<<e>> \o s) = Range(s) \union {e}
         /\ IsInjective(s) /\ e \notin Range(s) => IsInjective(<<e>> \o s)
<1> DEFINE r == <<e>> \o s
<1>1. /\ r \in Seq(S) /\ Len(r) = Len(s) + 1
      /\ DOMAIN s = 1..Len(s) /\ DOMAIN r = 1..(Len(s) + 1) /\ Len(s) \in Nat
      /\ r[1] = e
      /\ \A i \in 2..(Len(s) + 1) : r[i] = s[i - 1]
  OBVIOUS
<1> HIDE DEF r
<1>2. Range(r) = Range(s) \union {e}
  <2>1. ASSUME NEW i \in DOMAIN r PROVE r[i] \in Range(s) \union {e}
    <3>1. CASE i = 1 BY <3>1, <1>1
    <3>2. CASE i # 1
      <4>1. i - 1 \in DOMAIN s /\ r[i] = s[i - 1]
        BY <3>2, <1>1
      <4> QED BY <4>1 DEF Range
    <3> QED BY <3>1, <3>2
  <2>2. ASSUME NEW i \in DOMAIN s PROVE \E j \in DOMAIN r : r[j] = s[i]
    <3>1. i + 1 \in DOMAIN r /\ r[i + 1] = s[i]
      BY <1>1
    <3> QED BY <3>1
  <2>3. \E j \in DOMAIN r : r[j] = e
    BY <1>1
  <2>4. \A x \in Range(s) \union {e} : \E j \in DOMAIN r : r[j] = x
    BY <2>2, <2>3 DEF Range
  <2> QED BY <2>1, <2>4, RangeLemma
<1>3. ASSUME IsInjective(s), e \notin Range(s) PROVE IsInjective(r)
  <2>1. \A i \in 1..Len(s) : s[i] # e
    BY <1>1, <1>3 DEF Range
  <2>2. \A i, j \in 1..Len(s) : s[i] = s[j] => i = j
    BY <1>1, <1>3 DEF IsInjective
  <2>3. ASSUME NEW i \in 1..(Len(s) + 1), NEW j \in 1..(Len(s) + 1), r[i] = r[j]
        PROVE  i = j
    <3>1. \A k \in 1..(Len(s) + 1) : k # 1 => r[k] = s[k - 1] /\ k - 1 \in 1..Len(s)
      BY <1>1
    <3>2. CASE i = 1 \/ j = 1
      BY <1>1, <2>1, <2>3, <3>1, <3>2
    <3>3. CASE i # 1 /\ j # 1
      <4>1. i - 1 = j - 1
        BY <2>2, <2>3, <3>1, <3>3
      <4> QED BY <4>1
    <3> QED BY <3>2, <3>3
  <2> QED BY <1>1, <2>3 DEF IsInjective
<1> QED BY <1>1, <1>2, <1>3 DEF r

(* Taking the first element away.                                          *)
LEMMA TailLemma ==
  ASSUME NEW S, NEW s \in Seq(S), s # <<>>
  PROVE  /\ s[1] \in S
         /\ Tail(s) \in Seq(S)
         /\ Len(Tail(s)) = Len(s) - 1
         /\ Range(s) = Range(Tail(s)) \union {s[1]}
         /\ IsInjective(s) => IsInjective(Tail(s)) /\ s[1] \notin Range(Tail(s))
<1> DEFINE r == Tail(s)
<1>1. /\ Len(s) \in Nat \ {0} /\ r \in Seq(S) /\ Len(r) = Len(s) - 1
      /\ DOMAIN r = 1..(Len(s) - 1) /\ DOMAIN s = 1..Len(s)
      /\ \A i \in 1..(Len(s) - 1) : r[i] = s[i + 1]
      /\ s[1] \in S
  OBVIOUS
<1> HIDE DEF r
<1>2. Range(s) = Range(r) \union {s[1]}
  <2>1. ASSUME NEW i \in DOMAIN s PROVE s[i] \in Range(r) \union {s[1]}
    <3>1. CASE i # 1
      <4>1. i - 1 \in DOMAIN r /\ r[i - 1] = s[i]
        BY <3>1, <1>1
      <4> QED BY <4>1 DEF Range
    <3> QED BY <3>1
  <2>2. ASSUME NEW i \in DOMAIN r PROVE \E j \in DOMAIN s : s[j] = r[i]
    <3>1. i + 1 \in DOMAIN s /\ s[i + 1] = r[i]
      BY <1>1
    <3> QED BY <3>1
  <2>3. 1 \in DOMAIN s
    BY <1>1
  <2>4. \A x \in Range(r) \union {s[1]} : \E j \in DOMAIN s : s[j] = x
    BY <2>2, <2>3 DEF Range
  <2> QED BY <2>1, <2>4, RangeLemma
<1>3. ASSUME IsInjective(s) PROVE IsInjective(r) /\ s[1] \notin Range(r)
  <2>0. \A i, j \in 1..Len(s) : s[i] = s[j] => i = j
    BY <1>1, <1>3 DEF IsInjective
  <2>1. IsInjective(r)
    <3>1. ASSUME NEW i \in 1..(Len(s) - 1), NEW j \in 1..(Len(s) - 1), r[i] = r[j]
          PROVE  i = j
      <4>1. /\ i + 1 \in 1..Len(s) /\ j + 1 \in 1..Len(s)
            /\ s[i + 1] = s[j + 1]
        BY <1>1, <3>1
      <4>2. i + 1 = j + 1
        BY <2>0, <4>1
      <4> QED BY <4>2
    <3> QED BY <1>1, <3>1 DEF IsInjective
  <2>2. \A i \in DOMAIN r : r[i] # s[1]
    BY <1>1, <1>3 DEF IsInjective
  <2> QED BY <2>1, <2>2 DEF Range
<1> QED BY <1>1, <1>2, <1>3 DEF r

(* What is left after the first element, as a sequence.                    *)
LEMMA RestLemma ==
  ASSUME NEW S, NEW s \in Seq(S), s # <<>>
  PROVE  /\ s[1] \in S /\ Head(s) = s[1]
         /\ Tail(s) \in Seq(S)
         /\ Len(s) \in Nat \ {0} /\ Len(Tail(s)) = Len(s) - 1
         /\ \A i \in 1..(Len(s) - 1) : Tail(s)[i] = s[i + 1]
         /\ Tail(s) = <<>> <=> Len(s) = 1
<1>1. /\ Tail(s) \in Seq(S)
      /\ Len(s) \in Nat \ {0} /\ Len(Tail(s)) = Len(s) - 1
      /\ \A i \in 1..(Len(s) - 1) : Tail(s)[i] = s[i + 1]
      /\ s[1] \in S /\ Head(s) = s[1]
  OBVIOUS
<1> DEFINE r == Tail(s)
<1> HIDE DEF r
<1>2. r \in Seq(S) /\ Len(r) = Len(s) - 1
  BY <1>1 DEF r
<1>3. r = <<>> <=> Len(r) = 0
  BY <1>2, EmptySeq
<1>4. r = <<>> <=> Len(s) = 1
  BY <1>1, <1>2, <1>3
<1>5. Tail(s) = <<>> <=> Len(s) = 1
  BY <1>4, Zenon DEF r
<1> QED
  BY <1>1, <1>5, Zenon

LEMMA SingleLemma ==
  ASSUME NEW S, NEW s \in Seq(S), s # <<>>, Len(s) <= 1
  PROVE  /\ s[1] \in S /\ s = <<s[1]>> /\ Len(s) = 1
         /\ Tail(s) = <<>>
<1>1. Len(s) = 1 /\ s[1] \in S
  BY RestLemma
<1>2. <<s[1]>> \in Seq(S) /\ Len(<<s[1]>>) = 1 /\ <<s[1]>>[1] = s[1]
  BY <1>1
<1>3. s = <<s[1]>>
  BY <1>1, <1>2, SeqEqual
<1>4. Tail(s) = <<>>
  BY <1>1, RestLemma
<1> QED
  BY <1>1, <1>3, <1>4

(* Taking any one element away: rt_list_remove.                            *)
LEMMA RemoveAtLemma ==
  ASSUME NEW S, NEW s \in Seq(S), NEW i \in DOMAIN s, IsInjective(s)
  PROVE  /\ RemoveAt(s, i) \in Seq(S)
         /\ Range(RemoveAt(s, i)) = Range(s) \ {s[i]}
         /\ IsInjective(RemoveAt(s, i))
<1> DEFINE a == SubSeq(s, 1, i - 1)
           b == SubSeq(s, i + 1, Len(s))
           r == a \o b
<1>1. DOMAIN s = 1..Len(s) /\ Len(s) \in Nat /\ i \in 1..Len(s)
  OBVIOUS
<1>2. /\ a \in Seq(S) /\ Len(a) = i - 1
      /\ \A j \in 1..(i - 1) : a[j] = s[j]
  BY <1>1, SubSeqProperties
<1>3. /\ b \in Seq(S) /\ Len(b) = Len(s) - i
      /\ \A j \in 1..(Len(s) - i) : b[j] = s[i + j]
  BY <1>1, SubSeqProperties
<1> HIDE DEF a, b
<1>4. /\ r \in Seq(S) /\ Len(r) = Len(s) - 1 /\ DOMAIN r = 1..(Len(s) - 1)
      /\ \A j \in 1..(Len(s) - 1) : r[j] = IF j < i THEN s[j] ELSE s[j + 1]
  <2>1. /\ r \in Seq(S) /\ Len(r) = Len(s) - 1 /\ DOMAIN r = 1..(Len(s) - 1)
        /\ \A j \in 1..(Len(s) - 1) : r[j] = IF j <= i - 1 THEN a[j] ELSE b[j - (i - 1)]
    <3>1. /\ r \in Seq(S) /\ Len(r) = Len(a) + Len(b)
          /\ \A j \in 1..(Len(a) + Len(b)) : r[j] = IF j <= Len(a) THEN a[j] ELSE b[j - Len(a)]
      BY <1>2, <1>3, ConcatProperties
    <3> HIDE DEF r
    <3>2. Len(a) + Len(b) = Len(s) - 1
      BY <1>1, <1>2, <1>3
    <3> QED BY <1>1, <1>2, <3>1, <3>2
  <2> HIDE DEF r
  <2>2. ASSUME NEW j \in 1..(Len(s) - 1)
        PROVE  r[j] = IF j < i THEN s[j] ELSE s[j + 1]
    <3>1. CASE j < i
      BY <1>1, <1>2, <2>1, <3>1
    <3>2. CASE ~ (j < i)
      <4>1. j - (i - 1) \in 1..(Len(s) - i) /\ i + (j - (i - 1)) = j + 1
        BY <1>1, <3>2
      <4>2. b[j - (i - 1)] = s[i + (j - (i - 1))]
        BY <1>3, <4>1
      <4>3. r[j] = b[j - (i - 1)]
        BY <1>1, <2>1, <3>2
      <4> QED BY <3>2, <4>1, <4>2, <4>3
    <3> QED BY <3>1, <3>2
  <2> QED BY <2>1, <2>2
<1> HIDE DEF r
<1>5. IsInjective(r)
  <2> SUFFICES ASSUME NEW j \in DOMAIN r, NEW k \in DOMAIN r, r[j] = r[k]
               PROVE  j = k
    BY DEF IsInjective
  <2>1. \A m, n \in 1..Len(s) : s[m] = s[n] => m = n
    BY <1>1 DEF IsInjective
  <2> QED BY <1>1, <1>4, <2>1
<1>6. Range(r) = Range(s) \ {s[i]}
  <2>1. ASSUME NEW j \in DOMAIN s, j # i PROVE \E k \in DOMAIN r : r[k] = s[j]
    <3>1. CASE j < i
      <4>1. j \in DOMAIN r /\ r[j] = s[j]
        BY <1>1, <1>4, <3>1
      <4> QED BY <4>1
    <3>2. CASE j > i
      <4>1. j - 1 \in DOMAIN r /\ r[j - 1] = s[j]
        BY <1>1, <1>4, <3>2
      <4> QED BY <4>1
    <3> QED BY <1>1, <2>1, <3>1, <3>2
  <2>2. ASSUME NEW j \in DOMAIN r PROVE r[j] \in Range(s) \ {s[i]}
    <3>1. \A m, n \in 1..Len(s) : s[m] = s[n] => m = n
      BY <1>1 DEF IsInjective
    <3>2. \E m \in 1..Len(s) : m # i /\ r[j] = s[m]
      BY <1>1, <1>4
    <3> QED BY <1>1, <3>1, <3>2 DEF Range
  <2>3. \A x \in Range(s) \ {s[i]} : \E k \in DOMAIN r : r[k] = x
    BY <2>1 DEF Range
  <2> QED BY <2>2, <2>3, RangeLemma
<1> QED BY <1>4, <1>5, <1>6 DEF r, a, b, RemoveAt

(* Two elements of r are in the order they have in s.                      *)
KeepsOrder(r, s) ==
  \A i, j \in DOMAIN r : i < j =>
    \E m, n \in DOMAIN s : m < n /\ s[m] = r[i] /\ s[n] = r[j]

LEMMA RemoveAtOrder ==
  ASSUME NEW S, NEW s \in Seq(S), NEW i \in DOMAIN s
  PROVE  /\ Len(RemoveAt(s, i)) = Len(s) - 1
         /\ KeepsOrder(RemoveAt(s, i), s)
<1> DEFINE a == SubSeq(s, 1, i - 1)
           b == SubSeq(s, i + 1, Len(s))
           r == a \o b
<1>1. DOMAIN s = 1..Len(s) /\ Len(s) \in Nat /\ i \in 1..Len(s)
  OBVIOUS
<1>2. /\ a \in Seq(S) /\ Len(a) = i - 1
      /\ \A j \in 1..(i - 1) : a[j] = s[j]
  BY <1>1, SubSeqProperties
<1>3. /\ b \in Seq(S) /\ Len(b) = Len(s) - i
      /\ \A j \in 1..(Len(s) - i) : b[j] = s[i + j]
  BY <1>1, SubSeqProperties
<1> HIDE DEF a, b
<1>4. /\ r \in Seq(S) /\ Len(r) = Len(a) + Len(b)
      /\ \A j \in 1..(Len(a) + Len(b)) : r[j] = IF j <= Len(a) THEN a[j] ELSE b[j - Len(a)]
  BY <1>2, <1>3, ConcatProperties
<1> HIDE DEF r
<1>5. Len(r) = Len(s) - 1 /\ DOMAIN r = 1..(Len(s) - 1)
  <2>1. Len(r) = Len(s) - 1
    BY <1>1, <1>2, <1>3, <1>4
  <2> QED BY <1>4, <2>1, LenProperties
<1>6. ASSUME NEW j \in 1..(Len(s) - 1)
      PROVE  /\ j < i => r[j] = s[j]
             /\ j >= i => r[j] = s[j + 1]
  <2>1. ASSUME j < i PROVE r[j] = s[j]
    BY <1>1, <1>2, <1>3, <1>4, <2>1
  <2>2. ASSUME j >= i PROVE r[j] = s[j + 1]
    <3>1. j - (i - 1) \in 1..(Len(s) - i) /\ i + (j - (i - 1)) = j + 1
      BY <1>1, <2>2
    <3>2. b[j - (i - 1)] = s[i + (j - (i - 1))]
      BY <1>3, <3>1
    <3>3. r[j] = b[j - (i - 1)]
      BY <1>1, <1>2, <1>3, <1>4, <2>2
    <3> QED BY <3>1, <3>2, <3>3
  <2> QED BY <2>1, <2>2
<1>7. ASSUME NEW j \in DOMAIN r, NEW l \in DOMAIN r, j < l
      PROVE  \E m, n \in DOMAIN s : m < n /\ s[m] = r[j] /\ s[n] = r[l]
  <2>1. j \in 1..(Len(s) - 1) /\ l \in 1..(Len(s) - 1)
    BY <1>5
  <2>2. CASE l < i
    <3>1. j \in DOMAIN s /\ l \in DOMAIN s /\ j < i
      BY <1>1, <1>7, <2>1, <2>2
    <3> QED BY <1>6, <1>7, <2>1, <2>2, <3>1
  <2>3. CASE j < i /\ l >= i
    <3>1. j \in DOMAIN s /\ l + 1 \in DOMAIN s /\ j < l + 1
      BY <1>1, <1>7, <2>1
    <3> QED BY <1>6, <2>1, <2>3, <3>1
  <2>4. CASE j >= i
    <3>1. j + 1 \in DOMAIN s /\ l + 1 \in DOMAIN s /\ j + 1 < l + 1 /\ l >= i
      BY <1>1, <1>7, <2>1, <2>4
    <3> QED BY <1>6, <2>1, <2>4, <3>1
  <2> QED BY <1>1, <2>1, <2>2, <2>3, <2>4
<1>8. KeepsOrder(r, s)
  BY <1>7 DEF KeepsOrder
<1> QED BY <1>5, <1>8 DEF r, a, b, RemoveAt

(* Taking away an element wherever it is, if it is there: rt_list_remove.  *)
LEMMA RemoveFirstLemma ==
  ASSUME NEW S, NEW s \in Seq(S), NEW e, IsInjective(s)
  PROVE  /\ RemoveFirst(s, e) \in Seq(S)
         /\ Range(RemoveFirst(s, e)) = Range(s) \ {e}
         /\ IsInjective(RemoveFirst(s, e))
         /\ KeepsOrder(RemoveFirst(s, e), s)
<1>0. DOMAIN s = 1..Len(s) /\ Len(s) \in Nat
  OBVIOUS
<1>1. CASE \E i \in 1..Len(s) : s[i] = e
  <2> DEFINE I == {i \in 1..Len(s) : s[i] = e}
  <2>1. I # {} /\ I \subseteq Nat
    BY <1>1, <1>0
  <2>2. RemoveFirst(s, e) = RemoveAt(s, Min(I))
    BY <1>1, <2>1 DEF RemoveFirst, SelectInSeq
  <2>3. Min(I) \in I
    BY <2>1, MinLemma
  <2>4. Min(I) \in DOMAIN s /\ s[Min(I)] = e
    BY <1>0, <2>3
  <2>5. PICK m \in DOMAIN s : s[m] = e /\ RemoveFirst(s, e) = RemoveAt(s, m)
    BY <2>2, <2>4
  <2>6. /\ RemoveAt(s, m) \in Seq(S)
        /\ Range(RemoveAt(s, m)) = Range(s) \ {s[m]}
        /\ IsInjective(RemoveAt(s, m))
        /\ KeepsOrder(RemoveAt(s, m), s)
    BY RemoveAtLemma, RemoveAtOrder
  <2> HIDE DEF I
  <2> QED BY <2>5, <2>6
<1>2. CASE ~ \E i \in 1..Len(s) : s[i] = e
  <2>1. RemoveFirst(s, e) = s
    BY <1>2 DEF RemoveFirst
  <2>2. e \notin Range(s)
    BY <1>0, <1>2 DEF Range
  <2>3. KeepsOrder(s, s)
    BY DEF KeepsOrder
  <2> QED BY <2>1, <2>2, <2>3
<1> QED BY <1>1, <1>2

(* Inserting at any position: rt_list_insert_before an element.            *)
LEMMA InsertAtLemma ==
  ASSUME NEW S, NEW s \in Seq(S), NEW i \in 1..(Len(s) + 1), NEW e \in S
  PROVE  /\ InsertAt(s, i, e) \in Seq(S)
         /\ Len(InsertAt(s, i, e)) = Len(s) + 1
         /\ DOMAIN InsertAt(s, i, e) = 1..(Len(s) + 1)
         /\ \A j \in 1..(Len(s) + 1) :
              /\ j < i => j \in DOMAIN s /\ InsertAt(s, i, e)[j] = s[j]
              /\ j = i => InsertAt(s, i, e)[j] = e
              /\ j > i => j - 1 \in DOMAIN s /\ InsertAt(s, i, e)[j] = s[j - 1]
         /\ Range(InsertAt(s, i, e)) = Range(s) \union {e}
         /\ IsInjective(s) /\ e \notin Range(s) => IsInjective(InsertAt(s, i, e))
<1> DEFINE a == SubSeq(s, 1, i - 1)
           b == SubSeq(s, i, Len(s))
           c == a \o <<e>>
           r == c \o b
<1>1. DOMAIN s = 1..Len(s) /\ Len(s) \in Nat
  OBVIOUS
<1>2. /\ a \in Seq(S) /\ Len(a) = i - 1
      /\ \A j \in 1..(i - 1) : a[j] = s[j]
  BY <1>1, SubSeqProperties
<1>3. /\ b \in Seq(S) /\ Len(b) = Len(s) - i + 1
      /\ \A j \in 1..(Len(s) - i + 1) : b[j] = s[i + j - 1]
  BY <1>1, SubSeqProperties
<1> HIDE DEF a, b
<1>4. /\ c \in Seq(S) /\ Len(c) = Len(a) + 1
      /\ \A j \in 1..Len(a) : c[j] = a[j]
      /\ c[Len(a) + 1] = e
  BY <1>2
<1> HIDE DEF c
<1>5. /\ r \in Seq(S) /\ Len(r) = Len(c) + Len(b)
      /\ \A j \in 1..(Len(c) + Len(b)) : r[j] = IF j <= Len(c) THEN c[j] ELSE b[j - Len(c)]
  BY <1>3, <1>4, ConcatProperties
<1> HIDE DEF r
<1>6. Len(c) = i
  BY <1>2, <1>4
<1>7. Len(r) = Len(s) + 1 /\ DOMAIN r = 1..(Len(s) + 1)
  <2>1. Len(r) = Len(s) + 1
    BY <1>1, <1>3, <1>5, <1>6
  <2> QED BY <1>5, <2>1, LenProperties
<1>8. ASSUME NEW j \in 1..(Len(s) + 1)
      PROVE  /\ j < i => j \in DOMAIN s /\ r[j] = s[j]
             /\ j = i => r[j] = e
             /\ j > i => j - 1 \in DOMAIN s /\ r[j] = s[j - 1]
  <2>0. Len(c) + Len(b) = Len(s) + 1
    BY <1>1, <1>3, <1>6
  <2>1. ASSUME j < i PROVE j \in DOMAIN s /\ r[j] = s[j]
    <3>1. j \in DOMAIN s /\ j \in 1..(i - 1) /\ j <= i
      BY <1>1, <2>1
    <3>2. r[j] = c[j]
      BY <1>5, <1>6, <2>0, <3>1
    <3> QED BY <1>2, <1>4, <3>1, <3>2
  <2>2. ASSUME j = i PROVE r[j] = e
    <3>1. r[j] = c[i]
      BY <1>5, <1>6, <2>0, <2>2
    <3>2. Len(a) + 1 = i
      BY <1>2
    <3> QED BY <1>4, <3>1, <3>2
  <2>3. ASSUME j > i PROVE j - 1 \in DOMAIN s /\ r[j] = s[j - 1]
    <3>1. j - i \in 1..(Len(s) - i + 1) /\ i + (j - i) - 1 = j - 1 /\ j - 1 \in 1..Len(s)
      BY <1>1, <2>3
    <3>2. r[j] = b[j - i]
      BY <1>5, <1>6, <2>0, <2>3
    <3>3. b[j - i] = s[i + (j - i) - 1]
      BY <1>3, <3>1
    <3> QED BY <1>1, <3>1, <3>2, <3>3
  <2> QED BY <2>1, <2>2, <2>3
<1>9. Range(r) = Range(s) \union {e}
  <2>1. ASSUME NEW j \in DOMAIN r PROVE r[j] \in Range(s) \union {e}
    <3>1. j \in 1..(Len(s) + 1) /\ (j < i \/ j = i \/ j > i)
      BY <1>7
    <3> QED BY <1>8, <3>1 DEF Range
  <2>2. ASSUME NEW j \in DOMAIN s PROVE \E l \in DOMAIN r : r[l] = s[j]
    <3>1. CASE j < i
      <4>1. j \in 1..(Len(s) + 1)
        BY <1>1
      <4> QED BY <1>7, <1>8, <3>1, <4>1
    <3>2. CASE j >= i
      <4>1. j + 1 \in 1..(Len(s) + 1) /\ j + 1 > i /\ (j + 1) - 1 = j
        BY <1>1, <3>2
      <4> QED BY <1>7, <1>8, <4>1
    <3> QED BY <1>1, <3>1, <3>2
  <2>3. i \in DOMAIN r /\ r[i] = e
    BY <1>7, <1>8
  <2>4. \A x \in Range(s) \union {e} : \E l \in DOMAIN r : r[l] = x
    BY <2>2, <2>3 DEF Range
  <2> QED BY <2>1, <2>4, RangeLemma
<1>10. ASSUME IsInjective(s), e \notin Range(s) PROVE IsInjective(r)
  <2>1. /\ \A m, n \in DOMAIN s : s[m] = s[n] => m = n
        /\ \A m \in DOMAIN s : s[m] # e
    BY <1>1, <1>10 DEF IsInjective, Range
  <2>2. ASSUME NEW j \in DOMAIN r, NEW l \in DOMAIN r, r[j] = r[l]
        PROVE  j = l
    <3>1. j \in 1..(Len(s) + 1) /\ l \in 1..(Len(s) + 1)
      BY <1>7
    <3>2. /\ j < i => j \in DOMAIN s /\ r[j] = s[j]
          /\ j = i => r[j] = e
          /\ j > i => j - 1 \in DOMAIN s /\ r[j] = s[j - 1]
      BY <1>8, <3>1
    <3>3. /\ l < i => l \in DOMAIN s /\ r[l] = s[l]
          /\ l = i => r[l] = e
          /\ l > i => l - 1 \in DOMAIN s /\ r[l] = s[l - 1]
      BY <1>8, <3>1
    <3>4. j < i /\ l < i => j = l
      BY <2>1, <2>2, <3>2, <3>3
    <3>5. j > i /\ l > i => j - 1 = l - 1
      BY <2>1, <2>2, <3>2, <3>3
    <3>6. j < i /\ l > i => j = l - 1
      BY <2>1, <2>2, <3>2, <3>3
    <3>7. j > i /\ l < i => j - 1 = l
      BY <2>1, <2>2, <3>2, <3>3
    <3>8. j = i => l = i
      BY <2>1, <2>2, <3>1, <3>2, <3>3
    <3>9. l = i => j = i
      BY <2>1, <2>2, <3>1, <3>2, <3>3
    <3> QED BY <1>1, <3>1, <3>4, <3>5, <3>6, <3>7, <3>8, <3>9
  <2> QED BY <2>2 DEF IsInjective
<1> QED BY <1>7, <1>8, <1>9, <1>10, <1>5 DEF r, c, a, b, InsertAt
=============================================================================
