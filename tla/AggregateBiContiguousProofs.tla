--------------------- MODULE AggregateBiContiguousProofs ---------------------
(***************************************************************************)
(* AggregateBiContiguous6 (aggregate.go), for halves of every two widths   *)
(* and every bag of networks of the class.                                 *)
(*                                                                         *)
(* The aggregation.  RecursionExists gives the recursive functions of the  *)
(* model (the binary searches, the stack of low rows, the merge of buddy   *)
(* rows, the runs of the ancestor masks, the compaction of a chunk) their  *)
(* recursion equations; InductOnSize then says what each returns.  A       *)
(* search for a mask ends at the first position outside a prefix that is   *)
(* ordered (SearchIsExact), one for an address meets it where the          *)
(* addresses ascend (AddressAtIs), a row and its merge name the same       *)
(* addresses, and a network removed is contained in one that is kept.      *)
(* The invariant UInv joins what the phases need of each other: the        *)
(* networks ascend by level while a sweep searches them, the block being   *)
(* swept is exactly the networks of its level, and they ascend by mask     *)
(* while the chunks are probed.                                            *)
(*                                                                         *)
(* The order.  A row pushed on the stack in ascending order stays so, and  *)
(* neighbours that do not merge do not contain one another (RowGap), so    *)
(* that a level once swept holds no containment (LowRowsTidy); a buddy     *)
(* merge keeps that in its rows and is sorted into the level it joins      *)
(* (HighBuddiesNeat); and the probe finds every kept network that          *)
(* contains a candidate, because the run of an ancestor mask is the whole  *)
(* of its kept networks, in ascending order (RunsComplete,                 *)
(* ContainedIsFound).  The invariant SInv adds these to UInv.              *)
(*                                                                         *)
(* The result.  A merge leaves no equal buddy rows at its level            *)
(* (HighBuddiesUnmatched); without those and without containment nothing   *)
(* merges (ApartIsLoose), and a call on such a slice only reorders it      *)
(* (LowRowsStay, NoneDropped, SameOrder).  The invariant RInv adds what a  *)
(* round has achieved so far, and what the second call has before it.      *)
(***************************************************************************)
EXTENDS AggregateBiContiguous, NetworkTheorems, SequenceTheorems

-----------------------------------------------------------------------------
(* Binary search                                                           *)

(* The bounds close in on one position; when the passed entries come first *)
(* it is the end of them.                                                  *)
LEMMA SearchIsExact ==
  ASSUME NEW s, NEW from \in Nat, NEW to \in Nat, from <= to, NEW passed
  PROVE  /\ SearchFirst(s, from, to, passed) \in from .. to
         /\ (\A i, j \in from .. (to - 1) : i < j /\ s[j] \in passed => s[i] \in passed)
              => \A i \in from .. (to - 1) :
                   i < SearchFirst(s, from, to, passed) <=> s[i] \in passed
<1> DEFINE D == Bounds(from, to)
           leaf == {p \in D : p[1] >= p[2]}
           base == [p \in D |-> p[1]]
           up == {i \in from .. to : s[i] \in passed}
           Recurs(f) == f = [p \in (from .. to) \X (from .. to) |->
                               IF p[1] >= p[2] THEN p[1]
                               ELSE IF s[(p[1] + p[2]) \div 2] \in passed
                                      THEN f[<<((p[1] + p[2]) \div 2) + 1, p[2]>>]
                                      ELSE f[<<p[1], (p[1] + p[2]) \div 2>>]]
           search == CHOOSE f : Recurs(f)
<1>1. SearchFirst(s, from, to, passed) = search[<<from, to>>]
  BY DEF SearchFirst
<1>2. ASSUME NEW p \in D
      PROVE  p[1] \in from .. to /\ p[2] \in from .. to /\ p = <<p[1], p[2]>> /\ Midway(p) \in from .. to
  BY DEF Bounds, Midway
<1>3. PICK f \in [D -> from .. to] : Bisects(f, D, leaf, base, up)
  <2>1. base \in [D -> from .. to] /\ \A p \in D : p[1] >= p[2] => p \in leaf
    BY <1>2
  <2> HIDE DEF leaf, base, up
  <2> QED
    BY <2>1, BisectionExists
<1>4. Recurs(f)
  <2>1. ASSUME NEW p \in D
        PROVE  f[p] = IF p[1] >= p[2] THEN p[1]
                      ELSE IF s[Midway(p)] \in passed THEN f[<<Midway(p) + 1, p[2]>>]
                      ELSE f[<<p[1], Midway(p)>>]
    <3>1. f[p] = IF p \in leaf THEN base[p]
                 ELSE IF Midway(p) \in up THEN f[<<Midway(p) + 1, p[2]>>] ELSE f[<<p[1], Midway(p)>>]
      <4> HIDE DEF D, leaf, base, up
      <4> QED
        BY <1>3, Zenon DEF Bisects
    <3>2. /\ p \in leaf <=> p[1] >= p[2]
          /\ base[p] = p[1]
          /\ Midway(p) \in up <=> s[Midway(p)] \in passed
      BY <1>2
    <3> HIDE DEF D, leaf, base, up
    <3> QED
      BY <3>1, <3>2
  <2>2. f = [p \in D |-> f[p]]
    BY <1>3
  <2>3. f = [p \in D |-> IF p[1] >= p[2] THEN p[1]
                         ELSE IF s[Midway(p)] \in passed THEN f[<<Midway(p) + 1, p[2]>>]
                         ELSE f[<<p[1], Midway(p)>>]]
    <3> HIDE DEF D
    <3> QED
      BY <2>1, <2>2
  <2> QED
    BY <2>3 DEF Bounds, Midway
<1>5. Recurs(search)
  <2> HIDE DEF Recurs
  <2> QED
    BY <1>4
<1>6. ASSUME NEW a \in from .. to, NEW b \in from .. to
      PROVE  LET m == (a + b) \div 2
             IN  search[<<a, b>>] = IF a >= b THEN a
                                    ELSE IF s[m] \in passed THEN search[<<m + 1, b>>] ELSE search[<<a, m>>]
  <2> HIDE DEF search
  <2> QED
    BY <1>5
<1> DEFINE passedFirst == \A i, j \in from .. (to - 1) : i < j /\ s[j] \in passed => s[i] \in passed
           Fine(a, b, r) == a <= b =>
                              /\ r \in a .. b
                              /\ passedFirst => \A i \in a .. (b - 1) : i < r <=> s[i] \in passed
           good == {p \in D : Fine(p[1], p[2], search[p])}
<1>7. ASSUME NEW a \in from .. to, NEW b \in from .. to
      PROVE  <<a, b>> \in good <=> Fine(a, b, search[<<a, b>>])
  <2>1. <<a, b>> \in D /\ <<a, b>>[1] = a /\ <<a, b>>[2] = b
    BY DEF Bounds
  <2> HIDE DEF search, Fine, D
  <2> QED
    BY <2>1
<1>8. ASSUME NEW a \in from .. to, NEW b \in from .. to,
             a < b => \A m \in a .. (b - 1) : <<m + 1, b>> \in good /\ <<a, m>> \in good
      PROVE  <<a, b>> \in good
  <2> DEFINE m == (a + b) \div 2
  <2>1. CASE a >= b
    <3>1. search[<<a, b>>] = a
      BY <1>6, <2>1
    <3> HIDE DEF search, good
    <3>2. Fine(a, b, search[<<a, b>>])
      BY <2>1, <3>1
    <3> QED
      BY <1>7, <3>2
  <2>2. CASE a < b
    <3>1. m \in a .. (b - 1) /\ m \in from .. to /\ m + 1 \in from .. to /\ a \in Int /\ b \in Int /\ m \in Int
      BY <2>2
    <3>2. search[<<a, b>>] = IF s[m] \in passed THEN search[<<m + 1, b>>] ELSE search[<<a, m>>]
      <4> HIDE DEF search
      <4> QED
        BY <1>6, <2>2
    <3> HIDE DEF search, good, m, Fine
    <3>3. Fine(m + 1, b, search[<<m + 1, b>>]) /\ Fine(a, m, search[<<a, m>>])
      BY <1>7, <1>8, <2>2, <3>1
    <3> HIDE DEF passedFirst
    <3>4. passedFirst => \A i \in a .. (b - 1) : (i <= m /\ s[m] \in passed => s[i] \in passed)
                                               /\ (i >= m /\ s[m] \notin passed => s[i] \notin passed)
      BY <3>1 DEF passedFirst
    <3>5. CASE s[m] \in passed
      BY <1>7, <2>2, <3>1, <3>2, <3>3, <3>4, <3>5 DEF Fine
    <3>6. CASE s[m] \notin passed
      BY <1>7, <2>2, <3>1, <3>2, <3>3, <3>4, <3>6 DEF Fine
    <3> QED
      BY <3>5, <3>6
  <2> HIDE DEF good
  <2> QED
    BY <2>1, <2>2
<1>9. \A p \in D : p \in good
  <2> HIDE DEF good
  <2> QED
    BY <1>8, InductOnBounds
<1>10. Fine(from, to, search[<<from, to>>])
  <2>1. <<from, to>> \in D /\ from \in from .. to /\ to \in from .. to
    BY DEF Bounds
  <2> HIDE DEF D, good, search, Fine
  <2> QED
    BY <1>7, <1>9, <2>1
<1> HIDE DEF search
<1> QED
  BY <1>1, <1>10

AddrsAscend(s, from, to) == \A i, j \in from .. (to - 1) : i < j => Le(s[i].addr, s[j].addr)

Searchable(s, from, to) ==
  from \in Nat /\ to \in Nat /\ from <= to /\ \A i \in from .. (to - 1) : s[i].addr \in Word

(* An address met is at an entry between the bounds; where the addresses   *)
(* do not descend, one that is there is met.                               *)
LEMMA AddressAtIs ==
  ASSUME NEW s, NEW from, NEW to, NEW target \in Word, Searchable(s, from, to)
  PROVE  /\ \A i \in AddressAt(s, from, to, target) : i \in from .. (to - 1) /\ s[i].addr = target
         /\ AddrsAscend(s, from, to)
              => \A k \in from .. (to - 1) :
                   s[k].addr = target => AddressAt(s, from, to, target) # {}
<1> USE DEF Searchable
<1> DEFINE D == Bounds(from, to)
           leaf == {p \in D : p[1] >= p[2] \/ s[Midway(p)].addr = target}
           base == [p \in D |-> IF p[1] >= p[2] THEN {} ELSE {Midway(p)}]
           up == {i \in from .. to : Lt(s[i].addr, target)}
           Recurs(f) == f = [p \in (from .. to) \X (from .. to) |->
                               IF p[1] >= p[2] THEN {}
                               ELSE IF s[(p[1] + p[2]) \div 2].addr = target THEN {(p[1] + p[2]) \div 2}
                               ELSE IF Lt(s[(p[1] + p[2]) \div 2].addr, target)
                                      THEN f[<<((p[1] + p[2]) \div 2) + 1, p[2]>>]
                                      ELSE f[<<p[1], (p[1] + p[2]) \div 2>>]]
           search == CHOOSE f : Recurs(f)
<1>1. AddressAt(s, from, to, target) = search[<<from, to>>]
  BY DEF AddressAt
<1>2. ASSUME NEW p \in D
      PROVE  p[1] \in from .. to /\ p[2] \in from .. to /\ p = <<p[1], p[2]>> /\ Midway(p) \in from .. to
  BY DEF Bounds, Midway
<1>3. PICK f \in [D -> SUBSET (from .. to)] : Bisects(f, D, leaf, base, up)
  <2>1. base \in [D -> SUBSET (from .. to)] /\ \A p \in D : p[1] >= p[2] => p \in leaf
    BY <1>2
  <2> HIDE DEF leaf, base, up
  <2> QED
    BY <2>1, BisectionExists
<1>4. Recurs(f)
  <2>1. ASSUME NEW p \in D
        PROVE  f[p] = IF p[1] >= p[2] THEN {}
                      ELSE IF s[Midway(p)].addr = target THEN {Midway(p)}
                      ELSE IF Lt(s[Midway(p)].addr, target) THEN f[<<Midway(p) + 1, p[2]>>]
                      ELSE f[<<p[1], Midway(p)>>]
    <3>1. f[p] = IF p \in leaf THEN base[p]
                 ELSE IF Midway(p) \in up THEN f[<<Midway(p) + 1, p[2]>>] ELSE f[<<p[1], Midway(p)>>]
      <4> HIDE DEF D, leaf, base, up
      <4> QED
        BY <1>3, Zenon DEF Bisects
    <3>2. /\ p \in leaf <=> p[1] >= p[2] \/ s[Midway(p)].addr = target
          /\ base[p] = IF p[1] >= p[2] THEN {} ELSE {Midway(p)}
          /\ Midway(p) \in up <=> Lt(s[Midway(p)].addr, target)
      BY <1>2
    <3> HIDE DEF D, leaf, base, up
    <3> QED
      BY <3>1, <3>2
  <2>2. f = [p \in D |-> f[p]]
    BY <1>3
  <2>3. f = [p \in D |-> IF p[1] >= p[2] THEN {}
                         ELSE IF s[Midway(p)].addr = target THEN {Midway(p)}
                         ELSE IF Lt(s[Midway(p)].addr, target) THEN f[<<Midway(p) + 1, p[2]>>]
                         ELSE f[<<p[1], Midway(p)>>]]
    <3> HIDE DEF D
    <3> QED
      BY <2>1, <2>2, Zenon
  <2> QED
    BY <2>3, Zenon DEF Bounds, Midway
<1>5. Recurs(search)
  <2> HIDE DEF Recurs
  <2> QED
    BY <1>4
<1>6. ASSUME NEW a \in from .. to, NEW b \in from .. to
      PROVE  LET m == (a + b) \div 2
             IN  search[<<a, b>>] = IF a >= b THEN {}
                                    ELSE IF s[m].addr = target THEN {m}
                                    ELSE IF Lt(s[m].addr, target) THEN search[<<m + 1, b>>]
                                    ELSE search[<<a, m>>]
  <2> HIDE DEF search
  <2> QED
    BY <1>5
<1> DEFINE ascend == AddrsAscend(s, from, to)
           Fine(a, b, r) ==
             /\ \A i \in r : i \in a .. (b - 1) /\ s[i].addr = target
             /\ ascend => \A k \in a .. (b - 1) : s[k].addr = target => r # {}
           good == {p \in D : Fine(p[1], p[2], search[p])}
<1>7. ASSUME NEW a \in from .. to, NEW b \in from .. to
      PROVE  <<a, b>> \in good <=> Fine(a, b, search[<<a, b>>])
  <2>1. <<a, b>> \in D /\ <<a, b>>[1] = a /\ <<a, b>>[2] = b
    BY DEF Bounds
  <2> HIDE DEF search, Fine, D
  <2> QED
    BY <2>1
<1>8. ASSUME NEW a \in from .. to, NEW b \in from .. to,
             a < b => \A m \in a .. (b - 1) : <<m + 1, b>> \in good /\ <<a, m>> \in good
      PROVE  <<a, b>> \in good
  <2> DEFINE m == (a + b) \div 2
  <2>1. CASE a >= b
    <3>1. search[<<a, b>>] = {}
      BY <1>6, <2>1
    <3> HIDE DEF search, good
    <3>2. Fine(a, b, search[<<a, b>>])
      BY <2>1, <3>1
    <3> QED
      BY <1>7, <3>2
  <2>2. CASE a < b
    <3>1. m \in a .. (b - 1) /\ m \in from .. to /\ m + 1 \in from .. to /\ m \in from .. (to - 1)
          /\ a \in Int /\ b \in Int /\ m \in Int
      BY <2>2
    <3>2. search[<<a, b>>] = IF s[m].addr = target THEN {m}
                             ELSE IF Lt(s[m].addr, target) THEN search[<<m + 1, b>>]
                             ELSE search[<<a, m>>]
      <4>1. ~(a >= b)
        BY <2>2
      <4> HIDE DEF search
      <4> QED
        BY <1>6, <4>1, Zenon
    <3> HIDE DEF search, good, m, Fine
    <3>3. Fine(m + 1, b, search[<<m + 1, b>>]) /\ Fine(a, m, search[<<a, m>>])
      BY <1>7, <1>8, <2>2, <3>1
    <3> HIDE DEF ascend
    <3>4. ASSUME ascend, NEW k \in a .. (b - 1), s[k].addr = target, s[m].addr # target
          PROVE  IF Lt(s[m].addr, target) THEN k \in (m + 1) .. (b - 1) ELSE k \in a .. (m - 1)
      <4>1. k \in from .. (to - 1) /\ k \in Int /\ k # m
        BY <3>1, <3>4
      <4>2. k < m => Le(target, s[m].addr)
        BY <3>1, <3>4, <4>1 DEF ascend, AddrsAscend
      <4>3. m < k => Le(s[m].addr, target)
        BY <3>1, <3>4, <4>1 DEF ascend, AddrsAscend
      <4>4. s[m].addr \in Word
        BY <3>1
      <4>5. Lt(s[m].addr, target) => ~(k < m)
        BY <3>4, <4>2, <4>4, LtAsymmetric DEF Le
      <4>6. ~Lt(s[m].addr, target) => ~(m < k)
        BY <3>4, <4>3 DEF Le
      <4> QED
        BY <3>1, <4>1, <4>5, <4>6
    <3>5. CASE s[m].addr = target
      BY <1>7, <3>1, <3>2, <3>5 DEF Fine
    <3>6. CASE s[m].addr # target /\ Lt(s[m].addr, target)
      <4> DEFINE r == search[<<m + 1, b>>]
      <4>1. search[<<a, b>>] = r /\ Fine(m + 1, b, r)
        BY <3>2, <3>3, <3>6
      <4> HIDE DEF r
      <4>2. \A i \in r : i \in a .. (b - 1) /\ s[i].addr = target
        BY <3>1, <4>1 DEF Fine
      <4>3. ASSUME ascend, NEW k \in a .. (b - 1), s[k].addr = target PROVE r # {}
        <5>1. k \in m + 1 .. (b - 1)
          BY <3>4, <3>6, <4>3
        <5> QED
          BY <4>1, <4>3, <5>1 DEF Fine
      <4>4. Fine(a, b, r)
        BY <4>2, <4>3 DEF Fine
      <4> QED
        BY <1>7, <4>1, <4>4
    <3>7. CASE s[m].addr # target /\ ~Lt(s[m].addr, target)
      <4> DEFINE r == search[<<a, m>>]
      <4>1. search[<<a, b>>] = r /\ Fine(a, m, r)
        BY <3>2, <3>3, <3>7
      <4> HIDE DEF r
      <4>2. \A i \in r : i \in a .. (b - 1) /\ s[i].addr = target
        BY <3>1, <4>1 DEF Fine
      <4>3. ASSUME ascend, NEW k \in a .. (b - 1), s[k].addr = target PROVE r # {}
        <5>1. k \in a .. (m - 1)
          BY <3>4, <3>7, <4>3
        <5> QED
          BY <4>1, <4>3, <5>1 DEF Fine
      <4>4. Fine(a, b, r)
        BY <4>2, <4>3 DEF Fine
      <4> QED
        BY <1>7, <4>1, <4>4
    <3> QED
      BY <3>5, <3>6, <3>7
  <2> HIDE DEF good
  <2> QED
    BY <2>1, <2>2
<1>9. \A p \in D : p \in good
  <2> HIDE DEF good
  <2> QED
    BY <1>8, InductOnBounds
<1>10. Fine(from, to, search[<<from, to>>])
  <2>1. <<from, to>> \in D /\ from \in from .. to /\ to \in from .. to
    BY DEF Bounds
  <2> HIDE DEF D, good, search, Fine
  <2> QED
    BY <1>7, <1>9, <2>1
<1> HIDE DEF search
<1> QED
  BY <1>1, <1>10

-----------------------------------------------------------------------------
(* Sequences and the addresses they name                                   *)

(* What a slice of a sequence holds.                                       *)
LEMMA SliceIs ==
  ASSUME NEW S, NEW s \in Seq(S), NEW a \in Int, NEW b \in Int, 1 <= a, a <= b + 1, b <= Len(s)
  PROVE  /\ SubSeq(s, a, b) \in Seq(S)
         /\ Len(SubSeq(s, a, b)) = b - a + 1
         /\ \A i \in 1 .. (b - a + 1) : SubSeq(s, a, b)[i] = s[a + i - 1]
<1>1. \A i \in a .. b : s[i] \in S
  BY ElementOfSeq, LenProperties
<1> QED
  BY <1>1, SubSeqProperties, LenProperties

(* A sequence is its first elements and the others.                        *)
LEMMA Cut ==
  ASSUME NEW S, NEW s \in Seq(S), NEW k \in 0 .. Len(s)
  PROVE  s = SubSeq(s, 1, k) \o SubSeq(s, k + 1, Len(s))
<1>1. Len(s) \in Nat
  BY LenProperties
<1>2. 1 \in 1 .. Len(s) + 1 /\ k \in 1 - 1 .. Len(s) /\ Len(s) \in k .. Len(s)
  BY <1>1
<1>3. SubSeq(s, 1, k) \o SubSeq(s, k + 1, Len(s)) = SubSeq(s, 1, Len(s))
  BY <1>2, ConcatAdjacentSubSeq
<1> QED
  BY <1>3, SubSeqFull

(* The addresses of a sequence of networks, one by one.                    *)
LEMMA UnionIs ==
  ASSUME NEW S, NEW s \in Seq(S)
  PROVE  \A x : x \in UnionOf(s) <=> \E i \in 1 .. Len(s) : x \in Addrs(s[i])
<1>1. DOMAIN s = 1 .. Len(s)
  BY LenProperties
<1> QED
  BY <1>1, Zenon DEF UnionOf

(* Joining two sequences joins their addresses.                            *)
LEMMA UnionOfBoth ==
  ASSUME NEW S, NEW s \in Seq(S), NEW t \in Seq(S)
  PROVE  UnionOf(s \o t) = UnionOf(s) \cup UnionOf(t)
<1>1. /\ s \o t \in Seq(S) /\ Len(s \o t) = Len(s) + Len(t)
      /\ \A i \in 1 .. (Len(s) + Len(t)) :
           (s \o t)[i] = IF i <= Len(s) THEN s[i] ELSE t[i - Len(s)]
  BY ConcatProperties
<1>2. Len(s) \in Nat /\ Len(t) \in Nat
  BY LenProperties
<1> DEFINE u == s \o t
<1> HIDE DEF u
<1>3. \A x : x \in UnionOf(u) <=> \E i \in 1 .. (Len(s) + Len(t)) : x \in Addrs(u[i])
  BY <1>1, UnionIs, Zenon DEF u
<1>4. \A i \in 1 .. Len(s) : i \in 1 .. (Len(s) + Len(t)) /\ u[i] = s[i]
  BY <1>1, <1>2 DEF u
<1>5. \A i \in 1 .. Len(t) : Len(s) + i \in 1 .. (Len(s) + Len(t)) /\ u[Len(s) + i] = t[i]
  <2> SUFFICES ASSUME NEW i \in 1 .. Len(t)
               PROVE  Len(s) + i \in 1 .. (Len(s) + Len(t)) /\ u[Len(s) + i] = t[i]
    OBVIOUS
  <2>1. Len(s) + i \in 1 .. (Len(s) + Len(t)) /\ ~(Len(s) + i <= Len(s)) /\ Len(s) + i - Len(s) = i
    BY <1>2
  <2> QED
    BY <1>1, <2>1 DEF u
<1>6. ASSUME NEW i \in 1 .. (Len(s) + Len(t))
      PROVE  \/ i \in 1 .. Len(s) /\ u[i] = s[i]
             \/ i - Len(s) \in 1 .. Len(t) /\ u[i] = t[i - Len(s)]
  BY <1>1, <1>2 DEF u
<1>7. \A x : x \in UnionOf(s) <=> \E i \in 1 .. Len(s) : x \in Addrs(s[i])
  BY UnionIs, Zenon
<1>8. \A x : x \in UnionOf(t) <=> \E i \in 1 .. Len(t) : x \in Addrs(t[i])
  BY UnionIs, Zenon
<1>9. ASSUME NEW x PROVE x \in UnionOf(u) <=> x \in UnionOf(s) \/ x \in UnionOf(t)
  <2>1. ASSUME x \in UnionOf(u) PROVE x \in UnionOf(s) \/ x \in UnionOf(t)
    <3>1. PICK i \in 1 .. (Len(s) + Len(t)) : x \in Addrs(u[i])
      BY <1>3, <2>1
    <3> QED
      BY <1>6, <1>7, <1>8, <3>1, Zenon
  <2>2. ASSUME x \in UnionOf(s) PROVE x \in UnionOf(u)
    <3>1. PICK i \in 1 .. Len(s) : x \in Addrs(s[i])
      BY <1>7, <2>2
    <3>2. i \in 1 .. (Len(s) + Len(t)) /\ u[i] = s[i]
      BY <1>4
    <3> QED
      BY <1>3, <3>1, <3>2, Zenon
  <2>3. ASSUME x \in UnionOf(t) PROVE x \in UnionOf(u)
    <3>1. PICK i \in 1 .. Len(t) : x \in Addrs(t[i])
      BY <1>8, <2>3
    <3>2. Len(s) + i \in 1 .. (Len(s) + Len(t)) /\ u[Len(s) + i] = t[i]
      BY <1>5
    <3> QED
      BY <1>3, <3>1, <3>2, Zenon
  <2> QED
    BY <2>1, <2>2, <2>3
<1> QED
  BY <1>9 DEF u

(* No networks have no addresses.                                          *)
LEMMA UnionOfNone == UnionOf(<<>>) = {}
BY DEF UnionOf

(* Appending a network adds its addresses.                                 *)
LEMMA UnionOfMore ==
  ASSUME NEW S, NEW s \in Seq(S), NEW n \in S
  PROVE  /\ Append(s, n) \in Seq(S) /\ Len(Append(s, n)) = Len(s) + 1
         /\ UnionOf(Append(s, n)) = UnionOf(s) \cup Addrs(n)
<1>1. /\ Append(s, n) \in Seq(S) /\ Len(Append(s, n)) = Len(s) + 1
      /\ Append(s, n) = s \o <<n>>
  BY AppendProperties, AppendIsConcat
<1>2. UnionOf(<<n>>) = Addrs(n)
  <2>1. <<n>> \in Seq(S) /\ Len(<<n>>) = 1 /\ <<n>>[1] = n
    OBVIOUS
  <2>2. \A x : x \in UnionOf(<<n>>) <=> \E i \in 1 .. 1 : x \in Addrs(<<n>>[i])
    BY <2>1, UnionIs
  <2>3. \A i \in 1 .. 1 : i = 1
    OBVIOUS
  <2>4. 1 \in 1 .. 1
    OBVIOUS
  <2>5. \A x : x \in UnionOf(<<n>>) <=> x \in Addrs(n)
    BY <2>1, <2>2, <2>3, <2>4, Zenon
  <2> QED
    BY <2>5, Zenon
<1>3. UnionOf(s \o <<n>>) = UnionOf(s) \cup UnionOf(<<n>>)
  <2>1. <<n>> \in Seq(S)
    OBVIOUS
  <2> QED
    BY <2>1, UnionOfBoth
<1> QED
  BY <1>1, <1>2, <1>3, Zenon

-----------------------------------------------------------------------------
(* The class, and what merges                                              *)

(* What lies in one high row.                                              *)
InRow(hm, ha) == {n \in BiContiguous : High(n.mask) = hm /\ High(n.addr) = ha}
(* The networks of the class with one high mask.                           *)
AtLevel(hm) == {n \in BiContiguous : High(n.mask) = hm}

(* A network of the class is normalized, and every one in its mask has a   *)
(* one above it, except at the top of a half.                              *)
LEMMA ClassFields ==
  ASSUME NEW n \in BiContiguous
  PROVE  /\ n \in Network /\ n.addr \in Word /\ n.mask \in Word /\ n.addr \subseteq n.mask
         /\ n = [addr |-> n.addr, mask |-> n.mask]
         /\ \A i \in n.mask : i + 1 \in n.mask \/ i = W - 1 \/ i = LowW - 1
<1>1. n \in Network /\ IsBicontiguous(n)
  BY DEF BiContiguous
<1> QED
  BY <1>1, NetworkFields DEF IsBicontiguous

(* A normalized address and such a mask are a network of the class.        *)
LEMMA ClassMake ==
  ASSUME NEW a \in Word, NEW m \in Word, a \subseteq m,
         \A i \in m : i + 1 \in m \/ i = W - 1 \/ i = LowW - 1
  PROVE  [addr |-> a, mask |-> m] \in BiContiguous
<1>1. [addr |-> a, mask |-> m] \in Network
  BY NetworkMake
<1> QED
  BY <1>1 DEF BiContiguous, IsBicontiguous

(* Within the class the lowest bit leaves the mask of the class in it, and *)
(* the address outside a row where two networks differ is in the low half. *)
LEMMA MergeStays ==
  ASSUME NEW a \in BiContiguous, NEW b \in BiContiguous, NEW c \in MergeByLowestMaskBit(a, b)
  PROVE  /\ c \in BiContiguous
         /\ Addrs(c) = Addrs(a) \cup Addrs(b)
         /\ \A hm, ha : a \in InRow(hm, ha) /\ b \in InRow(hm, ha) => c \in InRow(hm, ha)
<1>1. /\ a \in Network /\ b \in Network
      /\ a.mask \in Word /\ b.mask \in Word /\ a.addr \in Word /\ b.addr \in Word
      /\ a.addr \subseteq a.mask /\ b.addr \subseteq b.mask
      /\ \A i \in a.mask : i + 1 \in a.mask \/ i = W - 1 \/ i = LowW - 1
  BY ClassFields
<1>2. c \in Merge(a, b) /\ Addrs(c) = Addrs(a) \cup Addrs(b)
  <2>1. c \in Merge(a, b)
    BY <1>1, LowestMerge
  <2> QED
    BY <1>1, <2>1, MergeIsUnion
<1>3. \/ c = a
      \/ c = b
      \/ /\ IsAdjacentByLowestMaskBit(a, b)
         /\ c = [addr |-> a.addr \cap b.addr, mask |-> ClearLowestSetBit(a.mask)]
  BY DEF MergeByLowestMaskBit, Only
<1>4. CASE c = a \/ c = b
  BY <1>2, <1>4
<1>5. CASE /\ IsAdjacentByLowestMaskBit(a, b)
           /\ c = [addr |-> a.addr \cap b.addr, mask |-> ClearLowestSetBit(a.mask)]
  <2> DEFINE m == ClearLowestSetBit(a.mask)
             x == a.addr \cap b.addr
  <2>1. m = {i \in a.mask : \E j \in a.mask : j < i}
    BY <1>1, ClearLowestIsNotLowest
  <2>2. a.mask = b.mask /\ Xor(a.addr, b.addr) = {i \in a.mask : \A j \in a.mask : i <= j}
    BY <1>5 DEF IsAdjacentByLowestMaskBit, LowestSetBit
  <2>3. a.mask \subseteq Int /\ W \in Int /\ LowW \in Int
    BY <1>1, WAssumption, WidthAssumption DEF Word, Bits
  <2>4. m \in Word /\ x \in Word
    BY <1>1, <2>1 DEF Word
  <2>5. x \subseteq m
    <3> SUFFICES ASSUME NEW i \in a.addr, i \in b.addr PROVE i \in m
      OBVIOUS
    <3>1. i \in a.mask /\ i \notin Xor(a.addr, b.addr)
      BY <1>1 DEF Xor
    <3>2. PICK j \in a.mask : ~(i <= j)
      BY <2>2, <3>1
    <3>3. j < i
      BY <2>3, <3>1, <3>2
    <3> QED
      BY <2>1, <3>1, <3>3
  <2>6. \A i \in m : i + 1 \in m \/ i = W - 1 \/ i = LowW - 1
    <3> SUFFICES ASSUME NEW i \in m, i # W - 1, i # LowW - 1 PROVE i + 1 \in m
      OBVIOUS
    <3>1. i \in a.mask /\ \E j \in a.mask : j < i
      BY <2>1
    <3>2. i + 1 \in a.mask
      BY <1>1, <3>1
    <3>3. \E j \in a.mask : j < i + 1
      BY <2>3, <3>1
    <3> QED
      BY <2>1, <3>2, <3>3
  <2>7. c = [addr |-> x, mask |-> m]
    BY <1>5
  <2> HIDE DEF m, x
  <2>8. c \in BiContiguous
    BY <2>4, <2>5, <2>6, <2>7, ClassMake
  <2>9. ASSUME NEW hm, NEW ha, a \in InRow(hm, ha), b \in InRow(hm, ha) PROVE c \in InRow(hm, ha)
    <3>1. High(a.mask) = hm /\ High(a.addr) = ha /\ High(b.addr) = ha
      BY <2>9 DEF InRow
    <3>2. PICK i \in Xor(a.addr, b.addr) : TRUE
      BY <1>1, <1>5, LeastNatural, <2>2 DEF IsAdjacentByLowestMaskBit, Word, Bits
    <3>3. i \in a.mask /\ \A j \in a.mask : i <= j
      BY <2>2, <3>2
    <3>4. ~(i >= LowW)
      BY <3>1, <3>2 DEF High, Xor
    <3>5. High(m) = hm
      BY <2>3, <3>3, <3>4, <2>1, <3>1 DEF m, High
    <3>6. High(x) = ha
      BY <3>1 DEF High, x
    <3>7. c.mask = m /\ c.addr = x
      BY <2>7
    <3> QED
      BY <2>8, <3>5, <3>6, <3>7 DEF InRow
  <2> QED
    BY <1>2, <2>8, <2>9
<1> QED
  BY <1>3, <1>4, <1>5

-----------------------------------------------------------------------------
(* Low rows                                                                *)

(* What Place is asked: a stack and the network to put on it.              *)
Pushes == Seq(BiContiguous) \X BiContiguous

(* What the network merges with on the stack, if anything.                 *)
TopMerge(at) ==
  IF at[1] = <<>> THEN {} ELSE MergeByLowestMaskBit(at[1][Len(at[1])], at[2])
(* The question Place asks itself: the stack without its top, and the      *)
(* merge of the top with the network.                                      *)
Popped(at) == <<SubSeq(at[1], 1, Len(at[1]) - 1), CHOOSE c \in TopMerge(at) : TRUE>>

(* Popping keeps the addresses, in a set of networks closed under the      *)
(* merge.                                                                  *)
LEMMA PopIs ==
  ASSUME NEW Q, Q \subseteq BiContiguous, NEW s \in Seq(Q), NEW n \in Q, TopMerge(<<s, n>>) # {},
         \A a, b \in Q : MergeByLowestMaskBit(a, b) \subseteq Q
  PROVE  /\ s # <<>> /\ Len(s) \in Nat \ {0}
         /\ Popped(<<s, n>>)[1] \in Seq(Q) /\ Popped(<<s, n>>)[2] \in Q
         /\ Len(Popped(<<s, n>>)[1]) = Len(s) - 1
         /\ Popped(<<s, n>>) = <<Popped(<<s, n>>)[1], Popped(<<s, n>>)[2]>>
         /\ UnionOf(Popped(<<s, n>>)[1]) \cup Addrs(Popped(<<s, n>>)[2])
              = UnionOf(s) \cup Addrs(n)
<1> DEFINE top == s[Len(s)]
           c == CHOOSE x \in TopMerge(<<s, n>>) : TRUE
           front == SubSeq(s, 1, Len(s) - 1)
<1>1. s # <<>> /\ TopMerge(<<s, n>>) = MergeByLowestMaskBit(top, n)
  BY DEF TopMerge
<1>2. Len(s) \in Nat \ {0}
  BY <1>1, EmptySeq
<1>3. top \in Q
  BY <1>2, ElementOfSeq
<1>4. c \in MergeByLowestMaskBit(top, n)
  BY <1>1
<1>5. Popped(<<s, n>>) = <<front, c>>
  BY DEF Popped
<1> HIDE DEF c
<1>6. c \in Q /\ Addrs(c) = Addrs(top) \cup Addrs(n)
  <2>1. top \in BiContiguous /\ n \in BiContiguous
    BY <1>3
  <2> HIDE DEF top
  <2>2. c \in Q
    BY <1>3, <1>4
  <2>3. Addrs(c) = Addrs(top) \cup Addrs(n)
    BY <1>4, <2>1, MergeStays
  <2> QED
    BY <2>2, <2>3
<1>7. front \in Seq(Q) /\ Len(front) = Len(s) - 1
  <2>1. 1 \in Int /\ Len(s) - 1 \in Int /\ 1 <= (Len(s) - 1) + 1 /\ Len(s) - 1 <= Len(s)
        /\ (Len(s) - 1) - 1 + 1 = Len(s) - 1
    BY <1>2
  <2> QED
    BY <2>1, SliceIs
<1>8. UnionOf(s) = UnionOf(front) \cup Addrs(top)
  <2>1. s = front \o SubSeq(s, Len(s), Len(s))
    BY <1>2, Cut
  <2>2. /\ SubSeq(s, Len(s), Len(s)) \in Seq(Q) /\ Len(SubSeq(s, Len(s), Len(s))) = 1
        /\ SubSeq(s, Len(s), Len(s))[1] = top
    BY <1>2, SliceIs
  <2> DEFINE last == SubSeq(s, Len(s), Len(s))
  <2> HIDE DEF last, front, top
  <2>3. UnionOf(s) = UnionOf(front) \cup UnionOf(last)
    BY <1>7, <2>1, <2>2, UnionOfBoth DEF last
  <2>4. \A x : x \in UnionOf(last) <=> \E i \in 1 .. 1 : x \in Addrs(last[i])
    BY <2>2, UnionIs DEF last
  <2>5. \A i : i \in 1 .. 1 <=> i = 1
    OBVIOUS
  <2>6. \A x : x \in UnionOf(last) <=> x \in Addrs(top)
    BY <2>2, <2>4, <2>5, Zenon DEF last
  <2> QED
    BY <2>3, <2>6, Zenon
<1> HIDE DEF front, top
<1>9. Popped(<<s, n>>)[1] = front /\ Popped(<<s, n>>)[2] = c
  BY <1>5
<1>10. UnionOf(front) \cup Addrs(c) = UnionOf(s) \cup Addrs(n)
  BY <1>6, <1>8, Zenon
<1> QED
  BY <1>1, <1>2, <1>5, <1>6, <1>7, <1>9, <1>10, Zenon

(* The merge by the lowest mask bit stays in the class.                    *)
LEMMA ClassMerges ==
  \A a, b \in BiContiguous : MergeByLowestMaskBit(a, b) \subseteq BiContiguous
BY MergeStays

(* Place, one merge at a time: the stack gets shorter.                     *)
LEMMA PlaceUnfolds ==
  \A at \in Pushes :
    Place[at] = IF TopMerge(at) = {} THEN Append(at[1], at[2]) ELSE Place[Popped(at)]
<1> DEFINE leaf == {at \in Pushes : TopMerge(at) = {}}
           next == [at \in Pushes |-> Popped(at)]
           size == [at \in Pushes |-> Len(at[1])]
           R == Seq(BiContiguous)
           base == [at \in Pushes |-> Append(at[1], at[2])]
           h == [x \in Pushes \X R |-> x[2]]
           Recurs(f) == f = [at \in Pushes |->
                               IF TopMerge(at) = {} THEN Append(at[1], at[2]) ELSE f[Popped(at)]]
<1>1. \A at \in Pushes : at[1] \in Seq(BiContiguous) /\ at[2] \in BiContiguous /\ at = <<at[1], at[2]>>
  BY DEF Pushes
<1>2. ASSUME NEW at \in Pushes, at \notin leaf
      PROVE  /\ Popped(at) \in Pushes /\ next[at] \in Pushes /\ size[next[at]] < size[at]
             /\ next[at] = Popped(at)
  <2> DEFINE s == at[1]
             n == at[2]
  <2>1. s \in Seq(BiContiguous) /\ n \in BiContiguous /\ at = <<s, n>>
    BY <1>1
  <2>2. TopMerge(at) # {}
    BY <1>2
  <2> HIDE DEF s, n
  <2>3. TopMerge(<<s, n>>) # {}
    BY <2>1, <2>2
  <2>4. /\ Len(s) \in Nat \ {0}
        /\ Popped(<<s, n>>)[1] \in Seq(BiContiguous) /\ Popped(<<s, n>>)[2] \in BiContiguous
        /\ Len(Popped(<<s, n>>)[1]) = Len(s) - 1
        /\ Popped(<<s, n>>) = <<Popped(<<s, n>>)[1], Popped(<<s, n>>)[2]>>
    BY <2>1, <2>3, ClassMerges, PopIs
  <2>5. Popped(at) \in Pushes
    <3> DEFINE q == Popped(<<s, n>>)
    <3>1. Popped(at) = q
      BY <2>1
    <3>2. q[1] \in Seq(BiContiguous) /\ q[2] \in BiContiguous /\ q = <<q[1], q[2]>>
      BY <2>4
    <3> HIDE DEF q
    <3>3. q \in Pushes
      BY <3>2 DEF Pushes
    <3> QED
      BY <3>1, <3>3
  <2>6. size[Popped(at)] = Len(s) - 1
    BY <2>1, <2>4, <2>5
  <2>7. size[at] = Len(s)
    BY DEF s
  <2>8. Len(s) - 1 < Len(s)
    BY <2>4
  <2>9. next[at] = Popped(at)
    OBVIOUS
  <2> HIDE DEF next, size
  <2> QED
    BY <2>5, <2>6, <2>7, <2>8, <2>9
<1>3. /\ size \in [Pushes -> Nat] /\ base \in [Pushes -> R] /\ h \in [Pushes \X R -> R]
      /\ \A at \in Pushes : \A r \in R : h[<<at, r>>] = r
  <2>1. size \in [Pushes -> Nat]
    BY <1>1, LenProperties
  <2>2. base \in [Pushes -> R]
    BY <1>1, AppendProperties
  <2> QED
    BY <2>1, <2>2
<1>4. PICK f \in [Pushes -> R] : AsksSmaller(Pushes, leaf, base, next, h, f)
  <2>1. \A at \in Pushes \ leaf : next[at] \in Pushes /\ size[next[at]] < size[at]
    BY <1>2
  <2> HIDE DEF leaf, base, next, h, size, R
  <2> QED
    BY <1>3, <2>1, RecursionExists
<1>5. ASSUME NEW at \in Pushes
      PROVE  f[at] = IF TopMerge(at) = {} THEN Append(at[1], at[2]) ELSE f[Popped(at)]
  <2>1. f[at] = IF at \in leaf THEN base[at] ELSE h[<<at, f[next[at]]>>]
    <3> HIDE DEF leaf, base, next, h, size
    <3> QED
      BY <1>4, Zenon DEF AsksSmaller
  <2>2. CASE at \in leaf
    BY <2>1, <2>2
  <2>3. CASE at \notin leaf
    <3>1. next[at] = Popped(at) /\ Popped(at) \in Pushes /\ f[Popped(at)] \in R
      BY <1>2, <2>3
    <3>2. TopMerge(at) # {}
      BY <2>3
    <3> HIDE DEF leaf, base, next, h, size, R
    <3> QED
      BY <1>3, <2>1, <2>3, <3>1, <3>2
  <2> QED
    BY <2>2, <2>3
<1>6. Recurs(f)
  <2>1. f = [at \in Pushes |-> f[at]]
    BY <1>4
  <2> QED
    BY <1>5, <2>1
<1>7. Place = CHOOSE g : Recurs(g)
  BY Zenon DEF Place, Pushes, TopMerge, Popped
<1>8. Recurs(Place)
  <2> HIDE DEF Recurs
  <2> QED
    BY <1>6, <1>7
<1> QED
  BY <1>8

(* A set of networks that holds whatever its members merge to.             *)
Merging(Q) ==
  /\ Q \subseteq BiContiguous
  /\ \A a, b \in Q : MergeByLowestMaskBit(a, b) \subseteq Q

(* Networks of one row merge into networks of that row.                    *)
LEMMA RowsMerge == \A hm, ha : Merging(InRow(hm, ha))
<1> SUFFICES ASSUME NEW hm, NEW ha PROVE Merging(InRow(hm, ha))
  OBVIOUS
<1>1. InRow(hm, ha) \subseteq BiContiguous
  BY DEF InRow
<1>2. ASSUME NEW a \in InRow(hm, ha), NEW b \in InRow(hm, ha), NEW c \in MergeByLowestMaskBit(a, b)
      PROVE  c \in InRow(hm, ha)
  <2>1. a \in BiContiguous /\ b \in BiContiguous
    BY <1>1
  <2> QED
    BY <1>2, <2>1, MergeStays, Zenon
<1> QED
  BY <1>1, <1>2 DEF Merging

(* Whatever the cascade merges, the stack names one network more.          *)
LEMMA PlaceIs ==
  ASSUME NEW Q, Merging(Q), NEW s \in Seq(Q), NEW n \in Q
  PROVE  /\ Place[<<s, n>>] \in Seq(Q)
         /\ Len(Place[<<s, n>>]) \in 1 .. (Len(s) + 1)
         /\ UnionOf(Place[<<s, n>>]) = UnionOf(s) \cup Addrs(n)
<1> DEFINE D == Seq(Q) \X Q
           size == [at \in D |-> Len(at[1])]
           good == {at \in D : /\ Place[at] \in Seq(Q)
                               /\ Len(Place[at]) \in 1 .. (Len(at[1]) + 1)
                               /\ UnionOf(Place[at]) = UnionOf(at[1]) \cup Addrs(at[2])}
<1>0. Q \subseteq BiContiguous /\ \A a, b \in Q : MergeByLowestMaskBit(a, b) \subseteq Q
  BY DEF Merging
<1>1. ASSUME NEW at \in D PROVE at[1] \in Seq(Q) /\ at[2] \in Q /\ at = <<at[1], at[2]>>
  OBVIOUS
<1>2. size \in [D -> Nat]
  BY <1>1, LenProperties
<1>3. ASSUME NEW at \in D, \A e \in D : size[e] < size[at] => e \in good PROVE at \in good
  <2> DEFINE st == at[1]
             m == at[2]
  <2>1. st \in Seq(Q) /\ m \in Q /\ at = <<st, m>>
    BY <1>1
  <2>2. at \in Pushes
    <3>1. st \in Seq(BiContiguous) /\ m \in BiContiguous
      BY <1>0, <2>1, SeqMonotonic
    <3> HIDE DEF st, m
    <3> QED
      BY <2>1, <3>1 DEF Pushes
  <2>3. Place[at] = IF TopMerge(at) = {} THEN Append(st, m) ELSE Place[Popped(at)]
    BY <2>2, PlaceUnfolds
  <2>4. Len(st) \in Nat
    BY <2>1, LenProperties
  <2>5. CASE TopMerge(at) = {}
    <3>1. /\ Append(st, m) \in Seq(Q) /\ Len(Append(st, m)) = Len(st) + 1
          /\ UnionOf(Append(st, m)) = UnionOf(st) \cup Addrs(m)
      BY <2>1, UnionOfMore
    <3>2. Place[at] = Append(st, m)
      BY <2>3, <2>5
    <3>3. Len(Place[at]) \in 1 .. (Len(st) + 1)
      BY <2>4, <3>1, <3>2
    <3>4. UnionOf(Place[at]) = UnionOf(st) \cup Addrs(m)
      BY <3>1, <3>2, Zenon
    <3>5. Place[at] \in Seq(Q)
      BY <3>1, <3>2, Zenon
    <3> QED
      BY <3>3, <3>4, <3>5
  <2>6. CASE TopMerge(at) # {}
    <3> DEFINE q == Popped(at)
    <3>1. /\ Len(st) \in Nat \ {0}
          /\ q[1] \in Seq(Q) /\ q[2] \in Q
          /\ Len(q[1]) = Len(st) - 1
          /\ q = <<q[1], q[2]>>
          /\ UnionOf(q[1]) \cup Addrs(q[2]) = UnionOf(st) \cup Addrs(m)
      <4>1. TopMerge(<<st, m>>) # {}
        BY <2>1, <2>6
      <4> HIDE DEF st, m
      <4>2. /\ Len(st) \in Nat \ {0}
            /\ Popped(<<st, m>>)[1] \in Seq(Q) /\ Popped(<<st, m>>)[2] \in Q
            /\ Len(Popped(<<st, m>>)[1]) = Len(st) - 1
            /\ Popped(<<st, m>>) = <<Popped(<<st, m>>)[1], Popped(<<st, m>>)[2]>>
            /\ UnionOf(Popped(<<st, m>>)[1]) \cup Addrs(Popped(<<st, m>>)[2])
                  = UnionOf(st) \cup Addrs(m)
        BY <1>0, <2>1, <4>1, PopIs
      <4>3. q = Popped(<<st, m>>)
        BY <2>1
      <4> HIDE DEF q
      <4> QED
        BY <4>2, <4>3, Zenon
    <3> HIDE DEF q
    <3>2. q \in D
      BY <3>1
    <3>3. size[q] < size[at]
      <4>1. size[q] = Len(st) - 1 /\ size[at] = Len(st)
        BY <3>1, <3>2
      <4> QED
        BY <3>1, <4>1
    <3>4. q \in good
      <4> HIDE DEF D, size, good
      <4> QED
        BY <1>3, <3>2, <3>3
    <3>5. /\ Place[q] \in Seq(Q) /\ Len(Place[q]) \in 1 .. (Len(q[1]) + 1)
          /\ UnionOf(Place[q]) = UnionOf(q[1]) \cup Addrs(q[2])
      BY <3>4
    <3>6. Place[at] = Place[q]
      BY <2>3, <2>6 DEF q
    <3>7. Len(Place[at]) \in 1 .. (Len(st) + 1)
      BY <2>4, <3>1, <3>5, <3>6
    <3>8. UnionOf(Place[at]) = UnionOf(st) \cup Addrs(m)
      BY <3>1, <3>5, <3>6, Zenon
    <3>9. Place[at] \in Seq(Q)
      BY <3>5, <3>6, Zenon
    <3> QED
      BY <3>7, <3>8, <3>9
  <2> QED
    BY <2>5, <2>6
<1>4. \A at \in D : at \in good
  <2> HIDE DEF D, size, good
  <2> QED
    BY <1>2, <1>3, InductOnSize
<1>5. <<s, n>> \in D
  OBVIOUS
<1>6. <<s, n>> \in good
  <2> HIDE DEF D, good
  <2> QED
    BY <1>4, <1>5
<1> QED
  BY <1>6

(* A sequence but for its last entry.                                      *)
LEMMA FrontIs ==
  ASSUME NEW S, NEW s \in Seq(S), s # <<>>
  PROVE  /\ Len(s) \in Nat \ {0}
         /\ SubSeq(s, 1, Len(s) - 1) \in Seq(S) /\ Len(SubSeq(s, 1, Len(s) - 1)) = Len(s) - 1
         /\ s[Len(s)] \in S
         /\ UnionOf(s) = UnionOf(SubSeq(s, 1, Len(s) - 1)) \cup Addrs(s[Len(s)])
<1> DEFINE front == SubSeq(s, 1, Len(s) - 1)
           n == s[Len(s)]
<1>1. Len(s) \in Nat \ {0}
  BY EmptySeq
<1>2. front \in Seq(S) /\ Len(front) = Len(s) - 1 /\ \A i \in 1 .. (Len(s) - 1) : front[i] = s[i]
  <2>1. 1 \in Int /\ Len(s) - 1 \in Int /\ 1 <= (Len(s) - 1) + 1 /\ Len(s) - 1 <= Len(s)
        /\ (Len(s) - 1) - 1 + 1 = Len(s) - 1
    BY <1>1
  <2>2. /\ front \in Seq(S) /\ Len(front) = (Len(s) - 1) - 1 + 1
        /\ \A i \in 1 .. ((Len(s) - 1) - 1 + 1) : front[i] = s[1 + i - 1]
    BY <2>1, SliceIs
  <2>3. \A i \in 1 .. (Len(s) - 1) : 1 + i - 1 = i
    OBVIOUS
  <2> QED
    BY <2>1, <2>2, <2>3
<1>3. n \in S
  BY <1>1, ElementOfSeq
<1>4. s = Append(front, n)
  <2>1. /\ Append(front, n) \in Seq(S) /\ Len(Append(front, n)) = Len(s)
        /\ \A i \in 1 .. Len(front) : Append(front, n)[i] = front[i]
        /\ Append(front, n)[Len(front) + 1] = n
    BY <1>1, <1>2, <1>3, AppendProperties
  <2>2. \A i \in 1 .. Len(s) : s[i] = Append(front, n)[i]
    <3> SUFFICES ASSUME NEW i \in 1 .. Len(s) PROVE s[i] = Append(front, n)[i]
      OBVIOUS
    <3>1. i \in 1 .. (Len(s) - 1) \/ i = Len(s)
      BY <1>1
    <3>2. CASE i = Len(s)
      <4>1. Len(front) + 1 = i
        BY <1>1, <1>2, <3>2
      <4> QED
        BY <2>1, <3>2, <4>1
    <3> HIDE DEF front
    <3> QED
      BY <1>2, <2>1, <3>1, <3>2
  <2> HIDE DEF front, n
  <2> QED
    BY <2>1, <2>2, SeqEqual
<1>5. UnionOf(Append(front, n)) = UnionOf(front) \cup Addrs(n)
  <2> HIDE DEF front, n
  <2> QED
    BY <1>2, <1>3, UnionOfMore
<1> QED
  BY <1>1, <1>2, <1>3, <1>4, <1>5, Zenon

(* CanonicalRow, one network at a time: the row gets shorter.              *)
LEMMA CanonicalRowUnfolds ==
  \A row \in Seq(BiContiguous) :
    CanonicalRow[row] =
      IF row = <<>> THEN <<>>
      ELSE Place[<<CanonicalRow[SubSeq(row, 1, Len(row) - 1)], row[Len(row)]>>]
<1> DEFINE D == Seq(BiContiguous)
           leaf == {<<>>}
           next == [row \in D |-> SubSeq(row, 1, Len(row) - 1)]
           size == [row \in D |-> Len(row)]
           base == [row \in D |-> <<>>]
           h == [x \in D \X D |-> IF x[1] = <<>> THEN <<>> ELSE Place[<<x[2], x[1][Len(x[1])]>>]]
           Recurs(f) == f = [row \in Seq(BiContiguous) |->
                               IF row = <<>> THEN <<>>
                               ELSE Place[<<f[SubSeq(row, 1, Len(row) - 1)], row[Len(row)]>>]]
<1>1. ASSUME NEW row \in D, row # <<>>
      PROVE  next[row] \in D /\ size[next[row]] < size[row] /\ row[Len(row)] \in BiContiguous
  BY <1>1, FrontIs
<1>2. Merging(BiContiguous)
  BY ClassMerges DEF Merging
<1>3. \A t \in D : \A n \in BiContiguous : Place[<<t, n>>] \in D
  BY <1>2, PlaceIs
<1>4. size \in [D -> Nat]
  BY LenProperties
<1>5. base \in [D -> D]
  BY EmptySeq
<1>6. h \in [D \X D -> D]
  <2> SUFFICES ASSUME NEW x \in D \X D
               PROVE  (IF x[1] = <<>> THEN <<>> ELSE Place[<<x[2], x[1][Len(x[1])]>>]) \in D
    OBVIOUS
  <2>1. x[1] \in D /\ x[2] \in D
    OBVIOUS
  <2>2. CASE x[1] = <<>>
    BY <2>2, EmptySeq
  <2>3. CASE x[1] # <<>>
    <3>1. x[1][Len(x[1])] \in BiContiguous
      BY <1>1, <2>1, <2>3
    <3> HIDE DEF D
    <3> QED
      BY <1>3, <2>1, <2>3, <3>1
  <2> QED
    BY <2>2, <2>3
<1>7. PICK f \in [D -> D] : AsksSmaller(D, leaf, base, next, h, f)
  <2>1. \A row \in D \ leaf : next[row] \in D /\ size[next[row]] < size[row]
    BY <1>1
  <2> HIDE DEF D, leaf, base, next, h, size
  <2> QED
    BY <1>4, <1>5, <1>6, <2>1, RecursionExists
<1>8. ASSUME NEW row \in D
      PROVE  f[row] = IF row = <<>> THEN <<>>
                      ELSE Place[<<f[SubSeq(row, 1, Len(row) - 1)], row[Len(row)]>>]
  <2>1. f[row] = IF row \in leaf THEN base[row] ELSE h[<<row, f[next[row]]>>]
    <3> HIDE DEF D, leaf, base, next, h, size
    <3> QED
      BY <1>7, Zenon DEF AsksSmaller
  <2>2. CASE row = <<>>
    BY <2>1, <2>2
  <2>3. CASE row # <<>>
    <3>1. next[row] \in D /\ f[next[row]] \in D
      BY <1>1, <2>3
    <3>2. \A r \in D : h[<<row, r>>] = Place[<<r, row[Len(row)]>>]
      <4> SUFFICES ASSUME NEW r \in D PROVE h[<<row, r>>] = Place[<<r, row[Len(row)]>>]
        OBVIOUS
      <4>1. <<row, r>> \in D \X D
        OBVIOUS
      <4> QED
        BY <2>3, <4>1
    <3>3. row \notin leaf
      BY <2>3
    <3>4. f[row] = h[<<row, f[next[row]]>>]
      BY <2>1, <3>3
    <3>5. f[row] = Place[<<f[next[row]], row[Len(row)]>>]
      <4> HIDE DEF D, next, h
      <4> QED
        BY <3>1, <3>2, <3>4
    <3>6. next[row] = SubSeq(row, 1, Len(row) - 1)
      OBVIOUS
    <3> HIDE DEF next
    <3> QED
      BY <2>3, <3>5, <3>6, Zenon
  <2> QED
    BY <2>2, <2>3
<1>9. Recurs(f)
  <2>1. f = [row \in D |-> f[row]]
    BY <1>7
  <2> QED
    BY <1>8, <2>1
<1>10. CanonicalRow = CHOOSE g : Recurs(g)
  BY Zenon DEF CanonicalRow
<1>11. Recurs(CanonicalRow)
  <2> HIDE DEF Recurs
  <2> QED
    BY <1>9, <1>10
<1> QED
  BY <1>11

(* A row keeps its addresses and its high parts.                           *)
LEMMA CanonicalRowIs ==
  ASSUME NEW Q, Merging(Q)
  PROVE  \A row \in Seq(Q) :
           /\ CanonicalRow[row] \in Seq(Q)
           /\ Len(CanonicalRow[row]) <= Len(row)
           /\ UnionOf(CanonicalRow[row]) = UnionOf(row)
<1> DEFINE D == Seq(Q)
           size == [row \in D |-> Len(row)]
           good == {row \in D : /\ CanonicalRow[row] \in Seq(Q)
                                /\ Len(CanonicalRow[row]) <= Len(row)
                                /\ UnionOf(CanonicalRow[row]) = UnionOf(row)}
<1>1. Q \subseteq BiContiguous
  BY DEF Merging
<1>2. size \in [D -> Nat]
  BY LenProperties
<1>3. ASSUME NEW row \in D, \A e \in D : size[e] < size[row] => e \in good PROVE row \in good
  <2>1. row \in Seq(BiContiguous)
    BY <1>1, SeqMonotonic
  <2>2. CASE row = <<>>
    <3>1. CanonicalRow[row] = row
      BY <2>1, <2>2, CanonicalRowUnfolds
    <3>2. Len(row) <= Len(row)
      BY LenProperties
    <3> QED
      BY <3>1, <3>2, Zenon
  <2>3. CASE row # <<>>
    <3> DEFINE front == SubSeq(row, 1, Len(row) - 1)
               n == row[Len(row)]
    <3>1. /\ Len(row) \in Nat \ {0} /\ n \in Q
          /\ front \in Seq(Q) /\ Len(front) = Len(row) - 1
          /\ UnionOf(row) = UnionOf(front) \cup Addrs(n)
      BY <2>3, FrontIs
    <3>2. CanonicalRow[row] = Place[<<CanonicalRow[front], n>>]
      BY <2>1, <2>3, CanonicalRowUnfolds
    <3> HIDE DEF front, n
    <3>3. front \in good
      <4>1. size[front] < size[row]
        BY <3>1
      <4> HIDE DEF good, size
      <4> QED
        BY <1>3, <3>1, <4>1
    <3> DEFINE c == CanonicalRow[front]
    <3>4. c \in Seq(Q) /\ Len(c) <= Len(front) /\ UnionOf(c) = UnionOf(front)
      BY <3>3
    <3> HIDE DEF c
    <3>5. /\ Place[<<c, n>>] \in Seq(Q)
          /\ Len(Place[<<c, n>>]) \in 1 .. (Len(c) + 1)
          /\ UnionOf(Place[<<c, n>>]) = UnionOf(c) \cup Addrs(n)
      BY <3>1, <3>4, PlaceIs
    <3>6. CanonicalRow[row] = Place[<<c, n>>]
      BY <3>2 DEF c
    <3>7. Len(c) \in Nat
      BY <3>4, LenProperties
    <3>8. Len(CanonicalRow[row]) <= Len(row)
      BY <3>1, <3>4, <3>5, <3>6, <3>7
    <3>9. UnionOf(CanonicalRow[row]) = UnionOf(row)
      BY <3>1, <3>4, <3>5, <3>6, Zenon
    <3>10. CanonicalRow[row] \in Seq(Q)
      BY <3>5, <3>6, Zenon
    <3> QED
      BY <3>8, <3>9, <3>10
  <2> QED
    BY <2>2, <2>3
<1>4. \A row \in D : row \in good
  <2> HIDE DEF D, size, good
  <2> QED
    BY <1>2, <1>3, InductOnSize
<1> QED
  BY <1>4

(* The first row is the longest prefix with one high address.              *)
LEMMA FirstRowIs ==
  ASSUME NEW S, NEW s \in Seq(S), s # <<>>
  PROVE  /\ FirstRow(s) \in 1 .. Len(s) /\ Len(s) \in Nat
         /\ \A i \in 1 .. FirstRow(s) : High(s[i].addr) = High(s[1].addr)
         /\ FirstRow(s) < Len(s) => High(s[FirstRow(s) + 1].addr) # High(s[1].addr)
<1> DEFINE n == Len(s)
           Alike(i) == High(s[i].addr) = High(s[1].addr)
           T == {l \in 1 .. n : \A i \in 1 .. l : Alike(i)}
<1>1. n \in Nat \ {0}
  BY EmptySeq
<1> HIDE DEF n
<1>2. T # {} /\ T \subseteq 0 .. n /\ n \in Nat
  <2>1. 1 \in T
    <3>1. 1 \in 1 .. n /\ \A i \in 1 .. 1 : i = 1
      BY <1>1
    <3> QED
      BY <3>1
  <2> QED
    BY <1>1, <2>1
<1>3. PICK l \in T : \A k \in T : k <= l
  <2> HIDE DEF T
  <2> QED
    BY <1>2, GreatestNatural
<1>4. l \in 1 .. n /\ \A i \in 1 .. l : Alike(i)
  OBVIOUS
<1>5. ASSUME l < n PROVE ~Alike(l + 1)
  <2> SUFFICES ASSUME Alike(l + 1) PROVE FALSE
    OBVIOUS
  <2>1. l + 1 \in 1 .. n /\ ~(l + 1 <= l) /\ \A i \in 1 .. (l + 1) : i \in 1 .. l \/ i = l + 1
    BY <1>1, <1>4, <1>5
  <2>2. \A i \in 1 .. (l + 1) : Alike(i)
    <3> HIDE DEF Alike
    <3> QED
      BY <1>4, <2>1, Zenon
  <2>3. l + 1 \in T
    <3> HIDE DEF Alike
    <3> QED
      BY <2>1, <2>2
  <2> HIDE DEF T
  <2> QED
    BY <1>3, <2>1, <2>3
<1> DEFINE Right(k) == /\ k \in 1 .. n
                       /\ \A i \in 1 .. k : Alike(i)
                       /\ k < n => ~Alike(k + 1)
<1>6. Right(l)
  BY <1>4, <1>5
<1>7. FirstRow(s) = CHOOSE k \in 1 .. n : (\A i \in 1 .. k : Alike(i)) /\ (k < n => ~Alike(k + 1))
  BY DEF FirstRow, n
<1> HIDE DEF Alike
<1>8. Right(FirstRow(s))
  BY <1>6, <1>7
<1> QED
  BY <1>1, <1>8 DEF n, Alike

(* The first row and what follows it.                                      *)
LEMMA RowAndRest ==
  ASSUME NEW S, NEW s \in Seq(S), NEW k \in 0 .. Len(s)
  PROVE  /\ SubSeq(s, 1, k) \in Seq(S) /\ Len(SubSeq(s, 1, k)) = k
         /\ \A i \in 1 .. k : SubSeq(s, 1, k)[i] = s[i]
         /\ SubSeq(s, k + 1, Len(s)) \in Seq(S) /\ Len(SubSeq(s, k + 1, Len(s))) = Len(s) - k
         /\ \A i \in 1 .. (Len(s) - k) : SubSeq(s, k + 1, Len(s))[i] = s[k + i]
         /\ UnionOf(s) = UnionOf(SubSeq(s, 1, k)) \cup UnionOf(SubSeq(s, k + 1, Len(s)))
<1> DEFINE a == SubSeq(s, 1, k)
           b == SubSeq(s, k + 1, Len(s))
<1>1. Len(s) \in Nat
  BY LenProperties
<1>2. a \in Seq(S) /\ Len(a) = k /\ \A i \in 1 .. k : a[i] = s[i]
  <2>1. 1 \in Int /\ k \in Int /\ 1 <= k + 1 /\ k <= Len(s) /\ k - 1 + 1 = k
        /\ \A i \in 1 .. k : 1 + i - 1 = i
    BY <1>1
  <2>2. a \in Seq(S) /\ Len(a) = k - 1 + 1 /\ \A i \in 1 .. (k - 1 + 1) : a[i] = s[1 + i - 1]
    BY <2>1, SliceIs
  <2> HIDE DEF a
  <2> QED
    BY <2>1, <2>2
<1>3. b \in Seq(S) /\ Len(b) = Len(s) - k /\ \A i \in 1 .. (Len(s) - k) : b[i] = s[k + i]
  <2>1. k + 1 \in Int /\ Len(s) \in Int /\ 1 <= k + 1 /\ k + 1 <= Len(s) + 1 /\ Len(s) <= Len(s)
        /\ Len(s) - (k + 1) + 1 = Len(s) - k /\ \A i \in 1 .. (Len(s) - k) : k + 1 + i - 1 = k + i
    BY <1>1
  <2>2. /\ b \in Seq(S) /\ Len(b) = Len(s) - (k + 1) + 1
        /\ \A i \in 1 .. (Len(s) - (k + 1) + 1) : b[i] = s[k + 1 + i - 1]
    BY <2>1, SliceIs
  <2> HIDE DEF b
  <2> QED
    BY <2>1, <2>2
<1>4. s = a \o b
  BY Cut
<1> HIDE DEF a, b
<1>5. UnionOf(s) = UnionOf(a) \cup UnionOf(b)
  BY <1>2, <1>3, <1>4, UnionOfBoth
<1> QED
  BY <1>2, <1>3, <1>5 DEF a, b

(* AggregateLowRows, one row at a time: what is left gets shorter.         *)
LEMMA LowRowsUnfolds ==
  \A s \in Seq(BiContiguous) :
    AggregateLowRows[s] =
      IF s = <<>> THEN <<>>
      ELSE CanonicalRow[SubSeq(s, 1, FirstRow(s))]
             \o AggregateLowRows[SubSeq(s, FirstRow(s) + 1, Len(s))]
<1> DEFINE D == Seq(BiContiguous)
           leaf == {<<>>}
           next == [s \in D |-> SubSeq(s, FirstRow(s) + 1, Len(s))]
           size == [s \in D |-> Len(s)]
           base == [s \in D |-> <<>>]
           h == [x \in D \X D |->
                   IF x[1] = <<>> THEN <<>> ELSE CanonicalRow[SubSeq(x[1], 1, FirstRow(x[1]))] \o x[2]]
           Recurs(f) == f = [s \in Seq(BiContiguous) |->
                               IF s = <<>> THEN <<>>
                               ELSE CanonicalRow[SubSeq(s, 1, FirstRow(s))]
                                      \o f[SubSeq(s, FirstRow(s) + 1, Len(s))]]
<1>1. ASSUME NEW s \in D, s # <<>>
      PROVE  /\ next[s] \in D /\ size[next[s]] < size[s]
             /\ CanonicalRow[SubSeq(s, 1, FirstRow(s))] \in D
  <2>1. FirstRow(s) \in 1 .. Len(s) /\ Len(s) \in Nat
    BY <1>1, FirstRowIs
  <2>2. FirstRow(s) \in 0 .. Len(s)
    BY <2>1
  <2>3. /\ SubSeq(s, 1, FirstRow(s)) \in D
        /\ SubSeq(s, FirstRow(s) + 1, Len(s)) \in D
        /\ Len(SubSeq(s, FirstRow(s) + 1, Len(s))) = Len(s) - FirstRow(s)
    BY <2>2, RowAndRest
  <2>4. size[next[s]] = Len(s) - FirstRow(s) /\ size[s] = Len(s)
    BY <2>3
  <2>5. CanonicalRow[SubSeq(s, 1, FirstRow(s))] \in D
    <3>1. Merging(BiContiguous)
      BY ClassMerges DEF Merging
    <3> QED
      BY <2>3, <3>1, CanonicalRowIs
  <2> QED
    BY <2>1, <2>3, <2>4, <2>5
<1>2. size \in [D -> Nat]
  BY LenProperties
<1>3. base \in [D -> D]
  BY EmptySeq
<1>4. h \in [D \X D -> D]
  <2> SUFFICES ASSUME NEW x \in D \X D
               PROVE  (IF x[1] = <<>> THEN <<>>
                       ELSE CanonicalRow[SubSeq(x[1], 1, FirstRow(x[1]))] \o x[2]) \in D
    OBVIOUS
  <2>1. x[1] \in D /\ x[2] \in D
    OBVIOUS
  <2>2. CASE x[1] = <<>>
    BY <2>2, EmptySeq
  <2>3. CASE x[1] # <<>>
    BY <1>1, <2>1, <2>3, ConcatProperties
  <2> QED
    BY <2>2, <2>3
<1>5. PICK f \in [D -> D] : AsksSmaller(D, leaf, base, next, h, f)
  <2>1. \A s \in D \ leaf : next[s] \in D /\ size[next[s]] < size[s]
    BY <1>1
  <2> HIDE DEF D, leaf, base, next, h, size
  <2> QED
    BY <1>2, <1>3, <1>4, <2>1, RecursionExists
<1>6. ASSUME NEW s \in D
      PROVE  f[s] = IF s = <<>> THEN <<>>
                    ELSE CanonicalRow[SubSeq(s, 1, FirstRow(s))] \o f[SubSeq(s, FirstRow(s) + 1, Len(s))]
  <2>1. f[s] = IF s \in leaf THEN base[s] ELSE h[<<s, f[next[s]]>>]
    <3> HIDE DEF D, leaf, base, next, h, size
    <3> QED
      BY <1>5, Zenon DEF AsksSmaller
  <2>2. CASE s = <<>>
    BY <2>1, <2>2
  <2>3. CASE s # <<>>
    <3>1. next[s] \in D /\ f[next[s]] \in D
      BY <1>1, <2>3
    <3>2. \A r \in D : h[<<s, r>>] = CanonicalRow[SubSeq(s, 1, FirstRow(s))] \o r
      <4> SUFFICES ASSUME NEW r \in D PROVE h[<<s, r>>] = CanonicalRow[SubSeq(s, 1, FirstRow(s))] \o r
        OBVIOUS
      <4>1. <<s, r>> \in D \X D
        OBVIOUS
      <4> QED
        BY <2>3, <4>1
    <3>3. s \notin leaf
      BY <2>3
    <3>4. f[s] = h[<<s, f[next[s]]>>]
      BY <2>1, <3>3
    <3>5. f[s] = CanonicalRow[SubSeq(s, 1, FirstRow(s))] \o f[next[s]]
      <4> HIDE DEF D, next, h
      <4> QED
        BY <3>1, <3>2, <3>4
    <3>6. next[s] = SubSeq(s, FirstRow(s) + 1, Len(s))
      OBVIOUS
    <3> HIDE DEF next
    <3> QED
      BY <2>3, <3>5, <3>6, Zenon
  <2> QED
    BY <2>2, <2>3
<1>7. Recurs(f)
  <2>1. f = [s \in D |-> f[s]]
    BY <1>5
  <2> QED
    BY <1>6, <2>1
<1>8. AggregateLowRows = CHOOSE g : Recurs(g)
  BY Zenon DEF AggregateLowRows
<1>9. Recurs(AggregateLowRows)
  <2> HIDE DEF Recurs
  <2> QED
    BY <1>7, <1>8
<1> QED
  BY <1>9

(* A level keeps its addresses and its high mask.                          *)
LEMMA LowRowsAre ==
  ASSUME NEW hm
  PROVE  \A s \in Seq(AtLevel(hm)) :
           /\ AggregateLowRows[s] \in Seq(AtLevel(hm))
           /\ Len(AggregateLowRows[s]) <= Len(s)
           /\ UnionOf(AggregateLowRows[s]) = UnionOf(s)
<1> DEFINE Q == AtLevel(hm)
           D == Seq(Q)
           size == [s \in D |-> Len(s)]
           good == {s \in D : /\ AggregateLowRows[s] \in Seq(Q)
                              /\ Len(AggregateLowRows[s]) <= Len(s)
                              /\ UnionOf(AggregateLowRows[s]) = UnionOf(s)}
<1>1. Q \subseteq BiContiguous
  BY DEF AtLevel
<1>2. size \in [D -> Nat]
  BY LenProperties
<1>3. ASSUME NEW s \in D, \A e \in D : size[e] < size[s] => e \in good PROVE s \in good
  <2>1. s \in Seq(BiContiguous)
    <3> HIDE DEF Q
    <3> QED
      BY <1>1, SeqMonotonic
  <2>2. CASE s = <<>>
    <3>1. AggregateLowRows[s] = s
      BY <2>1, <2>2, LowRowsUnfolds
    <3>2. Len(s) <= Len(s)
      BY LenProperties
    <3> QED
      BY <3>1, <3>2, Zenon
  <2>3. CASE s # <<>>
    <3> DEFINE l == FirstRow(s)
               row == SubSeq(s, 1, l)
               rest == SubSeq(s, l + 1, Len(s))
               ha == High(s[1].addr)
    <3>1. l \in 1 .. Len(s) /\ Len(s) \in Nat /\ \A i \in 1 .. l : High(s[i].addr) = ha
      BY <2>3, FirstRowIs
    <3>2. AggregateLowRows[s] = CanonicalRow[row] \o AggregateLowRows[rest]
      BY <2>1, <2>3, LowRowsUnfolds
    <3> HIDE DEF l, Q
    <3>3. l \in 0 .. Len(s)
      BY <3>1
    <3>4. /\ row \in Seq(Q) /\ Len(row) = l /\ \A i \in 1 .. l : row[i] = s[i]
          /\ rest \in Seq(Q) /\ Len(rest) = Len(s) - l
          /\ UnionOf(s) = UnionOf(row) \cup UnionOf(rest)
      BY <3>3, RowAndRest
    <3>5. row \in Seq(InRow(hm, ha))
      <4>1. \A i \in 1 .. l : s[i] \in InRow(hm, ha)
        <5> SUFFICES ASSUME NEW i \in 1 .. l PROVE s[i] \in InRow(hm, ha)
          OBVIOUS
        <5>1. i \in 1 .. Len(s)
          BY <3>1
        <5>2. s[i] \in Q
          BY <5>1, ElementOfSeq
        <5> QED
          BY <3>1, <5>2 DEF Q, AtLevel, InRow
      <4> QED
        BY <3>1, <4>1, SubSeqProperties
    <3> DEFINE c == CanonicalRow[row]
               r == AggregateLowRows[rest]
    <3>6. c \in Seq(InRow(hm, ha)) /\ Len(c) <= l /\ UnionOf(c) = UnionOf(row)
      BY <3>4, <3>5, RowsMerge, CanonicalRowIs
    <3>7. c \in Seq(Q)
      <4>1. InRow(hm, ha) \subseteq Q
        BY DEF InRow, Q, AtLevel
      <4> HIDE DEF c
      <4> QED
        BY <3>6, <4>1, SeqMonotonic
    <3> HIDE DEF row, rest
    <3>8. rest \in good
      <4>1. rest \in D /\ size[rest] < size[s]
        BY <3>1, <3>4
      <4> HIDE DEF good, size, D
      <4> QED
        BY <1>3, <4>1
    <3>9. r \in Seq(Q) /\ Len(r) <= Len(rest) /\ UnionOf(r) = UnionOf(rest)
      BY <3>8
    <3> HIDE DEF c, r
    <3>10. /\ c \o r \in Seq(Q) /\ Len(c \o r) = Len(c) + Len(r)
           /\ UnionOf(c \o r) = UnionOf(c) \cup UnionOf(r)
      BY <3>7, <3>9, ConcatProperties, UnionOfBoth
    <3>11. AggregateLowRows[s] = c \o r
      BY <3>2 DEF c, r
    <3>12. Len(c) \in Nat /\ Len(r) \in Nat
      BY <3>7, <3>9, LenProperties
    <3>13. Len(AggregateLowRows[s]) <= Len(s)
      BY <3>1, <3>4, <3>6, <3>9, <3>10, <3>11, <3>12
    <3>14. UnionOf(AggregateLowRows[s]) = UnionOf(s)
      BY <3>4, <3>6, <3>9, <3>10, <3>11, Zenon
    <3>15. AggregateLowRows[s] \in Seq(Q)
      BY <3>10, <3>11, Zenon
    <3> QED
      BY <3>13, <3>14, <3>15
  <2> QED
    BY <2>2, <2>3
<1>4. \A s \in D : s \in good
  <2> HIDE DEF D, size, good
  <2> QED
    BY <1>2, <1>3, InductOnSize
<1> QED
  BY <1>4

-----------------------------------------------------------------------------
(* High buddies                                                            *)

(* The mask of a level has one bit more than that of the level before.     *)
LEMMA LevelFields ==
  ASSUME NEW p \in 1 .. HighW
  PROVE  /\ W - p \in Bits /\ W - p \in Int /\ W - p >= LowW
         /\ HighMask(p) = HighMask(p - 1) \cup {W - p} /\ W - p \notin HighMask(p - 1)
         /\ HighMask(p) \in Word /\ HighMask(p - 1) \in Word
         /\ High(HighMask(p)) = HighMask(p) /\ High(HighMask(p - 1)) = HighMask(p - 1)
         /\ Lt(HighMask(p - 1), HighMask(p))
<1>1. W \in Nat \ {0} /\ HighW \in Nat \ {0} /\ LowW \in Nat \ {0} /\ W = HighW + LowW
  BY WAssumption, WidthAssumption
<1>2. W - p \in Bits /\ W - p \in Int /\ W - p >= LowW /\ p \in Int
  BY <1>1 DEF Bits
<1>3. \A i \in Bits : i \in Int
  BY DEF Bits
<1>4. \A i : i \in HighMask(p) <=> i \in Bits /\ i >= W - p
  BY DEF HighMask
<1>5. \A i : i \in HighMask(p - 1) <=> i \in Bits /\ i >= W - (p - 1)
  BY DEF HighMask
<1>6. \A i \in Bits : i >= W - (p - 1) <=> i >= W - p /\ i # W - p
  BY <1>1, <1>2, <1>3
<1>7. \A i : i \in HighMask(p) <=> i \in HighMask(p - 1) \/ i = W - p
  BY <1>1, <1>2, <1>3, <1>4, <1>5, <1>6
<1>8. W - p \notin HighMask(p - 1)
  BY <1>5, <1>6
<1>9. HighMask(p) \in Word /\ HighMask(p - 1) \in Word
  BY <1>4, <1>5 DEF Word
<1>10. \A i \in HighMask(p) : i >= LowW
  BY <1>1, <1>2, <1>3, <1>4
<1>11. High(HighMask(p)) = HighMask(p) /\ High(HighMask(p - 1)) = HighMask(p - 1)
  BY <1>7, <1>10 DEF High
<1>12. Lt(HighMask(p - 1), HighMask(p))
  BY <1>7, <1>8 DEF Lt
<1> QED
  BY <1>2, <1>7, <1>8, <1>9, <1>11, <1>12

(* A network in the row that a row and its buddy become.                   *)
WideMask(n, p) == [n EXCEPT !.mask = HighMask(p - 1) \cup Low(@)]

(* A network and its equal upper buddy are what the wider high mask names. *)
LEMMA BuddiesUnite ==
  ASSUME NEW p \in 1 .. HighW, NEW n \in AtLevel(HighMask(p)), NEW u \in AtLevel(HighMask(p)),
         W - p \notin n.addr, High(u.addr) = High(n.addr) \cup {W - p},
         Low(u.addr) = Low(n.addr), Low(u.mask) = Low(n.mask)
  PROVE  /\ WideMask(n, p) \in AtLevel(HighMask(p - 1))
         /\ Addrs(WideMask(n, p)) = Addrs(n) \cup Addrs(u)
<1> DEFINE b == W - p
           w == [addr |-> n.addr, mask |-> HighMask(p - 1) \cup Low(n.mask)]
<1>1. /\ n \in BiContiguous /\ u \in BiContiguous
      /\ High(n.mask) = HighMask(p) /\ High(u.mask) = HighMask(p)
  BY DEF AtLevel
<1>2. /\ n.addr \in Word /\ n.mask \in Word /\ n.addr \subseteq n.mask
      /\ u.addr \in Word /\ u.mask \in Word /\ u.addr \subseteq u.mask
      /\ n = [addr |-> n.addr, mask |-> n.mask]
      /\ \A i \in n.mask : i + 1 \in n.mask \/ i = W - 1 \/ i = LowW - 1
  BY <1>1, ClassFields
<1>3. WideMask(n, p) = w
  <2>1. \A a, m, x : [[addr |-> a, mask |-> m] EXCEPT !.mask = x \cup Low(@)]
                      = [addr |-> a, mask |-> x \cup Low(m)]
    OBVIOUS
  <2>2. WideMask([addr |-> n.addr, mask |-> n.mask], p) = w
    BY <2>1 DEF WideMask
  <2> QED
    BY <1>2, <2>2, Zenon
<1>4. /\ b \in Bits /\ b \in Int /\ b >= LowW
      /\ HighMask(p) = HighMask(p - 1) \cup {b} /\ b \notin HighMask(p - 1)
      /\ HighMask(p - 1) \in Word /\ High(HighMask(p - 1)) = HighMask(p - 1)
  BY LevelFields
<1>5. LowW \in Int /\ W \in Int /\ \A i \in Bits : i \in Int
  BY WAssumption, WidthAssumption DEF Bits
<1>6. \A x \in Word : \A i : i \in x <=> i \in High(x) \/ i \in Low(x)
  BY <1>5 DEF High, Low, Word
<1> HIDE DEF b
<1>7. n.mask = u.mask /\ b \in n.mask
  <2>1. \A i : i \in n.mask <=> i \in u.mask
    BY <1>1, <1>2, <1>6, Zenon
  <2>2. b \in High(n.mask)
    BY <1>1, <1>4
  <2> QED
    BY <1>2, <1>6, <2>1, <2>2
<1>8. b \notin n.addr /\ u.addr = n.addr \cup {b}
  BY <1>2, <1>6 DEF b
<1>9. b \notin Low(n.mask)
  BY <1>4, <1>5 DEF Low
<1>10. w.mask = n.mask \ {b} /\ w.addr = n.addr
  BY <1>1, <1>2, <1>4, <1>6, <1>9
<1>11. w.mask \in Word /\ w.addr \in Word /\ w.addr \subseteq w.mask
  BY <1>2, <1>8, <1>10 DEF Word
<1>12. \A i \in w.mask : i + 1 \in w.mask \/ i = W - 1 \/ i = LowW - 1
  <2> SUFFICES ASSUME NEW i \in w.mask, i # W - 1, i # LowW - 1 PROVE i + 1 \in w.mask
    OBVIOUS
  <2>1. i \in n.mask /\ i + 1 \in n.mask /\ i \in Int /\ i \in Bits
    BY <1>2, <1>5, <1>10 DEF Word
  <2>2. i + 1 # b
    <3> SUFFICES ASSUME i + 1 = b PROVE FALSE
      OBVIOUS
    <3>1. i >= LowW
      BY <1>4, <1>5, <2>1
    <3>2. i \in HighMask(p)
      BY <1>1, <2>1, <3>1 DEF High
    <3>3. i >= b
      BY <3>2 DEF HighMask, b
    <3> QED
      BY <1>4, <2>1, <3>3
  <2> QED
    BY <1>10, <2>1, <2>2
<1>13. w \in BiContiguous
  <2> DEFINE m == HighMask(p - 1) \cup Low(n.mask)
  <2>1. w.mask = m /\ w.addr = n.addr
    OBVIOUS
  <2>2. /\ m \in Word /\ n.addr \in Word /\ n.addr \subseteq m
        /\ \A i \in m : i + 1 \in m \/ i = W - 1 \/ i = LowW - 1
    BY <1>11, <1>12, <2>1
  <2> HIDE DEF m
  <2>3. [addr |-> n.addr, mask |-> m] \in BiContiguous
    BY <2>2, ClassMake
  <2> QED
    BY <2>3 DEF m
<1>14. High(w.mask) = HighMask(p - 1)
  BY <1>1, <1>4, <1>10, <1>5 DEF High
<1>15. Addrs(w) = Addrs(n) \cup Addrs(u)
  <2>1. ASSUME NEW x \in Word
        PROVE  x \cap w.mask = w.addr <=> x \cap n.mask = n.addr \/ x \cap u.mask = u.addr
    <3>1. x \cap w.mask = (x \cap n.mask) \ {b}
      BY <1>10
    <3>2. b \in x <=> b \in x \cap n.mask
      BY <1>7
    <3> DEFINE y == x \cap n.mask
    <3>3. y \ {b} = n.addr <=> y = n.addr \/ y = n.addr \cup {b}
      BY <1>8
    <3>4. x \cap u.mask = y
      BY <1>7
    <3> HIDE DEF y, w
    <3> QED
      BY <1>8, <1>10, <3>1, <3>3, <3>4 DEF y
  <2> QED
    BY <2>1 DEF Addrs
<1> QED
  BY <1>3, <1>13, <1>14, <1>15 DEF AtLevel

(* The row that follows the first one, when it is its equal upper buddy.   *)
LEMMA BuddyIs ==
  ASSUME NEW S, NEW s \in Seq(S), s # <<>>, NEW p, BuddyFollows(s, p)
  PROVE  /\ FirstRow(s) \in 1 .. Len(s) /\ 2 * FirstRow(s) \in 1 .. Len(s) /\ Len(s) \in Nat
         /\ \A i \in 1 .. FirstRow(s) :
              /\ High(s[i].addr) = High(s[1].addr)
              /\ High(s[FirstRow(s) + i].addr) = High(s[1].addr) \cup {W - p}
              /\ Low(s[FirstRow(s) + i].addr) = Low(s[i].addr)
              /\ Low(s[FirstRow(s) + i].mask) = Low(s[i].mask)
         /\ W - p \notin s[1].addr
<1> DEFINE l == FirstRow(s)
           lower == SubSeq(s, 1, l)
           rest == SubSeq(s, l + 1, Len(s))
           k == FirstRow(rest)
           upper == SubSeq(rest, 1, k)
<1>1. /\ rest # <<>> /\ W - p \notin lower[1].addr
      /\ High(rest[1].addr) = High(lower[1].addr) \cup {W - p}
      /\ EqualLowRows(lower, upper)
  BY DEF BuddyFollows
<1>2. l \in 1 .. Len(s) /\ Len(s) \in Nat /\ \A i \in 1 .. l : High(s[i].addr) = High(s[1].addr)
  BY FirstRowIs
<1> HIDE DEF l
<1>3. l \in 0 .. Len(s)
  BY <1>2
<1>4. /\ lower \in Seq(S) /\ Len(lower) = l /\ \A i \in 1 .. l : lower[i] = s[i]
      /\ rest \in Seq(S) /\ Len(rest) = Len(s) - l /\ \A i \in 1 .. (Len(s) - l) : rest[i] = s[l + i]
  BY <1>3, RowAndRest
<1> HIDE DEF rest, lower
<1>5. k \in 1 .. Len(rest) /\ \A i \in 1 .. k : High(rest[i].addr) = High(rest[1].addr)
  BY <1>1, <1>4, FirstRowIs
<1> HIDE DEF k
<1>6. k \in 0 .. Len(rest)
  BY <1>5
<1>7. upper \in Seq(S) /\ Len(upper) = k /\ \A i \in 1 .. k : upper[i] = rest[i]
  BY <1>4, <1>6, RowAndRest
<1> HIDE DEF upper
<1>8. k = l /\ \A i \in 1 .. l : Low(lower[i].addr) = Low(upper[i].addr)
                                 /\ Low(lower[i].mask) = Low(upper[i].mask)
  <2>1. DOMAIN lower = 1 .. l
    BY <1>4, LenProperties
  <2> QED
    BY <1>1, <1>4, <1>7, <2>1 DEF EqualLowRows
<1>9. 2 * l \in 1 .. Len(s)
  BY <1>2, <1>4, <1>5, <1>8
<1>10. 1 \in 1 .. l /\ \A i \in 1 .. l : i \in 1 .. (Len(s) - l)
  BY <1>2, <1>9
<1>11. ASSUME NEW i \in 1 .. l
       PROVE  /\ High(s[l + i].addr) = High(s[1].addr) \cup {W - p}
              /\ Low(s[l + i].addr) = Low(s[i].addr)
              /\ Low(s[l + i].mask) = Low(s[i].mask)
  <2>1. lower[i] = s[i] /\ upper[i] = rest[i] /\ rest[i] = s[l + i] /\ lower[1] = s[1]
    BY <1>4, <1>7, <1>8, <1>10
  <2>2. High(rest[i].addr) = High(rest[1].addr)
    BY <1>5, <1>8
  <2> QED
    BY <1>1, <1>8, <2>1, <2>2
<1>12. W - p \notin s[1].addr
  BY <1>1, <1>4, <1>10
<1> QED
  BY <1>2, <1>9, <1>11, <1>12 DEF l

(* The remainder after the first row, or after both buddies.               *)
After(s, p) ==
  IF BuddyFollows(s, p) THEN SubSeq(s, 2 * FirstRow(s) + 1, Len(s))
  ELSE SubSeq(s, FirstRow(s) + 1, Len(s))
(* What the merge writes for the first row of s: the row, or the row it    *)
(* and its buddy become.                                                   *)
RowOf(s, p) ==
  IF BuddyFollows(s, p) THEN Widened(SubSeq(s, 1, FirstRow(s)), p) ELSE SubSeq(s, 1, FirstRow(s))

(* What is left after the first row, or after it and its buddy, is         *)
(* shorter.                                                                *)
LEMMA AfterIs ==
  ASSUME NEW S, NEW s \in Seq(S), s # <<>>, NEW p
  PROVE  /\ After(s, p) \in Seq(S) /\ Len(After(s, p)) \in Nat /\ Len(s) \in Nat
         /\ Len(After(s, p)) < Len(s)
<1>1. FirstRow(s) \in 1 .. Len(s) /\ Len(s) \in Nat
  BY FirstRowIs
<1>2. CASE BuddyFollows(s, p)
  <2>1. 2 * FirstRow(s) \in 1 .. Len(s)
    BY <1>2, BuddyIs
  <2> DEFINE k == 2 * FirstRow(s)
  <2>2. k \in 0 .. Len(s) /\ After(s, p) = SubSeq(s, k + 1, Len(s))
    <3>1. After(s, p) = SubSeq(s, k + 1, Len(s))
      BY <1>2, Zenon DEF After
    <3> QED
      BY <1>1, <2>1, <3>1
  <2>3. k \in 1 .. Len(s)
    BY <2>1
  <2> HIDE DEF k
  <2>4. SubSeq(s, k + 1, Len(s)) \in Seq(S) /\ Len(SubSeq(s, k + 1, Len(s))) = Len(s) - k
    BY <2>2, RowAndRest
  <2> QED
    BY <1>1, <2>2, <2>3, <2>4
<1>3. CASE ~BuddyFollows(s, p)
  <2> DEFINE k == FirstRow(s)
  <2>2. k \in 0 .. Len(s) /\ After(s, p) = SubSeq(s, k + 1, Len(s))
    BY <1>1, <1>3 DEF After
  <2>3. k \in 1 .. Len(s)
    BY <1>1
  <2> HIDE DEF k
  <2>4. SubSeq(s, k + 1, Len(s)) \in Seq(S) /\ Len(SubSeq(s, k + 1, Len(s))) = Len(s) - k
    BY <2>2, RowAndRest
  <2> QED
    BY <1>1, <2>2, <2>3, <2>4
<1> QED
  BY <1>2, <1>3

(* As a function of the rows for one length of the high run.               *)
Merges(p, f) ==
  \A s \in Seq(BiContiguous) :
    f[s] = IF s = <<>> THEN <<>> ELSE RowOf(s, p) \o f[After(s, p)]

(* MergeHighBuddies, one row or two at a time.                             *)
LEMMA HighBuddiesUnfold ==
  ASSUME NEW p \in 1 .. HighW
  PROVE  \E f : Merges(p, f) /\ \A rows \in Seq(BiContiguous) : MergeHighBuddies(rows, p) = f[rows]
<1> DEFINE D == Seq(BiContiguous)
           R == Seq(Pair)
           leaf == {<<>>}
           next == [s \in D |-> After(s, p)]
           size == [s \in D |-> Len(s)]
           base == [s \in D |-> <<>>]
           h == [x \in D \X R |-> IF x[1] = <<>> THEN <<>> ELSE RowOf(x[1], p) \o x[2]]
           Recurs(f) == f = [s \in Seq(BiContiguous) |->
                               IF s = <<>> THEN <<>>
                               ELSE IF BuddyFollows(s, p)
                                      THEN Widened(SubSeq(s, 1, FirstRow(s)), p)
                                             \o f[SubSeq(s, 2 * FirstRow(s) + 1, Len(s))]
                                      ELSE SubSeq(s, 1, FirstRow(s))
                                             \o f[SubSeq(s, FirstRow(s) + 1, Len(s))]]
           merge == CHOOSE f : Recurs(f)
<1>1. ASSUME NEW s \in D, s # <<>>
      PROVE  /\ next[s] \in D /\ size[next[s]] < size[s] /\ next[s] = After(s, p)
             /\ RowOf(s, p) \in R
  <2>1. After(s, p) \in D /\ Len(After(s, p)) < Len(s)
    BY <1>1, AfterIs
  <2>2. next[s] = After(s, p) /\ size[next[s]] = Len(After(s, p)) /\ size[s] = Len(s)
    BY <2>1
  <2> DEFINE row == SubSeq(s, 1, FirstRow(s))
  <2>3. row \in D /\ Len(row) \in Nat /\ row \in [1 .. Len(row) -> BiContiguous] /\ DOMAIN row = 1 .. Len(row)
    <3>1. FirstRow(s) \in 1 .. Len(s) /\ Len(s) \in Nat
      BY <1>1, FirstRowIs
    <3>2. FirstRow(s) \in 0 .. Len(s)
      BY <3>1
    <3>3. row \in D
      BY <3>2, RowAndRest
    <3> QED
      BY <3>3, LenProperties
  <2> HIDE DEF row
  <2>4. BiContiguous \subseteq Pair
    BY DEF BiContiguous, Network
  <2>5. HighMask(p - 1) \in Word
    BY LevelFields
  <2>6. Widened(row, p) \in R
    <3>1. ASSUME NEW i \in 1 .. Len(row)
          PROVE  [row[i] EXCEPT !.mask = HighMask(p - 1) \cup Low(@)] \in Pair
      BY <2>3, <2>4, <2>5 DEF Pair, Low, Word
    <3>2. Widened(row, p) = [i \in 1 .. Len(row) |->
                               [row[i] EXCEPT !.mask = HighMask(p - 1) \cup Low(@)]]
      BY <2>3, Zenon DEF Widened
    <3>3. Widened(row, p) \in [1 .. Len(row) -> Pair]
      BY <3>1, <3>2
    <3> QED
      BY <2>3, <3>3, SeqDef
  <2>7. row \in R
    BY <2>3, <2>4, SeqMonotonic
  <2> HIDE DEF R, D, next, size
  <2>8. RowOf(s, p) \in R
    BY <2>6, <2>7 DEF RowOf, row
  <2> QED
    BY <2>1, <2>2, <2>8
<1>2. size \in [D -> Nat]
  BY LenProperties
<1>3. base \in [D -> R]
  BY EmptySeq
<1>4. h \in [D \X R -> R]
  <2> SUFFICES ASSUME NEW x \in D \X R
               PROVE  (IF x[1] = <<>> THEN <<>> ELSE RowOf(x[1], p) \o x[2]) \in R
    OBVIOUS
  <2>1. x[1] \in D /\ x[2] \in R
    OBVIOUS
  <2>2. CASE x[1] = <<>>
    BY <2>2, EmptySeq
  <2>3. CASE x[1] # <<>>
    BY <1>1, <2>1, <2>3, ConcatProperties
  <2> QED
    BY <2>2, <2>3
<1>5. PICK f \in [D -> R] : AsksSmaller(D, leaf, base, next, h, f)
  <2>1. \A s \in D \ leaf : next[s] \in D /\ size[next[s]] < size[s]
    BY <1>1
  <2> HIDE DEF D, R, leaf, base, next, h, size
  <2> QED
    BY <1>2, <1>3, <1>4, <2>1, RecursionExists
<1>6. ASSUME NEW s \in D
      PROVE  f[s] = IF s = <<>> THEN <<>> ELSE RowOf(s, p) \o f[After(s, p)]
  <2>1. f[s] = IF s \in leaf THEN base[s] ELSE h[<<s, f[next[s]]>>]
    <3> HIDE DEF D, leaf, base, next, h, size
    <3> QED
      BY <1>5, Zenon DEF AsksSmaller
  <2>2. CASE s = <<>>
    BY <2>1, <2>2
  <2>3. CASE s # <<>>
    <3>1. next[s] \in D /\ f[next[s]] \in R /\ next[s] = After(s, p)
      BY <1>1, <2>3
    <3>2. \A r \in R : h[<<s, r>>] = RowOf(s, p) \o r
      <4> SUFFICES ASSUME NEW r \in R PROVE h[<<s, r>>] = RowOf(s, p) \o r
        OBVIOUS
      <4>1. <<s, r>> \in D \X R
        OBVIOUS
      <4> HIDE DEF D, R
      <4> QED
        BY <2>3, <4>1
    <3>3. s \notin leaf
      BY <2>3
    <3>4. f[s] = h[<<s, f[next[s]]>>]
      BY <2>1, <3>3
    <3>5. f[s] = RowOf(s, p) \o f[next[s]]
      <4> HIDE DEF D, R, next, h
      <4> QED
        BY <3>1, <3>2, <3>4
    <3> HIDE DEF next
    <3> QED
      BY <2>3, <3>1, <3>5, Zenon
  <2> QED
    BY <2>2, <2>3
<1>7. \A g : Recurs(g) <=> g = [s \in D |-> IF s = <<>> THEN <<>> ELSE RowOf(s, p) \o g[After(s, p)]]
  <2> SUFFICES ASSUME NEW g, NEW s \in D
               PROVE  (IF s = <<>> THEN <<>>
                       ELSE IF BuddyFollows(s, p)
                              THEN Widened(SubSeq(s, 1, FirstRow(s)), p)
                                     \o g[SubSeq(s, 2 * FirstRow(s) + 1, Len(s))]
                              ELSE SubSeq(s, 1, FirstRow(s))
                                     \o g[SubSeq(s, FirstRow(s) + 1, Len(s))])
                      = IF s = <<>> THEN <<>> ELSE RowOf(s, p) \o g[After(s, p)]
    OBVIOUS
  <2> QED
    BY Zenon DEF RowOf, After
<1>8. Recurs(f)
  <2>1. f = [s \in D |-> f[s]]
    BY <1>5
  <2>2. f = [s \in D |-> IF s = <<>> THEN <<>> ELSE RowOf(s, p) \o f[After(s, p)]]
    BY <1>6, <2>1
  <2> HIDE DEF Recurs, D
  <2> QED
    BY <1>7, <2>2
<1>9. Recurs(merge)
  <2> HIDE DEF Recurs
  <2> QED
    BY <1>8
<1>10. Merges(p, merge)
  <2> HIDE DEF Recurs, merge
  <2>1. merge = [s \in D |-> IF s = <<>> THEN <<>> ELSE RowOf(s, p) \o merge[After(s, p)]]
    BY <1>7, <1>9
  <2> QED
    BY <2>1 DEF Merges
<1>11. \A rows \in Seq(BiContiguous) : MergeHighBuddies(rows, p) = merge[rows]
  BY Zenon DEF MergeHighBuddies
<1> HIDE DEF merge
<1> QED
  BY <1>10, <1>11

(* The buddy merges keep the addresses.  What they touch moves one level   *)
(* up, and without one the rows stay as they were.                         *)
LEMMA HighBuddiesAre ==
  ASSUME NEW p \in 1 .. HighW, NEW rows \in Seq(AtLevel(HighMask(p)))
  PROVE  LET merged == MergeHighBuddies(rows, p)
         IN  /\ merged \in Seq(AtLevel(HighMask(p)) \cup AtLevel(HighMask(p - 1)))
             /\ Len(merged) <= Len(rows)
             /\ UnionOf(merged) = UnionOf(rows)
             /\ Len(merged) = Len(rows) => merged = rows
<1> DEFINE Q == AtLevel(HighMask(p))
           P == Q \cup AtLevel(HighMask(p - 1))
           D == Seq(Q)
           size == [s \in D |-> Len(s)]
<1>0. Q \subseteq BiContiguous /\ P \subseteq BiContiguous /\ Q \subseteq P
  BY DEF AtLevel
<1>1. PICK f : Merges(p, f) /\ \A r \in Seq(BiContiguous) : MergeHighBuddies(r, p) = f[r]
  BY HighBuddiesUnfold
<1> DEFINE good == {s \in D : /\ f[s] \in Seq(P)
                              /\ Len(f[s]) <= Len(s)
                              /\ UnionOf(f[s]) = UnionOf(s)
                              /\ Len(f[s]) = Len(s) => f[s] = s}
<1>2. size \in [D -> Nat]
  BY LenProperties
<1> HIDE DEF Q, P
<1>3. ASSUME NEW s \in D, \A e \in D : size[e] < size[s] => e \in good PROVE s \in good
  <2>1. s \in Seq(BiContiguous)
    BY <1>0, SeqMonotonic
  <2>2. f[s] = IF s = <<>> THEN <<>> ELSE RowOf(s, p) \o f[After(s, p)]
    BY <1>1, <2>1 DEF Merges
  <2>3. CASE s = <<>>
    <3>1. f[s] = s
      BY <2>2, <2>3
    <3>2. Len(s) <= Len(s) /\ s \in Seq(P)
      BY <1>0, LenProperties, SeqMonotonic
    <3> QED
      BY <3>1, <3>2, Zenon
  <2>4. CASE s # <<>>
    <3> DEFINE a == After(s, p)
               g == f[a]
    <3>1. a \in D /\ Len(a) \in Nat /\ Len(s) \in Nat /\ Len(a) < Len(s)
      BY <2>4, AfterIs
    <3> HIDE DEF a
    <3>2. a \in good
      <4>1. size[a] < size[s]
        BY <3>1
      <4> HIDE DEF good, size, D
      <4> QED
        BY <1>3, <3>1, <4>1
    <3>3. /\ g \in Seq(P) /\ Len(g) <= Len(a) /\ UnionOf(g) = UnionOf(a)
          /\ Len(g) = Len(a) => g = a
      BY <3>2
    <3> HIDE DEF g
    <3>4. f[s] = RowOf(s, p) \o g
      BY <2>2, <2>4 DEF g, a
    <3>5. Len(g) \in Nat
      BY <3>3, LenProperties
    <3> DEFINE l == FirstRow(s)
    <3>6. l \in 1 .. Len(s)
      BY <2>4, FirstRowIs
    <3>7. CASE BuddyFollows(s, p)
      <4> DEFINE row == SubSeq(s, 1, l)
                 wide == Widened(row, p)
      <4>1. /\ 2 * l \in 1 .. Len(s)
            /\ \A i \in 1 .. l :
                 /\ High(s[i].addr) = High(s[1].addr)
                 /\ High(s[l + i].addr) = High(s[1].addr) \cup {W - p}
                 /\ Low(s[l + i].addr) = Low(s[i].addr)
                 /\ Low(s[l + i].mask) = Low(s[i].mask)
            /\ W - p \notin s[1].addr
        BY <2>4, <3>7, BuddyIs
      <4> HIDE DEF l
      <4>2. a = SubSeq(s, 2 * l + 1, Len(s)) /\ RowOf(s, p) = wide
        BY <3>7, Zenon DEF a, After, RowOf, l
      <4>3. l \in 0 .. Len(s) /\ 2 * l \in 0 .. Len(s) /\ l \in Nat
        BY <3>1, <3>6, <4>1
      <4>4. row \in Seq(Q) /\ Len(row) = l /\ \A i \in 1 .. l : row[i] = s[i]
        BY <4>3, RowAndRest
      <4> DEFINE both == SubSeq(s, 1, 2 * l)
      <4>5. /\ both \in Seq(Q) /\ Len(both) = 2 * l /\ \A i \in 1 .. (2 * l) : both[i] = s[i]
            /\ Len(SubSeq(s, 2 * l + 1, Len(s))) = Len(s) - 2 * l
            /\ UnionOf(s) = UnionOf(both) \cup UnionOf(SubSeq(s, 2 * l + 1, Len(s)))
        BY <4>3, RowAndRest
      <4> HIDE DEF row, both
      <4>6. ASSUME NEW i \in 1 .. l
            PROVE  /\ WideMask(row[i], p) \in AtLevel(HighMask(p - 1))
                   /\ Addrs(WideMask(row[i], p)) = Addrs(both[i]) \cup Addrs(both[l + i])
        <5>1. i \in 1 .. Len(s) /\ l + i \in 1 .. Len(s) /\ i \in 1 .. (2 * l) /\ l + i \in 1 .. (2 * l)
          BY <3>1, <4>1, <4>3
        <5>2. s[i] \in Q /\ s[l + i] \in Q
          BY <5>1, ElementOfSeq
        <5>3. W - p \notin s[i].addr
          <6>1. W - p >= LowW
            BY LevelFields
          <6>2. 1 \in 1 .. l
            BY <4>3
          <6>3. W - p \notin High(s[1].addr)
            BY <4>1 DEF High
          <6>4. W - p \notin High(s[i].addr)
            BY <4>1, <6>3
          <6> QED
            BY <6>1, <6>4 DEF High
        <5>4. High(s[l + i].addr) = High(s[i].addr) \cup {W - p}
          BY <4>1
        <5> DEFINE n == s[i]
                   u == s[l + i]
        <5>5. /\ n \in AtLevel(HighMask(p)) /\ u \in AtLevel(HighMask(p))
              /\ W - p \notin n.addr /\ High(u.addr) = High(n.addr) \cup {W - p}
              /\ Low(u.addr) = Low(n.addr) /\ Low(u.mask) = Low(n.mask)
          BY <4>1, <5>2, <5>3, <5>4 DEF Q
        <5> HIDE DEF n, u
        <5>6. /\ WideMask(n, p) \in AtLevel(HighMask(p - 1))
              /\ Addrs(WideMask(n, p)) = Addrs(n) \cup Addrs(u)
          BY <5>5, BuddiesUnite
        <5>7. row[i] = n /\ both[i] = n /\ both[l + i] = u
          BY <4>4, <4>5, <5>1 DEF n, u
        <5> QED
          BY <5>6, <5>7, Zenon
      <4>7. wide = [i \in 1 .. l |-> WideMask(row[i], p)]
        <5>1. DOMAIN row = 1 .. l
          BY <4>4, LenProperties
        <5> QED
          BY <5>1, Zenon DEF Widened, WideMask
      <4>8. wide \in Seq(P) /\ Len(wide) = l /\ \A i \in 1 .. l : wide[i] = WideMask(row[i], p)
        <5>1. \A i \in 1 .. l : WideMask(row[i], p) \in P
          BY <4>6 DEF P
        <5> DEFINE v == [i \in 1 .. l |-> WideMask(row[i], p)]
        <5>2. v \in [1 .. l -> P] /\ \A i \in 1 .. l : v[i] = WideMask(row[i], p)
          BY <5>1
        <5> HIDE DEF v
        <5>3. v \in Seq(P)
          BY <4>3, <5>2, SeqDef
        <5>4. Len(v) = l
          BY <4>3, <5>2, <5>3, LenProperties
        <5> QED
          BY <4>7, <5>2, <5>3, <5>4, Zenon DEF v
      <4> HIDE DEF wide
      <4>9. UnionOf(wide) = UnionOf(both)
        <5>1. \A x : x \in UnionOf(wide) <=> \E i \in 1 .. l : x \in Addrs(wide[i])
          BY <4>8, UnionIs, Zenon
        <5>2. \A x : x \in UnionOf(both) <=> \E i \in 1 .. (2 * l) : x \in Addrs(both[i])
          BY <4>5, UnionIs, Zenon
        <5>3. ASSUME NEW x, x \in UnionOf(wide) PROVE x \in UnionOf(both)
          <6>1. PICK i \in 1 .. l : x \in Addrs(wide[i])
            BY <5>1, <5>3
          <6>2. i \in 1 .. (2 * l) /\ l + i \in 1 .. (2 * l)
            BY <4>3
          <6>3. x \in Addrs(both[i]) \/ x \in Addrs(both[l + i])
            BY <4>8, <4>6, <6>1
          <6> QED
            BY <5>2, <6>2, <6>3, Zenon
        <5>4. ASSUME NEW x, x \in UnionOf(both) PROVE x \in UnionOf(wide)
          <6>1. PICK j \in 1 .. (2 * l) : x \in Addrs(both[j])
            BY <5>2, <5>4
          <6>2. j \in 1 .. l \/ (j - l \in 1 .. l /\ l + (j - l) = j)
            BY <4>3
          <6>3. PICK i \in 1 .. l : j = i \/ j = l + i
            BY <6>2
          <6>4. x \in Addrs(both[i]) \cup Addrs(both[l + i])
            BY <6>1, <6>3, Zenon
          <6>5. wide[i] = WideMask(row[i], p)
            BY <4>8
          <6>6. x \in Addrs(wide[i])
            BY <4>6, <6>4, <6>5, Zenon
          <6> QED
            BY <5>1, <6>6, Zenon
        <5> QED
          BY <5>3, <5>4, Zenon
      <4>10. /\ wide \o g \in Seq(P) /\ Len(wide \o g) = Len(wide) + Len(g)
             /\ UnionOf(wide \o g) = UnionOf(wide) \cup UnionOf(g)
        <5>1. wide \in Seq(P) /\ g \in Seq(P)
          BY <3>3, <4>8
        <5>2. wide \o g \in Seq(P) /\ Len(wide \o g) = Len(wide) + Len(g)
          BY <5>1, ConcatProperties
        <5>3. UnionOf(wide \o g) = UnionOf(wide) \cup UnionOf(g)
          BY <5>1, UnionOfBoth
        <5> QED
          BY <5>2, <5>3
      <4>11. f[s] = wide \o g
        BY <3>4, <4>2
      <4>12. Len(f[s]) < Len(s)
        <5>1. Len(f[s]) = l + Len(g)
          BY <4>8, <4>10, <4>11, Zenon
        <5>2. Len(a) = Len(s) - 2 * l
          BY <4>2, <4>5, Zenon
        <5>3. l > 0
          BY <3>6, <4>3 DEF l
        <5> QED
          BY <3>1, <3>3, <3>5, <4>3, <5>1, <5>2, <5>3
      <4>13. UnionOf(f[s]) = UnionOf(s)
        BY <3>3, <4>2, <4>5, <4>9, <4>10, <4>11, Zenon
      <4>14. f[s] \in Seq(P)
        BY <4>10, <4>11, Zenon
      <4>15. Len(f[s]) <= Len(s) /\ Len(f[s]) # Len(s)
        BY <3>1, <3>5, <4>8, <4>10, <4>11, <4>12, <4>3
      <4> QED
        BY <4>13, <4>14, <4>15, Zenon
    <3>8. CASE ~BuddyFollows(s, p)
      <4> DEFINE row == SubSeq(s, 1, l)
      <4> HIDE DEF l
      <4>1. a = SubSeq(s, l + 1, Len(s)) /\ RowOf(s, p) = row
        BY <3>8, Zenon DEF a, After, RowOf, l
      <4>2. l \in 0 .. Len(s) /\ l \in Nat
        BY <3>1, <3>6
      <4>3. /\ row \in Seq(Q) /\ Len(row) = l
            /\ Len(a) = Len(s) - l
            /\ UnionOf(s) = UnionOf(row) \cup UnionOf(a)
            /\ s = row \o a
        <5> DEFINE rest == SubSeq(s, l + 1, Len(s))
        <5>1. /\ row \in Seq(Q) /\ Len(row) = l /\ Len(rest) = Len(s) - l
              /\ UnionOf(s) = UnionOf(row) \cup UnionOf(rest)
          BY <4>2, RowAndRest
        <5>2. s = row \o rest
          BY <4>2, Cut, Zenon
        <5>3. a = rest
          BY <4>1, Zenon
        <5> HIDE DEF row, rest, a
        <5> QED
          BY <5>1, <5>2, <5>3, Zenon
      <4> HIDE DEF row
      <4>4. row \in Seq(P)
        BY <1>0, <4>3, SeqMonotonic
      <4>5. /\ row \o g \in Seq(P) /\ Len(row \o g) = Len(row) + Len(g)
            /\ UnionOf(row \o g) = UnionOf(row) \cup UnionOf(g)
        BY <3>3, <4>4, ConcatProperties, UnionOfBoth
      <4>6. f[s] = row \o g
        BY <3>4, <4>1
      <4>7. Len(f[s]) = l + Len(g) /\ Len(f[s]) <= Len(s) /\ (Len(f[s]) = Len(s) => Len(g) = Len(a))
        BY <3>1, <3>3, <3>5, <4>2, <4>3, <4>5, <4>6
      <4>8. UnionOf(f[s]) = UnionOf(s)
        BY <3>3, <4>3, <4>5, <4>6, Zenon
      <4>9. f[s] \in Seq(P)
        BY <4>5, <4>6, Zenon
      <4>10. Len(f[s]) = Len(s) => f[s] = s
        BY <3>3, <4>3, <4>6, <4>7, Zenon
      <4> QED
        BY <4>7, <4>8, <4>9, <4>10, Zenon
    <3> QED
      BY <3>7, <3>8
  <2> QED
    BY <2>3, <2>4
<1>4. \A s \in D : s \in good
  <2> HIDE DEF D, size, good
  <2> QED
    BY <1>2, <1>3, InductOnSize
<1>5. rows \in D
  BY DEF Q
<1>6. rows \in good
  <2> HIDE DEF D, good
  <2> QED
    BY <1>4, <1>5
<1>7. MergeHighBuddies(rows, p) = f[rows]
  <2>1. rows \in Seq(BiContiguous)
    BY <1>0, <1>5, SeqMonotonic
  <2> QED
    BY <1>1, <2>1
<1> QED
  BY <1>6, <1>7 DEF P, Q

-----------------------------------------------------------------------------
(* Sorting                                                                 *)

(* The orders the binary searches rely on.                                 *)
HighAscends(s) ==
  \A i, j \in DOMAIN s : i < j => ~Lt(High(s[j].mask), High(s[i].mask))
MaskAscends(s) == \A i, j \in DOMAIN s : i < j => ~Lt(s[j].mask, s[i].mask)

(* A sort keeps the number of networks and their addresses.                *)
LEMMA RearrangedIs ==
  ASSUME NEW S, NEW s \in Seq(S), NEW t \in Rearranged(s)
  PROVE  t \in Seq(S) /\ Len(t) = Len(s) /\ UnionOf(t) = UnionOf(s)
<1> DEFINE n == Len(s)
<1>1. DOMAIN s = 1 .. n /\ n \in Nat
  BY LenProperties
<1>2. PICK p \in [1 .. n -> 1 .. n] :
        /\ \A j \in 1 .. n : \E i \in 1 .. n : p[i] = j
        /\ t = [i \in 1 .. n |-> s[p[i]]]
  <2> DEFINE X == DOMAIN s
  <2>1. \E p \in {q \in [X -> X] : \A j \in X : \E i \in X : q[i] = j} : t = [i \in X |-> s[p[i]]]
    BY Zenon DEF Rearranged
  <2>2. X = 1 .. n
    BY <1>1
  <2> HIDE DEF X
  <2>3. \E p \in [X -> X] : (\A j \in X : \E i \in X : p[i] = j) /\ t = [i \in X |-> s[p[i]]]
    BY <2>1, Zenon
  <2> QED
    BY <2>2, <2>3, Zenon
<1>3. \A i \in 1 .. n : s[i] \in S
  BY ElementOfSeq
<1> HIDE DEF n
<1>4. t \in [1 .. n -> S]
  BY <1>2, <1>3
<1>5. t \in Seq(S)
  BY <1>1, <1>4, SeqDef
<1>6. Len(t) = n
  BY <1>1, <1>4, <1>5, LenProperties
<1>7. \A x : x \in UnionOf(s) <=> \E i \in 1 .. n : x \in Addrs(s[i])
  BY UnionIs, Zenon DEF n
<1>8. \A x : x \in UnionOf(t) <=> \E i \in 1 .. n : x \in Addrs(t[i])
  BY <1>5, <1>6, UnionIs, Zenon
<1>9. \A i \in 1 .. n : p[i] \in 1 .. n /\ t[i] = s[p[i]]
  BY <1>2
<1>10. UnionOf(t) = UnionOf(s)
  <2>1. ASSUME NEW x, x \in UnionOf(t) PROVE x \in UnionOf(s)
    BY <1>7, <1>8, <1>9, <2>1, Zenon
  <2>2. ASSUME NEW x, x \in UnionOf(s) PROVE x \in UnionOf(t)
    <3>1. PICK j \in 1 .. n : x \in Addrs(s[j])
      BY <1>7, <2>2
    <3>2. PICK i \in 1 .. n : p[i] = j
      BY <1>2
    <3>3. x \in Addrs(t[i])
      BY <1>9, <3>1, <3>2, Zenon
    <3> QED
      BY <1>8, <3>3, Zenon
  <2> QED
    BY <2>1, <2>2, Zenon
<1> QED
  BY <1>5, <1>6, <1>10 DEF n

(* The sort by level leaves the high masks ascending.                      *)
LEMMA LevelSorts ==
  ASSUME NEW S, NEW s \in Seq(S), NEW t \in SortedByLevel(s)
  PROVE  t \in Seq(S) /\ Len(t) = Len(s) /\ UnionOf(t) = UnionOf(s) /\ HighAscends(t)
<1>1. t \in Rearranged(s) /\ InOrder(t, LevelKey)
  BY DEF SortedByLevel
<1>2. HighAscends(t)
  <2> SUFFICES ASSUME NEW i \in DOMAIN t, NEW j \in DOMAIN t, i < j,
                      Lt(High(t[j].mask), High(t[i].mask))
               PROVE  FALSE
    BY DEF HighAscends
  <2>1. ~KeyBefore(LevelKey(t[j]), LevelKey(t[i]))
    BY <1>1 DEF InOrder
  <2>2. \A a, b, c, d, e, f, g, h : Lt(a, e) => KeyBefore(<<a, b, c, d>>, <<e, f, g, h>>)
    <3> SUFFICES ASSUME NEW a, NEW b, NEW c, NEW d, NEW e, NEW f, NEW g, NEW h, Lt(a, e)
                 PROVE  KeyBefore(<<a, b, c, d>>, <<e, f, g, h>>)
      OBVIOUS
    <3> DEFINE x == <<a, b, c, d>>
               y == <<e, f, g, h>>
    <3>1. 1 \in DOMAIN x /\ x[1] = a /\ y[1] = e /\ 1 .. (1 - 1) = {}
      OBVIOUS
    <3> HIDE DEF x, y
    <3>2. KeyBefore(x, y)
      BY <3>1 DEF KeyBefore
    <3> QED
      BY <3>2 DEF x, y
  <2>3. KeyBefore(LevelKey(t[j]), LevelKey(t[i]))
    BY <2>2 DEF LevelKey
  <2> QED
    BY <2>1, <2>3
<1> QED
  BY <1>1, <1>2, RearrangedIs

(* The sort by mask and address leaves the masks ascending.                *)
LEMMA MaskSorts ==
  ASSUME NEW S, NEW s \in Seq(S), NEW t \in SortedByMask(s)
  PROVE  t \in Seq(S) /\ Len(t) = Len(s) /\ UnionOf(t) = UnionOf(s) /\ MaskAscends(t)
<1>1. t \in Rearranged(s) /\ InOrder(t, MaskAddressKey)
  BY DEF SortedByMask
<1>2. MaskAscends(t)
  <2> SUFFICES ASSUME NEW i \in DOMAIN t, NEW j \in DOMAIN t, i < j, Lt(t[j].mask, t[i].mask)
               PROVE  FALSE
    BY DEF MaskAscends
  <2>1. ~KeyBefore(MaskAddressKey(t[j]), MaskAddressKey(t[i]))
    BY <1>1 DEF InOrder
  <2>2. \A a, b, c, d : Lt(a, c) => KeyBefore(<<a, b>>, <<c, d>>)
    <3> SUFFICES ASSUME NEW a, NEW b, NEW c, NEW d, Lt(a, c)
                 PROVE  KeyBefore(<<a, b>>, <<c, d>>)
      OBVIOUS
    <3> DEFINE x == <<a, b>>
               y == <<c, d>>
    <3>1. 1 \in DOMAIN x /\ x[1] = a /\ y[1] = c /\ 1 .. (1 - 1) = {}
      OBVIOUS
    <3> HIDE DEF x, y
    <3>2. KeyBefore(x, y)
      BY <3>1 DEF KeyBefore
    <3> QED
      BY <3>2 DEF x, y
  <2>3. KeyBefore(MaskAddressKey(t[j]), MaskAddressKey(t[i]))
    BY <2>2 DEF MaskAddressKey
  <2> QED
    BY <2>1, <2>3
<1> QED
  BY <1>1, <1>2, RearrangedIs

-----------------------------------------------------------------------------
(* Containment                                                             *)

(* The networks of one mask among those kept, found by two searches.       *)
RunFrom(m, from) ==
  <<LowerBoundMask(nets, from, kept + 1, m),
    UpperBoundMask(nets, LowerBoundMask(nets, from, kept + 1, m), kept + 1, m)>>

(* What the probe relies on.                                               *)
Sorted == nets \in Seq(BiContiguous) /\ MaskAscends(nets) /\ kept \in 0 .. Len(nets)

(* The run found for an ancestor mask lies among the survivors and holds   *)
(* only networks with that mask: from the start of the search on, all of   *)
(* them, and nothing before its end has a greater mask.                    *)
LEMMA RunFromIs ==
  ASSUME Sorted, NEW m \in Word, NEW from \in 1 .. (kept + 1)
  PROVE  /\ RunFrom(m, from)[1] \in 1 .. (kept + 1) /\ RunFrom(m, from)[2] \in 1 .. (kept + 1)
         /\ RunFrom(m, from) = <<RunFrom(m, from)[1], RunFrom(m, from)[2]>>
         /\ \A i \in RunFrom(m, from)[1] .. (RunFrom(m, from)[2] - 1) :
              i \in 1 .. kept /\ nets[i].mask = m
         /\ from <= RunFrom(m, from)[1] /\ RunFrom(m, from)[1] <= RunFrom(m, from)[2]
         /\ \A i \in from .. kept : (i < RunFrom(m, from)[2] => Le(nets[i].mask, m))
                                 /\ (nets[i].mask = m => i \in RunFrom(m, from)[1] .. (RunFrom(m, from)[2] - 1))
<1> DEFINE first == LowerBoundMask(nets, from, kept + 1, m)
           last == UpperBoundMask(nets, first, kept + 1, m)
<1>1. /\ nets \in Seq(BiContiguous) /\ Len(nets) \in Nat /\ DOMAIN nets = 1 .. Len(nets)
      /\ kept \in Nat /\ kept <= Len(nets)
  BY LenProperties DEF Sorted
<1>2. ASSUME NEW i \in 1 .. kept
      PROVE  /\ i \in DOMAIN nets /\ nets[i] \in BiContiguous /\ nets[i].mask \in Word
             /\ nets[i] \in MaskBelow(m) <=> Lt(nets[i].mask, m)
             /\ nets[i] \in MaskUpTo(m) <=> Le(nets[i].mask, m)
  BY <1>1, ElementOfSeq, ClassFields DEF MaskBelow, MaskUpTo
<1>3. ASSUME NEW i \in 1 .. kept, NEW j \in 1 .. kept, i < j
      PROVE  nets[i].mask = nets[j].mask \/ Lt(nets[i].mask, nets[j].mask)
  <2>1. ~Lt(nets[j].mask, nets[i].mask)
    BY <1>2, <1>3 DEF Sorted, MaskAscends
  <2> QED
    BY <1>2, <2>1, LtTotal
<1>4. /\ first \in from .. (kept + 1)
      /\ \A i \in from .. kept : i < first <=> Lt(nets[i].mask, m)
  <2>1. /\ from \in Nat /\ kept + 1 \in Nat /\ from <= kept + 1 /\ (kept + 1) - 1 = kept
        /\ \A i \in from .. kept : i \in 1 .. kept
    BY <1>1
  <2>2. \A i, j \in from .. kept : i < j /\ nets[j] \in MaskBelow(m) => nets[i] \in MaskBelow(m)
    <3> SUFFICES ASSUME NEW i \in from .. kept, NEW j \in from .. kept, i < j, Lt(nets[j].mask, m)
                 PROVE  Lt(nets[i].mask, m)
      BY <1>2, <2>1
    <3>1. i \in 1 .. kept /\ j \in 1 .. kept
      BY <2>1
    <3> QED
      BY <1>2, <1>3, <3>1, LtTransitive
  <2> DEFINE k == SearchFirst(nets, from, kept + 1, MaskBelow(m))
  <2>3. /\ k \in from .. (kept + 1)
        /\ (\A i, j \in from .. ((kept + 1) - 1) : i < j /\ nets[j] \in MaskBelow(m) => nets[i] \in MaskBelow(m))
              => \A i \in from .. ((kept + 1) - 1) : i < k <=> nets[i] \in MaskBelow(m)
    BY <2>1, SearchIsExact
  <2>4. first = k
    BY DEF LowerBoundMask
  <2> HIDE DEF k
  <2>5. \A i \in from .. kept : i < k <=> nets[i] \in MaskBelow(m)
    BY <2>1, <2>2, <2>3, Zenon
  <2> QED
    BY <1>2, <2>1, <2>3, <2>4, <2>5
<1> HIDE DEF first
<1>5. /\ last \in first .. (kept + 1)
      /\ \A i \in first .. kept : i < last <=> Le(nets[i].mask, m)
  <2>1. /\ first \in Nat /\ kept + 1 \in Nat /\ first <= kept + 1 /\ (kept + 1) - 1 = kept
        /\ \A i \in first .. kept : i \in 1 .. kept
    BY <1>1, <1>4
  <2>2. \A i, j \in first .. kept : i < j /\ nets[j] \in MaskUpTo(m) => nets[i] \in MaskUpTo(m)
    <3> SUFFICES ASSUME NEW i \in first .. kept, NEW j \in first .. kept, i < j, Le(nets[j].mask, m)
                 PROVE  Le(nets[i].mask, m)
      BY <1>2, <2>1
    <3>1. i \in 1 .. kept /\ j \in 1 .. kept
      BY <2>1
    <3>2. nets[j].mask = m \/ Lt(nets[j].mask, m)
      BY DEF Le
    <3>3. nets[i].mask = m \/ Lt(nets[i].mask, m)
      BY <1>2, <1>3, <3>1, <3>2, LtTransitive
    <3> QED
      BY <3>3 DEF Le
  <2> DEFINE k == SearchFirst(nets, first, kept + 1, MaskUpTo(m))
  <2>3. /\ k \in first .. (kept + 1)
        /\ (\A i, j \in first .. ((kept + 1) - 1) : i < j /\ nets[j] \in MaskUpTo(m) => nets[i] \in MaskUpTo(m))
              => \A i \in first .. ((kept + 1) - 1) : i < k <=> nets[i] \in MaskUpTo(m)
    BY <2>1, SearchIsExact
  <2>4. last = k
    BY DEF UpperBoundMask
  <2> HIDE DEF k
  <2>5. \A i \in first .. kept : i < k <=> nets[i] \in MaskUpTo(m)
    BY <2>1, <2>2, <2>3, Zenon
  <2> QED
    BY <1>2, <2>1, <2>3, <2>4, <2>5
<1>6. RunFrom(m, from) = <<first, last>>
  BY DEF RunFrom, first
<1> HIDE DEF last
<1>7. RunFrom(m, from)[1] = first /\ RunFrom(m, from)[2] = last
  BY <1>6
<1>8. ASSUME NEW i \in first .. (last - 1) PROVE i \in 1 .. kept /\ nets[i].mask = m
  BY <1>1, <1>4, <1>5 DEF Le
<1>9. first \in 1 .. (kept + 1) /\ last \in 1 .. (kept + 1)
  BY <1>1, <1>4, <1>5
<1>10. from <= first /\ first <= last
  BY <1>4, <1>5
<1>11. ASSUME NEW i \in from .. kept
       PROVE  (i < last => Le(nets[i].mask, m)) /\ (nets[i].mask = m => i \in first .. (last - 1))
  <2>1. i \in 1 .. kept /\ i \in Int /\ first \in Int /\ last \in Int
    BY <1>1, <1>9
  <2>2. i < first <=> Lt(nets[i].mask, m)
    BY <1>4
  <2>3. i >= first => (i < last <=> Le(nets[i].mask, m))
    BY <1>5, <2>1
  <2>4. i < last => Le(nets[i].mask, m)
    BY <2>1, <2>2, <2>3 DEF Le
  <2>5. ASSUME nets[i].mask = m PROVE i \in first .. (last - 1)
    <3>1. ~(i < first)
      BY <2>2, <2>5, LtAsymmetric
    <3>2. i < last
      BY <2>1, <2>3, <2>5, <3>1 DEF Le
    <3> QED
      BY <2>1, <3>1, <3>2
  <2> QED
    BY <2>4, <2>5
<1> QED
  BY <1>6, <1>7, <1>8, <1>9, <1>10, <1>11, Zenon

(* The ancestor masks before m, and the one just before it.                *)
Lighter(masks, m) == {x \in masks : Lt(x, m)}
PreviousMask(masks, m) == CHOOSE x \in Lighter(masks, m) : \A y \in Lighter(masks, m) : Le(y, x)

(* The mask before m is less than m.                                       *)
LEMMA PreviousIs ==
  ASSUME NEW masks, masks \subseteq Word, NEW m \in masks, Lighter(masks, m) # {}
  PROVE  /\ PreviousMask(masks, m) \in masks
         /\ ToNat(PreviousMask(masks, m)) \in Nat /\ ToNat(m) \in Nat
         /\ ToNat(PreviousMask(masks, m)) < ToNat(m)
<1> DEFINE T == Lighter(masks, m)
           x == PreviousMask(masks, m)
<1>1. T \subseteq Word /\ T # {}
  BY DEF Lighter
<1>2. x \in T
  <2>1. x = CHOOSE z \in T : \A y \in T : Le(y, z)
    BY DEF PreviousMask
  <2> HIDE DEF x, T
  <2>2. \E z \in T : \A y \in T : Le(y, z)
    BY <1>1, GreatestWord
  <2> QED
    BY <2>1, <2>2
<1> HIDE DEF x
<1>3. x \in masks /\ Lt(x, m) /\ x \in Word /\ m \in Word
  BY <1>1, <1>2 DEF Lighter
<1>4. ToNat(x) \in Nat /\ ToNat(m) \in Nat /\ ToNat(x) < ToNat(m)
  BY <1>3, LessInNumber
<1> QED
  BY <1>3, <1>4 DEF x

(* Every run is found from where the run of the mask before it ended.      *)
LEMMA RunsUnfold ==
  ASSUME Sorted, NEW masks, masks \subseteq Word
  PROVE  \A m \in masks :
           Runs(masks)[m] = RunFrom(m, IF Lighter(masks, m) = {} THEN 1 ELSE Runs(masks)[PreviousMask(masks, m)][2])
<1> DEFINE P == 1 .. (kept + 1)
           R == P \X P
           leaf == {x \in masks : Lighter(masks, x) = {}}
           next == [x \in masks |-> PreviousMask(masks, x)]
           size == [x \in masks |-> ToNat(x)]
           base == [x \in masks |-> RunFrom(x, 1)]
           h == [z \in masks \X R |-> RunFrom(z[1], z[2][2])]
           Step(f, x) == RunFrom(x, IF Lighter(masks, x) = {} THEN 1 ELSE f[PreviousMask(masks, x)][2])
           Recurs(f) == f = [x \in masks |-> Step(f, x)]
           run == CHOOSE f : Recurs(f)
<1>1. kept \in Nat /\ 1 \in P
  BY LenProperties DEF Sorted
<1>2. \A x \in masks : \A from \in P : RunFrom(x, from) \in R
  <2> SUFFICES ASSUME NEW x \in masks, NEW from \in P PROVE RunFrom(x, from) \in R
    OBVIOUS
  <2> DEFINE r == RunFrom(x, from)
  <2>1. r[1] \in P /\ r[2] \in P /\ r = <<r[1], r[2]>>
    BY RunFromIs
  <2> HIDE DEF r, P
  <2>2. r \in R
    BY <2>1
  <2> QED
    BY <2>2 DEF r
<1>3. ASSUME NEW x \in masks, x \notin leaf
      PROVE  /\ next[x] \in masks /\ size[next[x]] < size[x] /\ next[x] = PreviousMask(masks, x)
             /\ Lighter(masks, x) # {}
  BY <1>3, PreviousIs
<1>4. size \in [masks -> Nat]
  <2>1. \A x \in masks : ToNat(x) \in Nat
    BY WordOfNumber, NumberOfWord
  <2> QED
    BY <2>1
<1>5. base \in [masks -> R]
  <2> HIDE DEF R, P
  <2> QED
    BY <1>1, <1>2
<1>6. h \in [masks \X R -> R]
  <2> SUFFICES ASSUME NEW z \in masks \X R PROVE RunFrom(z[1], z[2][2]) \in R
    OBVIOUS
  <2>1. z[1] \in masks /\ z[2] \in R
    OBVIOUS
  <2>2. z[2][2] \in P
    BY <2>1
  <2> HIDE DEF R, P
  <2> QED
    BY <1>2, <2>1, <2>2
<1>7. PICK f \in [masks -> R] : AsksSmaller(masks, leaf, base, next, h, f)
  <2>1. \A x \in masks \ leaf : next[x] \in masks /\ size[next[x]] < size[x]
    BY <1>3
  <2> HIDE DEF R, P, leaf, base, next, h, size
  <2> QED
    BY <1>4, <1>5, <1>6, <2>1, RecursionExists
<1>8. ASSUME NEW x \in masks PROVE f[x] = Step(f, x)
  <2>1. f[x] = IF x \in leaf THEN base[x] ELSE h[<<x, f[next[x]]>>]
    <3> HIDE DEF leaf, base, next, h, size
    <3> QED
      BY <1>7, Zenon DEF AsksSmaller
  <2>2. CASE x \in leaf
    <3>1. base[x] = RunFrom(x, 1) /\ Lighter(masks, x) = {}
      BY <2>2
    <3> HIDE DEF leaf, base, next, h, size
    <3> QED
      BY <2>1, <2>2, <3>1, Zenon
  <2>3. CASE x \notin leaf
    <3>1. /\ next[x] \in masks /\ f[next[x]] \in R /\ next[x] = PreviousMask(masks, x)
          /\ Lighter(masks, x) # {}
      BY <1>3, <2>3
    <3>2. \A r \in R : h[<<x, r>>] = RunFrom(x, r[2])
      <4> SUFFICES ASSUME NEW r \in R PROVE h[<<x, r>>] = RunFrom(x, r[2])
        OBVIOUS
      <4>1. <<x, r>> \in masks \X R
        OBVIOUS
      <4> HIDE DEF R
      <4> QED
        BY <4>1
    <3> HIDE DEF leaf, base, next, h, size, R
    <3>3. f[x] = h[<<x, f[next[x]]>>]
      BY <2>1, <2>3, Zenon
    <3>4. f[x] = RunFrom(x, f[next[x]][2])
      BY <3>1, <3>2, <3>3, Zenon
    <3> QED
      BY <3>1, <3>4, Zenon
  <2> QED
    BY <2>2, <2>3
<1>9. Recurs(run)
  <2>1. Recurs(f)
    <3>1. f = [x \in masks |-> f[x]]
      BY <1>7
    <3> HIDE DEF Step
    <3> QED
      BY <1>8, <3>1
  <2> HIDE DEF Recurs
  <2> QED
    BY <2>1
<1>10. Runs(masks) = run
  BY Zenon DEF Runs, RunFrom, Lighter, PreviousMask
<1> HIDE DEF run
<1>11. \A x \in masks : run[x] = Step(run, x)
  <2>1. run = [x \in masks |-> Step(run, x)]
    BY <1>9
  <2> HIDE DEF Step
  <2> QED
    BY <2>1
<1> QED
  BY <1>10, <1>11, Zenon

(* Wherever the search for one mask starts, the run it finds has the mask. *)
LEMMA RunsAre ==
  ASSUME Sorted, NEW masks, masks \subseteq Word, NEW m \in masks
  PROVE  /\ \A i \in Runs(masks)[m][1] .. (Runs(masks)[m][2] - 1) : i \in 1 .. kept /\ nets[i].mask = m
         /\ Runs(masks)[m][1] \in 1 .. (kept + 1) /\ Runs(masks)[m][2] \in 1 .. (kept + 1)
         /\ Runs(masks)[m][1] <= Runs(masks)[m][2]
<1> DEFINE P == 1 .. (kept + 1)
           run == Runs(masks)
           good == {x \in masks : run[x][2] \in P}
           size == [x \in masks |-> ToNat(x)]
<1>1. kept \in Nat /\ 1 \in P
  BY LenProperties DEF Sorted
<1>2. \A x \in masks :
        run[x] = RunFrom(x, IF Lighter(masks, x) = {} THEN 1 ELSE run[PreviousMask(masks, x)][2])
  BY RunsUnfold
<1>3. size \in [masks -> Nat]
  BY WordOfNumber, NumberOfWord
<1> HIDE DEF run
<1>4. ASSUME NEW x \in masks, \A e \in masks : size[e] < size[x] => e \in good
      PROVE  \E from \in P : run[x] = RunFrom(x, from)
  <2>1. CASE Lighter(masks, x) = {}
    BY <1>1, <1>2, <2>1
  <2>2. CASE Lighter(masks, x) # {}
    <3> DEFINE prev == PreviousMask(masks, x)
    <3>1. prev \in masks /\ size[prev] < size[x]
      BY <2>2, PreviousIs
    <3>2. run[x] = RunFrom(x, run[prev][2])
      BY <1>2, <2>2
    <3> HIDE DEF prev, size
    <3>3. run[prev][2] \in P
      BY <1>4, <3>1
    <3> QED
      BY <3>2, <3>3
  <2> QED
    BY <2>1, <2>2
<1>5. \A x \in masks : x \in good
  <2>1. ASSUME NEW x \in masks, \A e \in masks : size[e] < size[x] => e \in good PROVE x \in good
    <3>1. PICK from \in P : run[x] = RunFrom(x, from)
      BY <1>4, <2>1
    <3>2. RunFrom(x, from)[2] \in P
      BY RunFromIs
    <3> QED
      BY <3>1, <3>2
  <2> HIDE DEF good, size
  <2> QED
    BY <1>3, <2>1, InductOnSize
<1>6. PICK from \in P : run[m] = RunFrom(m, from)
  <2> HIDE DEF good, size
  <2> QED
    BY <1>4, <1>5
<1>7. /\ \A i \in RunFrom(m, from)[1] .. (RunFrom(m, from)[2] - 1) : i \in 1 .. kept /\ nets[i].mask = m
      /\ RunFrom(m, from)[1] \in P /\ RunFrom(m, from)[2] \in P
      /\ RunFrom(m, from)[1] <= RunFrom(m, from)[2]
  BY RunFromIs
<1> HIDE DEF P
<1>8. /\ \A i \in run[m][1] .. (run[m][2] - 1) : i \in 1 .. kept /\ nets[i].mask = m
      /\ run[m][1] \in P /\ run[m][2] \in P /\ run[m][1] <= run[m][2]
  BY <1>6, <1>7
<1> QED
  BY <1>8 DEF run, P

(* The run of an ancestor mask is all of its kept networks.                *)
LEMMA RunsComplete ==
  ASSUME Sorted, NEW masks, masks \subseteq Word, NEW m \in masks,
         NEW k \in 1 .. kept, nets[k].mask = m
  PROVE  k \in Runs(masks)[m][1] .. (Runs(masks)[m][2] - 1)
<1> DEFINE P == 1 .. (kept + 1)
           run == Runs(masks)
           Fine(x, r) == /\ r[2] \in P
                         /\ \A i \in 1 .. kept : /\ i < r[2] => Le(nets[i].mask, x)
                                                 /\ nets[i].mask = x => i \in r[1] .. (r[2] - 1)
           good == {x \in masks : Fine(x, run[x])}
           size == [x \in masks |-> ToNat(x)]
<1>1. kept \in Nat /\ 1 \in P
  BY LenProperties DEF Sorted
<1>2. \A i \in 1 .. kept : nets[i].mask \in Word
  <2> SUFFICES ASSUME NEW i \in 1 .. kept PROVE nets[i].mask \in Word
    OBVIOUS
  <2>1. nets \in Seq(BiContiguous) /\ i \in 1 .. Len(nets)
    BY LenProperties DEF Sorted
  <2> QED
    BY <2>1, ElementOfSeq, ClassFields
<1>3. ASSUME NEW x \in masks, NEW from \in P, \A i \in 1 .. (from - 1) : Lt(nets[i].mask, x)
      PROVE  Fine(x, RunFrom(x, from))
  <2> DEFINE r == RunFrom(x, from)
  <2>1. /\ r[2] \in P /\ r[1] \in P
        /\ \A i \in from .. kept : (i < r[2] => Le(nets[i].mask, x))
                                   /\ (nets[i].mask = x => i \in r[1] .. (r[2] - 1))
    BY RunFromIs
  <2> HIDE DEF r
  <2>2. ASSUME NEW i \in 1 .. kept
        PROVE  (i < r[2] => Le(nets[i].mask, x)) /\ (nets[i].mask = x => i \in r[1] .. (r[2] - 1))
    <3>1. CASE i \in from .. kept
      BY <2>1, <3>1
    <3>2. CASE i \notin from .. kept
      BY <1>1, <3>2, <1>3, <1>2, LtAsymmetric DEF Le
    <3> QED
      BY <3>1, <3>2
  <2> QED
    BY <2>1, <2>2 DEF r
<1>4. size \in [masks -> Nat]
  BY WordOfNumber, NumberOfWord
<1>5. \A x \in masks :
        run[x] = RunFrom(x, IF Lighter(masks, x) = {} THEN 1 ELSE run[PreviousMask(masks, x)][2])
  BY RunsUnfold
<1> HIDE DEF run, Fine
<1>6. ASSUME NEW x \in masks, \A e \in masks : size[e] < size[x] => e \in good PROVE x \in good
  <2>1. CASE Lighter(masks, x) = {}
    BY <1>5, <2>1, <1>1, <1>3
  <2>2. CASE Lighter(masks, x) # {}
    <3> DEFINE prev == PreviousMask(masks, x)
    <3>1. prev \in masks /\ ToNat(prev) < ToNat(x) /\ Lt(prev, x)
      <4>1. \E z \in Lighter(masks, x) : \A y \in Lighter(masks, x) : Le(y, z)
        <5>1. Lighter(masks, x) \subseteq Word
          BY DEF Lighter
        <5> QED
          BY <2>2, <5>1, GreatestWord
      <4>2. prev \in Lighter(masks, x)
        BY <4>1 DEF PreviousMask
      <4>3. Lt(prev, x)
        BY <4>2 DEF Lighter
      <4> QED
        BY <2>2, <4>3, PreviousIs
    <3> DEFINE from == run[prev][2]
    <3>2. run[x] = RunFrom(x, from)
      BY <1>5, <2>2
    <3> HIDE DEF prev
    <3>3. prev \in good
      <4>1. size[prev] < size[x]
        BY <3>1
      <4> HIDE DEF good, size
      <4> QED
        BY <1>6, <3>1, <4>1
    <3>4. from \in P /\ \A i \in 1 .. kept : i < from => Le(nets[i].mask, prev)
      BY <3>3 DEF Fine
    <3> HIDE DEF from
    <3>5. \A i \in 1 .. (from - 1) : Lt(nets[i].mask, x)
      <4> SUFFICES ASSUME NEW i \in 1 .. (from - 1) PROVE Lt(nets[i].mask, x)
        OBVIOUS
      <4>1. i \in 1 .. kept /\ i < from
        BY <1>1, <3>4
      <4>2. nets[i].mask = prev \/ Lt(nets[i].mask, prev)
        BY <3>4, <4>1 DEF Le
      <4>3. nets[i].mask \in Word /\ prev \in Word /\ x \in Word
        BY <1>2, <3>1, <4>1
      <4> QED
        BY <3>1, <4>2, <4>3, LtTransitive
    <3>6. Fine(x, RunFrom(x, from))
      BY <1>3, <3>4, <3>5
    <3> QED
      BY <3>2, <3>6, Zenon
  <2> QED
    BY <2>1, <2>2
<1>7. m \in good
  <2> HIDE DEF good, size
  <2> QED
    BY <1>4, <1>6, InductOnSize
<1>8. Fine(m, run[m])
  BY <1>7
<1> QED
  BY <1>8 DEF Fine, run

(* Where the search for an address in the run of a mask is sound.          *)
LEMMA RunIsSearched ==
  ASSUME Sorted, NEW masks, masks \subseteq Word, NEW m \in masks
  PROVE  /\ Searchable(nets, Runs(masks)[m][1], Runs(masks)[m][2])
         /\ \A i \in Runs(masks)[m][1] .. (Runs(masks)[m][2] - 1) :
              i \in 1 .. kept /\ nets[i].mask = m /\ nets[i] \in BiContiguous
<1> DEFINE r == Runs(masks)[m]
<1>1. /\ \A i \in r[1] .. (r[2] - 1) : i \in 1 .. kept /\ nets[i].mask = m
      /\ r[1] \in 1 .. (kept + 1) /\ r[2] \in 1 .. (kept + 1) /\ r[1] <= r[2]
  BY RunsAre
<1> HIDE DEF r
<1>2. nets \in Seq(BiContiguous) /\ kept \in Nat /\ \A i \in 1 .. kept : i \in 1 .. Len(nets)
  BY LenProperties DEF Sorted
<1>3. \A i \in 1 .. kept : nets[i] \in BiContiguous /\ nets[i].addr \in Word
  BY <1>2, ElementOfSeq, ClassFields
<1>4. r[1] \in Nat /\ r[2] \in Nat
  BY <1>1, <1>2
<1> QED
  BY <1>1, <1>3, <1>4 DEF r, Searchable

(* What is dropped lies in a network that is kept.                         *)
LEMMA ContainedIsCovered ==
  ASSUME Sorted, shapes \subseteq Word, NEW n \in BiContiguous, IsContained(n, AncestorMasks(n.mask))
  PROVE  \E i \in 1 .. kept : Addrs(n) \subseteq Addrs(nets[i])
<1> DEFINE masks == AncestorMasks(n.mask)
<1>1. masks \subseteq Word /\ \A m \in masks : m \subseteq n.mask
  BY DEF AncestorMasks
<1> HIDE DEF masks
<1>2. PICK m \in masks : AddressAt(nets, Runs(masks)[m][1], Runs(masks)[m][2], n.addr \cap m) # {}
  BY Zenon DEF IsContained, masks
<1>3. PICK i \in Runs(masks)[m][1] .. (Runs(masks)[m][2] - 1) : nets[i].addr = n.addr \cap m
  <2> DEFINE from == Runs(masks)[m][1]
             to == Runs(masks)[m][2]
             target == n.addr \cap m
  <2>1. Searchable(nets, from, to)
    BY <1>1, RunIsSearched
  <2>2. target \in Word
    BY <1>1, ClassFields DEF Word
  <2>3. PICK j : j \in AddressAt(nets, from, to, target)
    BY <1>2
  <2> HIDE DEF from, to, target
  <2>4. \A i \in AddressAt(nets, from, to, target) : i \in from .. (to - 1) /\ nets[i].addr = target
    BY <2>1, <2>2, AddressAtIs
  <2> QED
    BY <2>3, <2>4 DEF from, to, target
<1>4. i \in 1 .. kept /\ nets[i].mask = m
  BY <1>1, <1>3, RunsAre
<1>5. nets[i] \in BiContiguous
  <2>1. i \in 1 .. Len(nets) /\ nets \in Seq(BiContiguous)
    BY <1>4, LenProperties DEF Sorted
  <2> QED
    BY <2>1, ElementOfSeq
<1>6. nets[i] \in Network /\ n \in Network
  BY <1>5, ClassFields
<1>7. Contains(nets[i], n)
  BY <1>1, <1>3, <1>4 DEF Contains
<1> QED
  BY <1>4, <1>6, <1>7, ContainsIsInclusion

(* The networks of a chunk are taken or dropped one after the other.       *)
LEMMA SurvivorsUnfold ==
  ASSUME NEW Q, NEW chunk \in Seq(Q), NEW masks
  PROVE  \E keep :
           /\ Survivors(chunk, masks) = keep[Len(chunk)]
           /\ \A i \in 0 .. Len(chunk) :
                keep[i] = IF i = 0 THEN <<>>
                          ELSE IF IsContained(chunk[i], masks) THEN keep[i - 1]
                               ELSE Append(keep[i - 1], chunk[i])
<1> DEFINE n == Len(chunk)
           D == 0 .. n
           R == Seq(Q)
           Out(i) == IsContained(chunk[i], masks)
           leaf == {0}
           next == [i \in D |-> i - 1]
           size == [i \in D |-> i]
           base == [i \in D |-> <<>>]
           h == [x \in D \X R |-> IF x[1] = 0 THEN <<>>
                                  ELSE IF Out(x[1]) THEN x[2] ELSE Append(x[2], chunk[x[1]])]
           Step(f, i) == IF i = 0 THEN <<>>
                         ELSE IF Out(i) THEN f[i - 1] ELSE Append(f[i - 1], chunk[i])
           Recurs(f) == f = [i \in 0 .. Len(chunk) |-> Step(f, i)]
           keep == CHOOSE f : Recurs(f)
<1>1. n \in Nat /\ \A i \in 1 .. n : chunk[i] \in Q
  BY LenProperties, ElementOfSeq
<1>2. Survivors(chunk, masks) = keep[n]
  BY Zenon DEF Survivors
<1>3. \A i \in D : i # 0 => i \in 1 .. n /\ i - 1 \in D /\ next[i] = i - 1 /\ size[i - 1] < size[i]
  <2> HIDE DEF n
  <2> QED
    BY <1>1
<1>4. size \in [D -> Nat] /\ base \in [D -> R]
  <2> HIDE DEF n
  <2> QED
    BY <1>1, EmptySeq
<1>5. \A i \in D : \A r \in R :
        /\ h[<<i, r>>] \in R
        /\ h[<<i, r>>] = IF i = 0 THEN <<>> ELSE IF Out(i) THEN r ELSE Append(r, chunk[i])
  <2> SUFFICES ASSUME NEW i \in D, NEW r \in R
               PROVE  /\ h[<<i, r>>] \in R
                      /\ h[<<i, r>>] = IF i = 0 THEN <<>> ELSE IF Out(i) THEN r ELSE Append(r, chunk[i])
    OBVIOUS
  <2>1. h[<<i, r>>] = IF i = 0 THEN <<>> ELSE IF Out(i) THEN r ELSE Append(r, chunk[i])
    <3> HIDE DEF D, R, Out
    <3> QED
      OBVIOUS
  <2>2. CASE i = 0
    BY <2>1, <2>2, EmptySeq
  <2>3. CASE i # 0
    <3>1. chunk[i] \in Q
      BY <1>1, <1>3, <2>3
    <3>2. Append(r, chunk[i]) \in R
      BY <3>1, AppendProperties
    <3> HIDE DEF h, R, Out
    <3> QED
      BY <2>1, <2>3, <3>2
  <2> QED
    BY <2>2, <2>3
<1>6. h \in [D \X R -> R]
  <2>1. h = [x \in D \X R |-> h[x]]
    OBVIOUS
  <2>2. \A x \in D \X R : x[1] \in D /\ x[2] \in R /\ x = <<x[1], x[2]>>
    OBVIOUS
  <2> HIDE DEF h, D, R
  <2>3. \A x \in D \X R : h[x] \in R
    BY <1>5, <2>2
  <2> QED
    BY <2>1, <2>3
<1>7. PICK f \in [D -> R] : AsksSmaller(D, leaf, base, next, h, f)
  <2>1. \A i \in D \ leaf : next[i] \in D /\ size[next[i]] < size[i]
    BY <1>3
  <2> HIDE DEF D, R, leaf, base, next, h, size
  <2> QED
    BY <1>4, <1>6, <2>1, RecursionExists
<1>8. ASSUME NEW i \in D PROVE f[i] = Step(f, i)
  <2>1. f[i] = IF i \in leaf THEN base[i] ELSE h[<<i, f[next[i]]>>]
    <3> HIDE DEF D, R, leaf, base, next, h, size
    <3> QED
      BY <1>7, Zenon DEF AsksSmaller
  <2>2. CASE i = 0
    BY <2>1, <2>2
  <2>3. CASE i # 0
    <3>1. i \notin leaf /\ next[i] = i - 1 /\ i - 1 \in D
      BY <1>3, <2>3
    <3>2. f[i - 1] \in R
      BY <3>1
    <3> HIDE DEF D, R, leaf, base, next, h, size, Out
    <3>3. f[i] = h[<<i, f[i - 1]>>]
      BY <2>1, <3>1, Zenon
    <3> QED
      BY <1>5, <2>3, <3>2, <3>3
  <2> QED
    BY <2>2, <2>3
<1>9. Recurs(keep)
  <2>1. Recurs(f)
    <3>1. f = [i \in D |-> f[i]]
      BY <1>7
    <3> HIDE DEF Step
    <3> QED
      BY <1>8, <3>1
  <2> HIDE DEF Recurs
  <2> QED
    BY <2>1
<1> HIDE DEF keep
<1>10. \A i \in D : keep[i] = Step(keep, i)
  <2>1. keep = [i \in D |-> Step(keep, i)]
    BY <1>9
  <2> HIDE DEF Step
  <2> QED
    BY <2>1
<1> HIDE DEF D
<1> QED
  BY <1>2, <1>10, Zenon DEF n, D

(* What is left of a chunk: p picks its networks, in their order, every    *)
(* one that is not contained and no other.                                 *)
Picks(p, r, chunk, i, masks) ==
  /\ p \in [1 .. Len(r) -> 1 .. i]
  /\ \A j, k \in 1 .. Len(r) : j < k => p[j] < p[k]
  /\ \A k \in 1 .. Len(r) : /\ r[k] = chunk[p[k]] /\ ~IsContained(chunk[p[k]], masks)
                            /\ k <= p[k] /\ p[k] <= i - Len(r) + k
  /\ \A j \in 1 .. i : IsContained(chunk[j], masks) \/ \E k \in 1 .. Len(r) : p[k] = j
  /\ (\A j \in 1 .. i : ~IsContained(chunk[j], masks)) => Len(r) = i

LEMMA SurvivorsPicked ==
  ASSUME NEW Q, NEW chunk \in Seq(Q), NEW masks
  PROVE  /\ Survivors(chunk, masks) \in Seq(Q) /\ Len(Survivors(chunk, masks)) <= Len(chunk)
         /\ \E p : Picks(p, Survivors(chunk, masks), chunk, Len(chunk), masks)
<1> DEFINE n == Len(chunk)
           D == 0 .. n
           Out(i) == IsContained(chunk[i], masks)
           size == [i \in D |-> i]
           Some(i, r) == r \in Seq(Q) /\ Len(r) <= i /\ \E p : Picks(p, r, chunk, i, masks)
<1>1. n \in Nat /\ \A i \in 1 .. n : chunk[i] \in Q
  BY LenProperties, ElementOfSeq
<1>2. PICK keep :
        /\ Survivors(chunk, masks) = keep[n]
        /\ \A i \in D : keep[i] = IF i = 0 THEN <<>>
                                  ELSE IF Out(i) THEN keep[i - 1] ELSE Append(keep[i - 1], chunk[i])
  BY SurvivorsUnfold
<1> DEFINE good == {i \in D : Some(i, keep[i])}
<1>3. size \in [D -> Nat] /\ \A i \in D : i # 0 => i \in 1 .. n /\ i - 1 \in D /\ size[i - 1] < size[i]
  <2> HIDE DEF n
  <2> QED
    BY <1>1
<1>4. ASSUME NEW i \in D, \A e \in D : size[e] < size[i] => e \in good PROVE i \in good
  <2>1. CASE i = 0
    <3>1. keep[i] = <<>> /\ Len(<<>>) = 0 /\ <<>> \in Seq(Q)
      BY <1>2, <2>1, EmptySeq
    <3> DEFINE p == [k \in 1 .. 0 |-> k]
    <3>2. p \in [1 .. 0 -> 1 .. 0] /\ \A k : k \notin 1 .. 0
      OBVIOUS
    <3> HIDE DEF p
    <3>3. Picks(p, <<>>, chunk, 0, masks)
      BY <3>1, <3>2 DEF Picks
    <3>4. Some(i, keep[i])
      BY <2>1, <3>1, <3>3
    <3> QED
      BY <3>4
  <2>2. CASE i # 0
    <3> DEFINE k == keep[i - 1]
    <3>1. i \in 1 .. n /\ Some(i - 1, k)
      <4>1. i - 1 \in good
        <5> HIDE DEF good, size, D
        <5> QED
          BY <1>3, <1>4, <2>2
      <4> QED
        BY <1>3, <2>2, <4>1
    <3>2. keep[i] = IF Out(i) THEN k ELSE Append(k, chunk[i])
      BY <1>2, <2>2
    <3> HIDE DEF k
    <3>3. PICK p : Picks(p, k, chunk, i - 1, masks)
      BY <3>1
    <3> DEFINE l == Len(k)
    <3>4. i \in Nat /\ i >= 1 /\ l \in Nat /\ l <= i - 1 /\ k \in Seq(Q) /\ chunk[i] \in Q
      BY <1>1, <3>1, LenProperties
    <3>5. \A j \in 1 .. i : j \in 1 .. (i - 1) \/ j = i
      BY <3>4
    <3>6. CASE Out(i)
      <4>1. Picks(p, k, chunk, i, masks)
        BY <3>3, <3>4, <3>5, <3>6 DEF Picks
      <4> QED
        BY <3>2, <3>4, <3>6, <4>1
    <3>7. CASE ~Out(i)
      <4> DEFINE r == Append(k, chunk[i])
                 q == [j \in 1 .. (l + 1) |-> IF j = l + 1 THEN i ELSE p[j]]
      <4>1. /\ r \in Seq(Q) /\ Len(r) = l + 1 /\ r[l + 1] = chunk[i]
            /\ \A j \in 1 .. l : r[j] = k[j]
        BY <3>4, AppendProperties
      <4> HIDE DEF r
      <4>a. \A j \in 1 .. l : p[j] \in 1 .. (i - 1)
        BY <3>3 DEF Picks
      <4>b. \A j \in 1 .. (l + 1) : j \in 1 .. l \/ j = l + 1
        BY <3>4
      <4>c. \A j \in 1 .. (l + 1) : q[j] = IF j = l + 1 THEN i ELSE p[j]
        OBVIOUS
      <4>d. q = [j \in 1 .. (l + 1) |-> q[j]] /\ l + 1 \in 1 .. (l + 1) /\ \A j \in 1 .. l : j \in 1 .. (l + 1)
        BY <3>4
      <4> HIDE DEF q, l
      <4>2. /\ \A j \in 1 .. l : p[j] \in 1 .. (i - 1) /\ q[j] = p[j]
            /\ q[l + 1] = i
            /\ \A j \in 1 .. (l + 1) : j \in 1 .. l \/ j = l + 1
        BY <3>4, <4>a, <4>b, <4>c, <4>d
      <4>3. q \in [1 .. Len(r) -> 1 .. i]
        <5>1. \A j \in 1 .. (l + 1) : q[j] \in 1 .. i
          BY <3>4, <4>2
        <5> QED
          BY <4>1, <4>d, <5>1
      <4>4. ASSUME NEW j \in 1 .. Len(r), NEW h \in 1 .. Len(r), j < h PROVE q[j] < q[h]
        <5>1. \A a, b \in 1 .. l : a < b => p[a] < p[b]
          BY <3>3 DEF Picks, l
        <5>2. j \in 1 .. l
          BY <3>4, <4>1, <4>4
        <5>3. q[j] = p[j] /\ p[j] < i
          BY <3>4, <4>2, <5>2
        <5>4. CASE h \in 1 .. l
          BY <4>2, <4>4, <5>1, <5>2, <5>3, <5>4
        <5>5. CASE h = l + 1
          BY <4>2, <5>3, <5>5
        <5> QED
          BY <4>1, <4>2, <5>4, <5>5
      <4>5. \A h \in 1 .. Len(r) : /\ r[h] = chunk[q[h]] /\ ~Out(q[h])
                                   /\ h <= q[h] /\ q[h] <= i - Len(r) + h
        BY <3>3, <3>4, <3>7, <4>1, <4>2 DEF Picks, l
      <4>6. \A j \in 1 .. i : Out(j) \/ \E h \in 1 .. Len(r) : q[h] = j
        <5>1. \A j \in 1 .. (i - 1) : Out(j) \/ \E h \in 1 .. l : p[h] = j
          BY <3>3 DEF Picks, l
        <5> HIDE DEF Out
        <5>2. ASSUME NEW j \in 1 .. (i - 1), ~Out(j) PROVE \E h \in 1 .. (l + 1) : q[h] = j
          <6>1. PICK h \in 1 .. l : p[h] = j
            BY <5>1, <5>2
          <6> QED
            BY <4>2, <4>d, <6>1
        <5> QED
          BY <3>5, <4>1, <4>2, <4>d, <5>2, Zenon
      <4>7. (\A j \in 1 .. i : ~Out(j)) => Len(r) = i
        BY <3>3, <3>4, <4>1 DEF Picks, l
      <4>8. Picks(q, r, chunk, i, masks)
        BY <4>3, <4>4, <4>5, <4>6, <4>7 DEF Picks
      <4>9. r \in Seq(Q) /\ Len(r) <= i
        BY <3>4, <4>1 DEF l
      <4> QED
        BY <3>2, <3>7, <4>8, <4>9 DEF r
    <3> QED
      BY <3>6, <3>7
  <2> QED
    BY <2>1, <2>2
<1>5. n \in good
  <2>1. n \in D
    BY <1>1
  <2> HIDE DEF D, size, good
  <2> QED
    BY <1>3, <1>4, <2>1, InductOnSize
<1> QED
  BY <1>2, <1>5

(* They name the addresses of the networks that are not contained.         *)
LEMMA SurvivorsAre ==
  ASSUME NEW Q, Q \subseteq BiContiguous, NEW chunk \in Seq(Q), NEW masks
  PROVE  /\ Survivors(chunk, masks) \in Seq(Q)
         /\ Len(Survivors(chunk, masks)) <= Len(chunk)
         /\ UnionOf(Survivors(chunk, masks)) \subseteq UnionOf(chunk)
         /\ \A j \in 1 .. Len(chunk) :
              IsContained(chunk[j], masks) \/ Addrs(chunk[j]) \subseteq UnionOf(Survivors(chunk, masks))
<1> DEFINE r == Survivors(chunk, masks)
<1>1. r \in Seq(Q) /\ Len(r) <= Len(chunk) /\ \E p : Picks(p, r, chunk, Len(chunk), masks)
  BY SurvivorsPicked
<1> HIDE DEF r
<1>2. PICK p : Picks(p, r, chunk, Len(chunk), masks)
  BY <1>1
<1>3. DOMAIN r = 1 .. Len(r) /\ DOMAIN chunk = 1 .. Len(chunk)
  BY <1>1, LenProperties
<1>4. UnionOf(r) \subseteq UnionOf(chunk)
  <2>1. \A k \in 1 .. Len(r) : p[k] \in 1 .. Len(chunk) /\ r[k] = chunk[p[k]]
    BY <1>2 DEF Picks
  <2> QED
    BY <1>3, <2>1, Zenon DEF UnionOf
<1>5. \A j \in 1 .. Len(chunk) : IsContained(chunk[j], masks) \/ Addrs(chunk[j]) \subseteq UnionOf(r)
  <2>1. ASSUME NEW j \in 1 .. Len(chunk), ~IsContained(chunk[j], masks)
        PROVE  \E k \in 1 .. Len(r) : r[k] = chunk[j]
    BY <1>2, <2>1 DEF Picks
  <2> QED
    BY <1>3, <2>1, Zenon DEF UnionOf
<1> QED
  BY <1>1, <1>4, <1>5 DEF r

(* A chunk holds networks of one mask.                                     *)
LEMMA ChunkIs ==
  ASSUME nets \in Seq(BiContiguous), kept \in Nat, kept < Len(nets)
  PROVE  /\ ChunkEnd \in (kept + 2) .. (Len(nets) + 1)
         /\ \A h \in (kept + 1) .. (ChunkEnd - 1) : nets[h].mask = nets[kept + 1].mask
<1> DEFINE m == nets[kept + 1].mask
           n == Len(nets)
           a == kept + 1
           Alike(h) == nets[h].mask = m
           T == {j \in (kept + 2) .. (n + 1) :
                   j - (kept + 1) <= ChunkSize /\ \A h \in (kept + 1) .. (j - 1) : Alike(h)}
           Right(j) == /\ j - (kept + 1) <= ChunkSize
                       /\ \A h \in (kept + 1) .. (j - 1) : Alike(h)
                       /\ j <= n /\ Alike(j) => j - (kept + 1) = ChunkSize
<1>1. n \in Nat
  BY LenProperties
<1>2. ChunkSize \in Nat \ {0}
  BY ChunkAssumption
<1>3. Alike(kept + 1)
  OBVIOUS
<1>4. ChunkEnd = CHOOSE j \in (kept + 2) .. (n + 1) : Right(j)
  BY DEF ChunkEnd
<1> HIDE DEF Alike, n
<1>5. kept + 2 \in T
  BY <1>1, <1>2, <1>3 DEF n
<1>6. PICK j \in T : \A k \in T : k <= j
  <2>1. T \subseteq 0 .. (n + 1) /\ n + 1 \in Nat
    BY <1>1
  <2> HIDE DEF T
  <2> QED
    BY <1>5, <2>1, GreatestNatural
<1>7. j \in (kept + 2) .. (n + 1) /\ j - (kept + 1) <= ChunkSize /\ \A h \in (kept + 1) .. (j - 1) : Alike(h)
  OBVIOUS
<1>8. ASSUME j <= n, Alike(j) PROVE j - (kept + 1) = ChunkSize
  <2> SUFFICES ASSUME j - (kept + 1) # ChunkSize PROVE FALSE
    OBVIOUS
  <2>1. /\ j + 1 \in (kept + 2) .. (n + 1) /\ (j + 1) - (kept + 1) <= ChunkSize
        /\ \A h \in (kept + 1) .. ((j + 1) - 1) : h \in (kept + 1) .. (j - 1) \/ h = j
        /\ ~(j + 1 <= j)
    BY <1>1, <1>2, <1>7, <1>8
  <2>2. j + 1 \in T
    BY <1>7, <1>8, <2>1
  <2> HIDE DEF T
  <2> QED
    BY <1>6, <2>1, <2>2
<1>9. Right(j)
  BY <1>7, <1>8
<1>10. ChunkEnd \in (kept + 2) .. (n + 1) /\ Right(ChunkEnd)
  <2> HIDE DEF Right
  <2> QED
    BY <1>4, <1>7, <1>9
<1> QED
  BY <1>10 DEF n, Alike

-----------------------------------------------------------------------------
(* Pieces put together                                                     *)

(* A sequence ascending by a key.                                          *)
Rising(s, K) == \A i, j \in 1 .. Len(s) : i < j => ~Lt(K[s[j]], K[s[i]])

(* The keys, as functions.                                                 *)
HighKey == [n \in BiContiguous |-> High(n.mask)]
MaskKey == [n \in BiContiguous |-> n.mask]

(* The two orders are those of the two keys.                               *)
LEMMA KeysAre ==
  /\ HighKey \in [BiContiguous -> Word] /\ MaskKey \in [BiContiguous -> Word]
  /\ \A n \in BiContiguous : HighKey[n] = High(n.mask) /\ MaskKey[n] = n.mask
  /\ \A s \in Seq(BiContiguous) :
       (HighAscends(s) <=> Rising(s, HighKey)) /\ (MaskAscends(s) <=> Rising(s, MaskKey))
<1>1. \A n \in BiContiguous : n.mask \in Word /\ High(n.mask) \in Word
  <2>1. \A n \in BiContiguous : n.mask \in Word
    BY ClassFields
  <2> QED
    BY <2>1 DEF High, Word
<1>2. HighKey \in [BiContiguous -> Word] /\ MaskKey \in [BiContiguous -> Word]
  BY <1>1 DEF HighKey, MaskKey
<1>3. \A n \in BiContiguous : HighKey[n] = High(n.mask) /\ MaskKey[n] = n.mask
  BY DEF HighKey, MaskKey
<1>4. ASSUME NEW s \in Seq(BiContiguous)
      PROVE  (HighAscends(s) <=> Rising(s, HighKey)) /\ (MaskAscends(s) <=> Rising(s, MaskKey))
  <2>1. DOMAIN s = 1 .. Len(s) /\ \A i \in 1 .. Len(s) : s[i] \in BiContiguous
    BY LenProperties, ElementOfSeq
  <2>2. \A i \in 1 .. Len(s) : HighKey[s[i]] = High(s[i].mask) /\ MaskKey[s[i]] = s[i].mask
    BY <1>3, <2>1, Zenon
  <2>3. HighAscends(s) <=> Rising(s, HighKey)
    BY <2>1, <2>2 DEF HighAscends, Rising
  <2>4. MaskAscends(s) <=> Rising(s, MaskKey)
    BY <2>1, <2>2 DEF MaskAscends, Rising
  <2> QED
    BY <2>3, <2>4
<1> QED
  BY <1>2, <1>3, <1>4

(* A search in what ascends finds the end of what is below a bound.        *)
LEMMA BoundsAre ==
  ASSUME NEW K \in [BiContiguous -> Word], NEW s \in Seq(BiContiguous), NEW m \in Word,
         NEW to \in 1 .. (Len(s) + 1),
         \A i, j \in 1 .. (to - 1) : i < j => ~Lt(K[s[j]], K[s[i]])
  PROVE  /\ SearchFirst(s, 1, to, {n \in BiContiguous : Lt(K[n], m)}) \in 1 .. to
         /\ \A i \in 1 .. (to - 1) :
              i < SearchFirst(s, 1, to, {n \in BiContiguous : Lt(K[n], m)}) <=> Lt(K[s[i]], m)
         /\ SearchFirst(s, 1, to, {n \in BiContiguous : Le(K[n], m)}) \in 1 .. to
         /\ \A i \in 1 .. (to - 1) :
              i < SearchFirst(s, 1, to, {n \in BiContiguous : Le(K[n], m)}) <=> Le(K[s[i]], m)
<1> DEFINE A == {n \in BiContiguous : Lt(K[n], m)}
           B == {n \in BiContiguous : Le(K[n], m)}
<1>1. Len(s) \in Nat /\ 1 \in Nat /\ to \in Nat /\ 1 <= to
  BY LenProperties
<1>2. ASSUME NEW i \in 1 .. (to - 1)
      PROVE  /\ s[i] \in BiContiguous /\ K[s[i]] \in Word
             /\ s[i] \in A <=> Lt(K[s[i]], m)
             /\ s[i] \in B <=> Le(K[s[i]], m)
  <2>1. i \in 1 .. Len(s)
    BY <1>1
  <2>2. s[i] \in BiContiguous
    BY <2>1, ElementOfSeq
  <2> QED
    BY <2>2
<1>3. ASSUME NEW i \in 1 .. (to - 1), NEW j \in 1 .. (to - 1), i < j
      PROVE  K[s[i]] = K[s[j]] \/ Lt(K[s[i]], K[s[j]])
  BY <1>2, <1>3, LtTotal
<1>4. \A i, j \in 1 .. (to - 1) : i < j /\ s[j] \in A => s[i] \in A
  <2> SUFFICES ASSUME NEW i \in 1 .. (to - 1), NEW j \in 1 .. (to - 1), i < j, Lt(K[s[j]], m)
               PROVE  Lt(K[s[i]], m)
    BY <1>2
  <2> QED
    BY <1>2, <1>3, LtTransitive
<1>5. \A i, j \in 1 .. (to - 1) : i < j /\ s[j] \in B => s[i] \in B
  <2> SUFFICES ASSUME NEW i \in 1 .. (to - 1), NEW j \in 1 .. (to - 1), i < j, Le(K[s[j]], m)
               PROVE  Le(K[s[i]], m)
    BY <1>2
  <2>1. K[s[j]] = m \/ Lt(K[s[j]], m)
    BY DEF Le
  <2>2. K[s[i]] = m \/ Lt(K[s[i]], m)
    BY <1>2, <1>3, <2>1, LtTransitive
  <2> QED
    BY <2>2 DEF Le
<1> HIDE DEF A, B
<1>6. SearchFirst(s, 1, to, A) \in 1 .. to /\ \A i \in 1 .. (to - 1) : i < SearchFirst(s, 1, to, A) <=> s[i] \in A
  BY <1>1, <1>4, SearchIsExact
<1>7. SearchFirst(s, 1, to, B) \in 1 .. to /\ \A i \in 1 .. (to - 1) : i < SearchFirst(s, 1, to, B) <=> s[i] \in B
  BY <1>1, <1>5, SearchIsExact
<1> DEFINE u == SearchFirst(s, 1, to, A)
           v == SearchFirst(s, 1, to, B)
<1> HIDE DEF u, v
<1>8. \A i \in 1 .. (to - 1) : (i < u <=> Lt(K[s[i]], m)) /\ (i < v <=> Le(K[s[i]], m))
  BY <1>2, <1>6, <1>7, Zenon DEF u, v
<1> QED
  BY <1>6, <1>7, <1>8 DEF u, v, A, B

(* What three pieces joined hold.                                          *)
LEMMA JoinIs ==
  ASSUME NEW a \in Seq(BiContiguous), NEW b \in Seq(BiContiguous), NEW c \in Seq(BiContiguous)
  PROVE  /\ a \o b \o c \in Seq(BiContiguous)
         /\ Len(a \o b \o c) = Len(a) + Len(b) + Len(c)
         /\ Len(a) \in Nat /\ Len(b) \in Nat /\ Len(c) \in Nat
         /\ \A i \in 1 .. Len(a) : (a \o b \o c)[i] = a[i]
         /\ \A i \in 1 .. Len(b) : (a \o b \o c)[Len(a) + i] = b[i]
         /\ \A i \in 1 .. Len(c) : (a \o b \o c)[Len(a) + Len(b) + i] = c[i]
         /\ UnionOf(a \o b \o c) = UnionOf(a) \cup UnionOf(b) \cup UnionOf(c)
<1> DEFINE ab == a \o b
<1>1. Len(a) \in Nat /\ Len(b) \in Nat /\ Len(c) \in Nat
  BY LenProperties
<1>2. /\ ab \in Seq(BiContiguous) /\ Len(ab) = Len(a) + Len(b)
      /\ \A i \in 1 .. Len(a) + Len(b) : ab[i] = IF i <= Len(a) THEN a[i] ELSE b[i - Len(a)]
  BY ConcatProperties
<1>3. UnionOf(ab) = UnionOf(a) \cup UnionOf(b)
  BY UnionOfBoth
<1>4. a \o b \o c = ab \o c
  OBVIOUS
<1> HIDE DEF ab
<1> DEFINE r == ab \o c
<1>5. /\ r \in Seq(BiContiguous) /\ Len(r) = Len(ab) + Len(c)
      /\ \A i \in 1 .. Len(ab) + Len(c) : r[i] = IF i <= Len(ab) THEN ab[i] ELSE c[i - Len(ab)]
  <2>1. ab \in Seq(BiContiguous)
    BY <1>2
  <2> QED
    BY <2>1, ConcatProperties
<1>6. UnionOf(r) = UnionOf(ab) \cup UnionOf(c)
  BY <1>2, UnionOfBoth
<1> HIDE DEF r
<1>7. \A i \in 1 .. Len(a) : r[i] = a[i]
  BY <1>1, <1>2, <1>5
<1>8. \A i \in 1 .. Len(b) : r[Len(a) + i] = b[i]
  <2> SUFFICES ASSUME NEW i \in 1 .. Len(b) PROVE r[Len(a) + i] = b[i]
    OBVIOUS
  <2>1. /\ Len(a) + i \in 1 .. Len(a) + Len(b) /\ Len(a) + i \in 1 .. Len(ab) + Len(c)
        /\ Len(a) + i <= Len(ab) /\ ~(Len(a) + i <= Len(a)) /\ Len(a) + i - Len(a) = i
    BY <1>1, <1>2
  <2> QED
    BY <1>2, <1>5, <2>1
<1>9. \A i \in 1 .. Len(c) : r[Len(a) + Len(b) + i] = c[i]
  <2> SUFFICES ASSUME NEW i \in 1 .. Len(c) PROVE r[Len(a) + Len(b) + i] = c[i]
    OBVIOUS
  <2>1. /\ Len(a) + Len(b) + i \in 1 .. Len(ab) + Len(c)
        /\ ~(Len(a) + Len(b) + i <= Len(ab)) /\ Len(a) + Len(b) + i - Len(ab) = i
    BY <1>1, <1>2
  <2> QED
    BY <1>5, <2>1
<1>10. Len(r) = Len(a) + Len(b) + Len(c)
  BY <1>2, <1>5
<1>11. UnionOf(r) = UnionOf(a) \cup UnionOf(b) \cup UnionOf(c)
  BY <1>3, <1>6, Zenon
<1>12. a \o b \o c = r
  BY <1>4 DEF r
<1> QED
  BY <1>1, <1>5, <1>7, <1>8, <1>9, <1>10, <1>11, <1>12, Zenon

(* Pieces one above the other, each ascending, ascend joined.              *)
LEMMA JoinAscends ==
  ASSUME NEW K \in [BiContiguous -> Word],
         NEW a \in Seq(BiContiguous), NEW b \in Seq(BiContiguous), NEW c \in Seq(BiContiguous),
         Rising(a, K), Rising(b, K), Rising(c, K),
         \A i \in 1 .. Len(a) : \A j \in 1 .. Len(b) : ~Lt(K[b[j]], K[a[i]]),
         \A i \in 1 .. Len(b) : \A j \in 1 .. Len(c) : ~Lt(K[c[j]], K[b[i]]),
         \A i \in 1 .. Len(a) : \A j \in 1 .. Len(c) : ~Lt(K[c[j]], K[a[i]])
  PROVE  Rising(a \o b \o c, K)
<1> DEFINE r == a \o b \o c
           x == Len(a)
           y == Len(b)
           z == Len(c)
<1>1. /\ Len(r) = x + y + z /\ x \in Nat /\ y \in Nat /\ z \in Nat
      /\ \A i \in 1 .. x : r[i] = a[i]
      /\ \A i \in 1 .. y : r[x + i] = b[i]
      /\ \A i \in 1 .. z : r[x + y + i] = c[i]
  BY JoinIs
<1> HIDE DEF r
<1>2. /\ \A i, j \in 1 .. x : i < j => ~Lt(K[a[j]], K[a[i]])
      /\ \A i, j \in 1 .. y : i < j => ~Lt(K[b[j]], K[b[i]])
      /\ \A i, j \in 1 .. z : i < j => ~Lt(K[c[j]], K[c[i]])
  BY DEF Rising
<1>3. /\ \A i \in 1 .. x : \A j \in 1 .. y : ~Lt(K[b[j]], K[a[i]])
      /\ \A i \in 1 .. y : \A j \in 1 .. z : ~Lt(K[c[j]], K[b[i]])
      /\ \A i \in 1 .. x : \A j \in 1 .. z : ~Lt(K[c[j]], K[a[i]])
  OBVIOUS
<1> HIDE DEF x, y, z
<1>4. SUFFICES ASSUME NEW i \in 1 .. (x + y + z), NEW j \in 1 .. (x + y + z), i < j
               PROVE  ~Lt(K[r[j]], K[r[i]])
  BY <1>1 DEF Rising, r
<1> DEFINE InA(k) == k \in 1 .. x /\ r[k] = a[k]
           InB(k) == k - x \in 1 .. y /\ r[k] = b[k - x]
           InC(k) == k - (x + y) \in 1 .. z /\ r[k] = c[k - (x + y)]
<1>5. ASSUME NEW k \in 1 .. (x + y + z) PROVE InA(k) \/ InB(k) \/ InC(k)
  <2>1. CASE k <= x
    BY <1>1, <2>1
  <2>2. CASE k > x /\ k <= x + y
    <3>1. k - x \in 1 .. y /\ x + (k - x) = k
      BY <1>1, <2>2
    <3> QED
      BY <1>1, <3>1
  <2>3. CASE k > x + y
    <3>1. k - (x + y) \in 1 .. z /\ x + y + (k - (x + y)) = k
      BY <1>1, <2>3
    <3> QED
      BY <1>1, <3>1
  <2> QED
    BY <1>1, <2>1, <2>2, <2>3
<1>6. CASE InA(i)
  <2>1. CASE InA(j)
    BY <1>2, <1>4, <1>6, <2>1
  <2>2. CASE InB(j)
    BY <1>3, <1>6, <2>2
  <2>3. CASE InC(j)
    BY <1>3, <1>6, <2>3
  <2> HIDE DEF InA, InB, InC
  <2> QED
    BY <1>5, <2>1, <2>2, <2>3
<1>7. CASE InB(i)
  <2>1. ~InA(j)
    BY <1>1, <1>4, <1>7
  <2>2. CASE InB(j)
    <3>1. i - x < j - x
      BY <1>1, <1>4
    <3> QED
      BY <1>2, <1>7, <2>2, <3>1
  <2>3. CASE InC(j)
    BY <1>3, <1>7, <2>3
  <2> HIDE DEF InA, InB, InC
  <2> QED
    BY <1>5, <2>1, <2>2, <2>3
<1>8. CASE InC(i)
  <2>1. ~InA(j) /\ ~InB(j)
    BY <1>1, <1>4, <1>8
  <2>2. CASE InC(j)
    <3>1. i - (x + y) < j - (x + y)
      BY <1>1, <1>4
    <3> QED
      BY <1>2, <1>8, <2>2, <3>1
  <2> HIDE DEF InA, InB, InC
  <2> QED
    BY <1>5, <2>1, <2>2
<1> HIDE DEF InA, InB, InC
<1> QED
  BY <1>4, <1>5, <1>6, <1>7, <1>8

(* A slice in three pieces.                                                *)
LEMMA PiecesAre ==
  ASSUME NEW s \in Seq(BiContiguous), NEW from \in 1 .. (Len(s) + 1), NEW to \in from .. (Len(s) + 1)
  PROVE  /\ SubSeq(s, 1, from - 1) \in Seq(BiContiguous) /\ Len(SubSeq(s, 1, from - 1)) = from - 1
         /\ SubSeq(s, from, to - 1) \in Seq(BiContiguous) /\ Len(SubSeq(s, from, to - 1)) = to - from
         /\ SubSeq(s, to, Len(s)) \in Seq(BiContiguous) /\ Len(SubSeq(s, to, Len(s))) = Len(s) + 1 - to
         /\ \A i \in 1 .. (from - 1) : SubSeq(s, 1, from - 1)[i] = s[i]
         /\ \A i \in 1 .. (to - from) : SubSeq(s, from, to - 1)[i] = s[from - 1 + i]
         /\ \A i \in 1 .. (Len(s) + 1 - to) : SubSeq(s, to, Len(s))[i] = s[to - 1 + i]
         /\ s = SubSeq(s, 1, from - 1) \o SubSeq(s, from, to - 1) \o SubSeq(s, to, Len(s))
<1> DEFINE n == Len(s)
           a == SubSeq(s, 1, from - 1)
           b == SubSeq(s, from, to - 1)
           c == SubSeq(s, to, n)
<1>1. n \in Nat /\ from \in Int /\ to \in Int
  BY LenProperties
<1>2. a \in Seq(BiContiguous) /\ Len(a) = from - 1 /\ \A i \in 1 .. (from - 1) : a[i] = s[i]
  <2>1. /\ 1 <= 1 /\ 1 <= (from - 1) + 1 /\ from - 1 <= Len(s) /\ from - 1 \in Int /\ 1 \in Int
        /\ (from - 1) - 1 + 1 = from - 1 /\ \A i \in 1 .. (from - 1) : 1 + i - 1 = i
    BY <1>1
  <2>2. /\ a \in Seq(BiContiguous) /\ Len(a) = (from - 1) - 1 + 1
        /\ \A i \in 1 .. ((from - 1) - 1 + 1) : a[i] = s[1 + i - 1]
    BY <2>1, SliceIs
  <2> HIDE DEF a
  <2> QED
    BY <2>1, <2>2
<1>3. b \in Seq(BiContiguous) /\ Len(b) = to - from /\ \A i \in 1 .. (to - from) : b[i] = s[from - 1 + i]
  <2>1. /\ 1 <= from /\ from <= (to - 1) + 1 /\ to - 1 <= Len(s) /\ to - 1 \in Int /\ from \in Int
        /\ (to - 1) - from + 1 = to - from /\ \A i \in 1 .. (to - from) : from + i - 1 = from - 1 + i
    BY <1>1
  <2>2. /\ b \in Seq(BiContiguous) /\ Len(b) = (to - 1) - from + 1
        /\ \A i \in 1 .. ((to - 1) - from + 1) : b[i] = s[from + i - 1]
    BY <2>1, SliceIs
  <2> HIDE DEF b
  <2> QED
    BY <2>1, <2>2
<1>4. c \in Seq(BiContiguous) /\ Len(c) = n + 1 - to /\ \A i \in 1 .. (n + 1 - to) : c[i] = s[to - 1 + i]
  <2>1. /\ 1 <= to /\ to <= n + 1 /\ n <= Len(s) /\ n \in Int /\ to \in Int
        /\ n - to + 1 = n + 1 - to /\ \A i \in 1 .. (n + 1 - to) : to + i - 1 = to - 1 + i
    BY <1>1
  <2>2. /\ c \in Seq(BiContiguous) /\ Len(c) = n - to + 1
        /\ \A i \in 1 .. (n - to + 1) : c[i] = s[to + i - 1]
    BY <2>1, SliceIs
  <2> HIDE DEF c
  <2> QED
    BY <2>1, <2>2
<1>5. s = a \o b \o c
  <2>1. /\ 1 \in 1 .. (Len(s) + 1) /\ from - 1 \in (1 - 1) .. Len(s) /\ to - 1 \in (from - 1) .. Len(s)
        /\ to - 1 \in (1 - 1) .. Len(s) /\ Len(s) \in (to - 1) .. Len(s)
        /\ (from - 1) + 1 = from /\ (to - 1) + 1 = to
    BY <1>1
  <2>2. SubSeq(s, 1, from - 1) \o SubSeq(s, (from - 1) + 1, to - 1) = SubSeq(s, 1, to - 1)
    BY <2>1, ConcatAdjacentSubSeq
  <2>3. SubSeq(s, 1, to - 1) \o SubSeq(s, (to - 1) + 1, Len(s)) = SubSeq(s, 1, Len(s))
    BY <2>1, ConcatAdjacentSubSeq
  <2>4. SubSeq(s, 1, Len(s)) = s
    BY SubSeqFull
  <2>5. a \o b = SubSeq(s, 1, to - 1)
    BY <2>1, <2>2, Zenon
  <2> QED
    BY <2>1, <2>3, <2>4, <2>5, Zenon
<1> QED
  BY <1>2, <1>3, <1>4, <1>5 DEF n

(* A piece of an ascending sequence ascends.                               *)
LEMMA PiecesAscend ==
  ASSUME NEW s \in Seq(BiContiguous), NEW K, Rising(s, K),
         NEW from \in 1 .. (Len(s) + 1), NEW to \in from .. (Len(s) + 1)
  PROVE  /\ Rising(SubSeq(s, 1, from - 1), K)
         /\ Rising(SubSeq(s, to, Len(s)), K)
<1> DEFINE n == Len(s)
           a == SubSeq(s, 1, from - 1)
           c == SubSeq(s, to, n)
<1>1. n \in Nat /\ from \in Int /\ to \in Int
  BY LenProperties
<1>2. /\ Len(a) = from - 1 /\ \A i \in 1 .. (from - 1) : a[i] = s[i]
      /\ Len(c) = n + 1 - to /\ \A i \in 1 .. (n + 1 - to) : c[i] = s[to - 1 + i]
  BY PiecesAre
<1>3. \A i, j \in 1 .. n : i < j => ~Lt(K[s[j]], K[s[i]])
  BY DEF Rising
<1> HIDE DEF n, a, c
<1>4. Rising(a, K)
  <2> SUFFICES ASSUME NEW i \in 1 .. (from - 1), NEW j \in 1 .. (from - 1), i < j
               PROVE  ~Lt(K[a[j]], K[a[i]])
    BY <1>2 DEF Rising
  <2>1. i \in 1 .. n /\ j \in 1 .. n
    BY <1>1 DEF n
  <2> QED
    BY <1>2, <1>3, <2>1
<1>5. Rising(c, K)
  <2> SUFFICES ASSUME NEW i \in 1 .. (n + 1 - to), NEW j \in 1 .. (n + 1 - to), i < j
               PROVE  ~Lt(K[c[j]], K[c[i]])
    BY <1>2 DEF Rising
  <2>1. to - 1 + i \in 1 .. n /\ to - 1 + j \in 1 .. n /\ to - 1 + i < to - 1 + j
    BY <1>1
  <2> QED
    BY <1>2, <1>3, <2>1
<1> QED
  BY <1>4, <1>5 DEF a, c, n

-----------------------------------------------------------------------------
(* One level of the sweep                                                  *)

(* s with its positions from .. to - 1 replaced by t.                      *)
Replaced(s, from, to, t) == SubSeq(s, 1, from - 1) \o t \o SubSeq(s, to, Len(s))

(* The level's networks lie from from on, below to; those of shorter high  *)
(* runs before them, those of longer ones after them.                      *)
Parted(s, from, to, m) ==
  /\ from \in 1 .. (Len(s) + 1) /\ to \in from .. (Len(s) + 1)
  /\ \A i \in 1 .. (from - 1) : Lt(HighKey[s[i]], m)
  /\ \A i \in from .. (to - 1) : s[i] \in AtLevel(m)
  /\ \A i \in to .. Len(s) : Lt(m, HighKey[s[i]])

(* r is no longer than s and names its addresses.                          *)
Kept(r, s) == r \in Seq(BiContiguous) /\ Len(r) <= Len(s) /\ UnionOf(r) = UnionOf(s)

(* Replacing a slice by a shorter one with its addresses keeps those of    *)
(* the whole.                                                              *)
LEMMA ReplacedKeeps ==
  ASSUME NEW s \in Seq(BiContiguous),
         NEW from \in 1 .. (Len(s) + 1), NEW to \in from .. (Len(s) + 1),
         NEW t \in Seq(BiContiguous),
         Len(t) <= to - from, UnionOf(t) = UnionOf(SubSeq(s, from, to - 1))
  PROVE  Kept(Replaced(s, from, to, t), s)
<1> DEFINE a == SubSeq(s, 1, from - 1)
           b == SubSeq(s, from, to - 1)
           c == SubSeq(s, to, Len(s))
           r == a \o t \o c
           joined == a \o b \o c
<1>1. /\ a \in Seq(BiContiguous) /\ Len(a) = from - 1 /\ b \in Seq(BiContiguous)
      /\ c \in Seq(BiContiguous) /\ Len(c) = Len(s) + 1 - to
  BY PiecesAre
<1>2. s = joined
  BY PiecesAre, Zenon
<1>3. Len(s) \in Nat /\ Len(t) \in Nat
  BY LenProperties
<1>4. UnionOf(t) = UnionOf(b) /\ Replaced(s, from, to, t) = r
  BY DEF Replaced
<1> HIDE DEF a, b, c
<1>5. UnionOf(joined) = UnionOf(a) \cup UnionOf(b) \cup UnionOf(c)
  BY <1>1, JoinIs
<1>6. r \in Seq(BiContiguous) /\ Len(r) = Len(a) + Len(t) + Len(c)
  <2>1. a \in Seq(BiContiguous) /\ t \in Seq(BiContiguous) /\ c \in Seq(BiContiguous)
    BY <1>1
  <2> QED
    BY <2>1, JoinIs
<1>7. UnionOf(r) = UnionOf(a) \cup UnionOf(t) \cup UnionOf(c)
  BY <1>1, JoinIs
<1> HIDE DEF r, joined
<1>8. Len(r) <= Len(s)
  BY <1>1, <1>3, <1>6
<1>9. UnionOf(r) = UnionOf(s)
  BY <1>2, <1>4, <1>5, <1>7, Zenon
<1> QED
  BY <1>4, <1>6, <1>8, <1>9, Zenon DEF Kept

(* Replacing a level's networks by others of the level keeps the parts.    *)
LEMMA ReplacedParts ==
  ASSUME NEW s \in Seq(BiContiguous), HighAscends(s), NEW m \in Word,
         NEW from, NEW to, Parted(s, from, to, m), NEW t \in Seq(AtLevel(m))
  PROVE  /\ HighAscends(Replaced(s, from, to, t))
         /\ Parted(Replaced(s, from, to, t), from, from + Len(t), m)
<1> DEFINE a == SubSeq(s, 1, from - 1)
           c == SubSeq(s, to, Len(s))
           n == Len(s)
           Q == Seq(BiContiguous)
           r == a \o t \o c
<1>0. from \in 1 .. (n + 1) /\ to \in from .. (n + 1) /\ n \in Nat /\ from \in Int /\ to \in Int
  BY LenProperties DEF Parted
<1>1. /\ a \in Q /\ Len(a) = from - 1 /\ c \in Q /\ Len(c) = n + 1 - to
      /\ \A i \in 1 .. (from - 1) : a[i] = s[i]
      /\ \A i \in 1 .. (n + 1 - to) : c[i] = s[to - 1 + i]
  BY <1>0, PiecesAre
<1>2. t \in Q /\ Len(t) \in Nat /\ \A i \in 1 .. Len(t) : t[i] \in AtLevel(m) /\ HighKey[t[i]] = m
  <2>1. AtLevel(m) \subseteq BiContiguous
    BY DEF AtLevel
  <2>2. t \in Q
    BY <2>1, SeqMonotonic
  <2>3. \A i \in 1 .. Len(t) : t[i] \in AtLevel(m)
    BY ElementOfSeq
  <2>4. \A x \in AtLevel(m) : HighKey[x] = m
    BY KeysAre DEF AtLevel
  <2> QED
    BY <2>2, <2>3, <2>4, LenProperties
<1>3. Rising(a, HighKey) /\ Rising(c, HighKey)
  <2>1. Rising(s, HighKey)
    BY KeysAre
  <2> QED
    BY <1>0, <2>1, PiecesAscend
<1>4. /\ \A i \in 1 .. (from - 1) : Lt(HighKey[a[i]], m) /\ HighKey[a[i]] \in Word
      /\ \A i \in 1 .. (n + 1 - to) : Lt(m, HighKey[c[i]]) /\ HighKey[c[i]] \in Word
  <2>1. \A i \in 1 .. (from - 1) : Lt(HighKey[a[i]], m)
    BY <1>1 DEF Parted
  <2>2. \A i \in 1 .. (n + 1 - to) : Lt(m, HighKey[c[i]])
    <3>1. \A i \in 1 .. (n + 1 - to) : to - 1 + i \in to .. Len(s)
      BY <1>0
    <3> QED
      BY <1>1, <3>1 DEF Parted
  <2>3. \A i \in 1 .. (from - 1) : a[i] \in BiContiguous
    BY <1>1, ElementOfSeq
  <2>4. \A i \in 1 .. (n + 1 - to) : c[i] \in BiContiguous
    BY <1>1, ElementOfSeq
  <2>5. \A x \in BiContiguous : HighKey[x] \in Word
    BY KeysAre
  <2> QED
    BY <2>1, <2>2, <2>3, <2>4, <2>5
<1>5. Replaced(s, from, to, t) = r
  BY DEF Replaced
<1>6. /\ Len(r) = (from - 1) + Len(t) + (n + 1 - to) /\ r \in Q
      /\ \A i \in 1 .. (from - 1) : r[i] = a[i]
      /\ \A i \in 1 .. Len(t) : r[from - 1 + i] = t[i]
      /\ \A i \in 1 .. (n + 1 - to) : r[from - 1 + Len(t) + i] = c[i]
  <2> HIDE DEF a, c
  <2>1. a \in Seq(BiContiguous) /\ t \in Seq(BiContiguous) /\ c \in Seq(BiContiguous)
    BY <1>1, <1>2
  <2>2. r \in Seq(BiContiguous) /\ Len(r) = Len(a) + Len(t) + Len(c)
    BY <2>1, JoinIs
  <2>3. /\ \A i \in 1 .. Len(a) : r[i] = a[i]
        /\ \A i \in 1 .. Len(t) : r[Len(a) + i] = t[i]
        /\ \A i \in 1 .. Len(c) : r[Len(a) + Len(t) + i] = c[i]
    BY <2>1, JoinIs
  <2> HIDE DEF r
  <2> QED
    BY <1>1, <2>2, <2>3
<1> HIDE DEF a, c
<1>7. Rising(r, HighKey)
  <2>1. \A x \in Word : ~Lt(x, x)
    BY LtAsymmetric
  <2>2. Rising(t, HighKey)
    BY <1>2, <2>1 DEF Rising
  <2>3. \A i \in 1 .. Len(a) : \A j \in 1 .. Len(t) : ~Lt(HighKey[t[j]], HighKey[a[i]])
    BY <1>1, <1>2, <1>4, LtAsymmetric
  <2>4. \A i \in 1 .. Len(t) : \A j \in 1 .. Len(c) : ~Lt(HighKey[c[j]], HighKey[t[i]])
    BY <1>1, <1>2, <1>4, LtAsymmetric
  <2>5. \A i \in 1 .. Len(a) : \A j \in 1 .. Len(c) : ~Lt(HighKey[c[j]], HighKey[a[i]])
    <3> SUFFICES ASSUME NEW i \in 1 .. Len(a), NEW j \in 1 .. Len(c)
                 PROVE  ~Lt(HighKey[c[j]], HighKey[a[i]])
      OBVIOUS
    <3>1. Lt(HighKey[a[i]], m) /\ HighKey[a[i]] \in Word /\ Lt(m, HighKey[c[j]]) /\ HighKey[c[j]] \in Word
      BY <1>1, <1>4
    <3>2. Lt(HighKey[a[i]], HighKey[c[j]])
      BY <3>1, LtTransitive
    <3> QED
      BY <3>1, <3>2, LtAsymmetric
  <2>6. HighKey \in [BiContiguous -> Word]
    BY KeysAre
  <2> HIDE DEF r
  <2>7. r = a \o t \o c
    BY DEF r
  <2> HIDE DEF Q
  <2>8. a \in Seq(BiContiguous) /\ t \in Seq(BiContiguous) /\ c \in Seq(BiContiguous)
    BY <1>1, <1>2 DEF Q
  <2>9. Rising(a \o t \o c, HighKey)
    BY <1>3, <2>2, <2>3, <2>4, <2>5, <2>6, <2>8, JoinAscends
  <2> QED
    BY <2>7, <2>9
<1> HIDE DEF r
<1>8. Parted(r, from, from + Len(t), m)
  <2> DEFINE edge == from + Len(t)
  <2>1. from \in 1 .. (Len(r) + 1) /\ edge \in from .. (Len(r) + 1)
    BY <1>0, <1>2, <1>6
  <2>2. \A i \in 1 .. (from - 1) : Lt(HighKey[r[i]], m)
    BY <1>4, <1>6
  <2>3. \A i \in from .. (edge - 1) : r[i] \in AtLevel(m)
    <3> SUFFICES ASSUME NEW i \in from .. (edge - 1) PROVE r[i] \in AtLevel(m)
      OBVIOUS
    <3>1. i - (from - 1) \in 1 .. Len(t) /\ from - 1 + (i - (from - 1)) = i
      BY <1>0, <1>2
    <3> QED
      BY <1>2, <1>6, <3>1
  <2>4. \A i \in edge .. Len(r) : Lt(m, HighKey[r[i]])
    <3> SUFFICES ASSUME NEW i \in edge .. Len(r) PROVE Lt(m, HighKey[r[i]])
      OBVIOUS
    <3>1. /\ i - (from - 1 + Len(t)) \in 1 .. (n + 1 - to)
          /\ from - 1 + Len(t) + (i - (from - 1 + Len(t))) = i
      BY <1>0, <1>2, <1>6
    <3> QED
      BY <1>4, <1>6, <3>1
  <2>5. edge = from + Len(t)
    OBVIOUS
  <2> HIDE DEF edge
  <2>6. Parted(r, from, edge, m)
    BY <2>1, <2>2, <2>3, <2>4, Zenon DEF Parted
  <2> QED
    BY <2>5, <2>6, Zenon
<1>9. HighAscends(r)
  BY <1>6, <1>7, KeysAre
<1> QED
  BY <1>5, <1>8, <1>9

(* Every level has its mask.                                               *)
LEMMA LevelMaskIs ==
  ASSUME NEW p \in 0 .. HighW
  PROVE  HighMask(p) \in Word
BY DEF HighMask, Word

(* The two bounds of a level split an ascending sequence.                  *)
LEMMA BoundsHigh ==
  ASSUME NEW s \in Seq(BiContiguous), NEW m \in Word, NEW to \in 1 .. (Len(s) + 1),
         \A i, j \in 1 .. (to - 1) : i < j => ~Lt(HighKey[s[j]], HighKey[s[i]])
  PROVE  /\ LowerBoundHighMask(s, to, m) \in 1 .. to
         /\ \A i \in 1 .. (to - 1) : i < LowerBoundHighMask(s, to, m) <=> Lt(HighKey[s[i]], m)
         /\ UpperBoundHighMask(s, to, m) \in 1 .. to
         /\ \A i \in 1 .. (to - 1) : i < UpperBoundHighMask(s, to, m) <=> Le(HighKey[s[i]], m)
<1>1. \A n \in BiContiguous : HighKey[n] = High(n.mask)
  BY KeysAre
<1>2. HighMaskBelow(m) = {n \in BiContiguous : Lt(HighKey[n], m)}
  BY <1>1, Zenon DEF HighMaskBelow
<1>3. HighMaskUpTo(m) = {n \in BiContiguous : Le(HighKey[n], m)}
  BY <1>1, Zenon DEF HighMaskUpTo
<1>4. LowerBoundHighMask(s, to, m) = SearchFirst(s, 1, to, {n \in BiContiguous : Lt(HighKey[n], m)})
  BY <1>2, Zenon DEF LowerBoundHighMask
<1>5. UpperBoundHighMask(s, to, m) = SearchFirst(s, 1, to, {n \in BiContiguous : Le(HighKey[n], m)})
  BY <1>3, Zenon DEF UpperBoundHighMask
<1>6. HighKey \in [BiContiguous -> Word]
  BY KeysAre
<1> DEFINE A == {n \in BiContiguous : Lt(HighKey[n], m)}
           B == {n \in BiContiguous : Le(HighKey[n], m)}
           u == SearchFirst(s, 1, to, A)
           v == SearchFirst(s, 1, to, B)
<1>7. u \in 1 .. to /\ v \in 1 .. to
  BY <1>6, BoundsAre
<1>8. \A i \in 1 .. (to - 1) : i < u <=> Lt(HighKey[s[i]], m)
  BY <1>6, BoundsAre
<1>9. \A i \in 1 .. (to - 1) : i < v <=> Le(HighKey[s[i]], m)
  BY <1>6, BoundsAre
<1>10. LowerBoundHighMask(s, to, m) = u /\ UpperBoundHighMask(s, to, m) = v
  BY <1>4, <1>5
<1> HIDE DEF u, v
<1> QED
  BY <1>7, <1>8, <1>9, <1>10, Zenon

(* The searches cut out the level.                                         *)
LEMMA LevelIsParted ==
  ASSUME NEW s \in Seq(BiContiguous), HighAscends(s), NEW m \in Word
  PROVE  Parted(s, LowerBoundHighMask(s, Len(s) + 1, m), UpperBoundHighMask(s, Len(s) + 1, m), m)
<1> DEFINE n == Len(s)
           from == LowerBoundHighMask(s, n + 1, m)
           to == UpperBoundHighMask(s, n + 1, m)
<1>1. n \in Nat /\ n + 1 \in 1 .. (n + 1) /\ (n + 1) - 1 = n
  BY LenProperties
<1>2. \A i, j \in 1 .. n : i < j => ~Lt(HighKey[s[j]], HighKey[s[i]])
  BY KeysAre DEF Rising
<1>3. /\ from \in 1 .. (n + 1) /\ to \in 1 .. (n + 1)
      /\ \A i \in 1 .. n : i < from <=> Lt(HighKey[s[i]], m)
      /\ \A i \in 1 .. n : i < to <=> Le(HighKey[s[i]], m)
  <2> HIDE DEF from, to
  <2>1. /\ LowerBoundHighMask(s, n + 1, m) \in 1 .. (n + 1)
        /\ \A i \in 1 .. ((n + 1) - 1) : i < LowerBoundHighMask(s, n + 1, m) <=> Lt(HighKey[s[i]], m)
        /\ UpperBoundHighMask(s, n + 1, m) \in 1 .. (n + 1)
        /\ \A i \in 1 .. ((n + 1) - 1) : i < UpperBoundHighMask(s, n + 1, m) <=> Le(HighKey[s[i]], m)
    BY <1>1, <1>2, BoundsHigh
  <2> HIDE DEF n
  <2> QED
    BY <1>1, <2>1 DEF from, to
<1>4. \A i \in 1 .. n : s[i] \in BiContiguous /\ HighKey[s[i]] \in Word /\ HighKey[s[i]] = High(s[i].mask)
  BY ElementOfSeq, KeysAre
<1> HIDE DEF from, to, n
<1>5. \A i \in 1 .. n : i < from => i < to
  BY <1>3 DEF Le
<1>6. from <= to
  <2> SUFFICES ASSUME ~(from <= to) PROVE FALSE
    OBVIOUS
  <2>1. to \in 1 .. n /\ to < from /\ ~(to < to)
    BY <1>1, <1>3
  <2> QED
    BY <1>5, <2>1
<1>7. \A i \in 1 .. (from - 1) : Lt(HighKey[s[i]], m)
  <2>1. \A i \in 1 .. (from - 1) : i \in 1 .. n /\ i < from
    BY <1>1, <1>3
  <2> QED
    BY <1>3, <2>1
<1>8. \A i \in from .. (to - 1) : s[i] \in AtLevel(m)
  <2> SUFFICES ASSUME NEW i \in from .. (to - 1) PROVE s[i] \in AtLevel(m)
    OBVIOUS
  <2>1. i \in 1 .. n /\ ~(i < from) /\ i < to
    BY <1>1, <1>3
  <2>2. ~Lt(HighKey[s[i]], m) /\ Le(HighKey[s[i]], m)
    BY <1>3, <2>1
  <2>3. HighKey[s[i]] = m
    BY <2>2 DEF Le
  <2> QED
    BY <1>4, <2>1, <2>3 DEF AtLevel
<1>9. \A i \in to .. n : Lt(m, HighKey[s[i]])
  <2> SUFFICES ASSUME NEW i \in to .. n PROVE Lt(m, HighKey[s[i]])
    OBVIOUS
  <2>1. i \in 1 .. n /\ ~(i < to)
    BY <1>1, <1>3
  <2>2. HighKey[s[i]] # m /\ ~Lt(HighKey[s[i]], m)
    BY <1>3, <2>1 DEF Le
  <2> QED
    BY <1>4, <2>1, <2>2, LtTotal
<1>10. from \in 1 .. (n + 1) /\ to \in from .. (n + 1)
  BY <1>1, <1>3, <1>6
<1>11. Parted(s, from, to, m)
  BY <1>7, <1>8, <1>9, <1>10 DEF Parted, n
<1> QED
  BY <1>11 DEF from, to, n

(* The block of a level holds networks of that level.                      *)
LEMMA LevelSlice ==
  ASSUME NEW s \in Seq(BiContiguous), NEW from, NEW to, NEW m, Parted(s, from, to, m)
  PROVE  SubSeq(s, from, to - 1) \in Seq(AtLevel(m)) /\ Len(SubSeq(s, from, to - 1)) = to - from
<1>1. from \in 1 .. (Len(s) + 1) /\ to \in from .. (Len(s) + 1) /\ Len(s) \in Nat
  BY LenProperties DEF Parted
<1>2. from \in Int /\ to - 1 \in Int /\ \A i \in from .. (to - 1) : s[i] \in AtLevel(m)
  BY <1>1 DEF Parted
<1>3. SubSeq(s, from, to - 1) \in Seq(AtLevel(m))
  BY <1>2, SubSeqProperties
<1> QED
  BY <1>1, <1>3, PiecesAre

(* The rows of a level are reduced where they are.                         *)
LEMMA LowRowsKeep ==
  ASSUME NEW s \in Seq(BiContiguous), HighAscends(s), NEW p \in 0 .. HighW
  PROVE  LET from == LowerBoundHighMask(s, Len(s) + 1, HighMask(p))
             to == UpperBoundHighMask(s, Len(s) + 1, HighMask(p))
             rows == AggregateLowRows[SubSeq(s, from, to - 1)]
         IN  /\ Kept(Replaced(s, from, to, rows), s)
             /\ HighAscends(Replaced(s, from, to, rows))
             /\ Parted(Replaced(s, from, to, rows), from, from + Len(rows), HighMask(p))
<1> DEFINE m == HighMask(p)
           from == LowerBoundHighMask(s, Len(s) + 1, m)
           to == UpperBoundHighMask(s, Len(s) + 1, m)
           part == SubSeq(s, from, to - 1)
           rows == AggregateLowRows[part]
<1>1. m \in Word
  BY LevelMaskIs
<1> HIDE DEF m
<1>2. Parted(s, from, to, m)
  BY <1>1, LevelIsParted
<1> HIDE DEF from, to
<1>3. part \in Seq(AtLevel(m)) /\ Len(part) = to - from
  BY <1>2, LevelSlice
<1> HIDE DEF part
<1>4. rows \in Seq(AtLevel(m)) /\ Len(rows) <= Len(part) /\ UnionOf(rows) = UnionOf(part)
  BY <1>3, LowRowsAre
<1> HIDE DEF rows
<1>5. rows \in Seq(BiContiguous)
  <2>1. AtLevel(m) \subseteq BiContiguous
    BY DEF AtLevel
  <2> QED
    BY <1>4, <2>1, SeqMonotonic
<1>6. from \in 1 .. (Len(s) + 1) /\ to \in from .. (Len(s) + 1)
  BY <1>2 DEF Parted
<1>7. Len(rows) <= to - from /\ UnionOf(rows) = UnionOf(SubSeq(s, from, to - 1))
  BY <1>3, <1>4 DEF part
<1>8. Kept(Replaced(s, from, to, rows), s)
  BY <1>5, <1>6, <1>7, ReplacedKeeps
<1>9. /\ HighAscends(Replaced(s, from, to, rows))
      /\ Parted(Replaced(s, from, to, rows), from, from + Len(rows), m)
  BY <1>1, <1>2, <1>4, ReplacedParts
<1> QED
  BY <1>8, <1>9 DEF rows, part, from, to, m

(* The slice once buddy rows are merged: what lies below the level w that  *)
(* the merged rows join, what is to be sorted, and what lies above the     *)
(* level m they left.                                                      *)
InPieces(s, to, m, w, rows, next, back, end) ==
  LET before == SubSeq(next, 1, back - 1)
      mid    == SubSeq(next, back, end - 1)
      after  == SubSeq(next, end, Len(next))
  IN  /\ Kept(next, s)
      /\ rows \in Seq(AtLevel(m) \cup AtLevel(w))
      /\ back \in 1 .. (Len(next) + 1) /\ end \in back .. (Len(next) + 1)
      /\ before \in Seq(BiContiguous) /\ mid \in Seq(BiContiguous) /\ after \in Seq(BiContiguous)
      /\ Len(before) = back - 1 /\ Len(mid) = end - back /\ Len(after) = Len(s) + 1 - to
      /\ back - 1 <= Len(s)
      /\ \A i \in 1 .. Len(before) : before[i] = s[i] /\ Lt(HighKey[before[i]], w)
      /\ \A i \in 1 .. Len(after) : after[i] = s[to - 1 + i] /\ Lt(m, HighKey[after[i]])
      /\ mid \in Seq({n \in BiContiguous : ~Lt(HighKey[n], w) /\ ~Lt(m, HighKey[n])})

(* Merging buddy rows leaves the slice so.                                 *)
LEMMA HighBuddiesPieces ==
  ASSUME NEW s \in Seq(BiContiguous), HighAscends(s), NEW p \in 1 .. HighW,
         NEW from, NEW to, Parted(s, from, to, HighMask(p)),
         NEW rows, rows = MergeHighBuddies(SubSeq(s, from, to - 1), p),
         NEW next, next = Replaced(s, from, to, rows),
         NEW back, back = LowerBoundHighMask(next, from, HighMask(p - 1)),
         NEW end, end = from + Len(rows)
  PROVE  /\ end = to => next = s
         /\ InPieces(s, to, HighMask(p), HighMask(p - 1), rows, next, back, end)
<1> DEFINE m == HighMask(p)
           w == HighMask(p - 1)
           part == SubSeq(s, from, to - 1)
           a == SubSeq(s, 1, from - 1)
           c == SubSeq(s, to, Len(s))
           P == AtLevel(m) \cup AtLevel(w)
<1>1. m \in Word /\ w \in Word /\ Lt(w, m)
  BY LevelFields
<1>2. from \in 1 .. (Len(s) + 1) /\ to \in from .. (Len(s) + 1) /\ Len(s) \in Nat
  BY LenProperties DEF Parted
<1>3. part \in Seq(AtLevel(m)) /\ Len(part) = to - from
  BY LevelSlice
<1>4. rows \in Seq(P) /\ Len(rows) <= Len(part) /\ UnionOf(rows) = UnionOf(part)
      /\ (Len(rows) = Len(part) => rows = part)
  BY <1>3, HighBuddiesAre
<1>5. rows \in Seq(BiContiguous) /\ \A i \in 1 .. Len(rows) : rows[i] \in P
  <2>1. P \subseteq BiContiguous
    BY DEF AtLevel
  <2>2. rows \in Seq(BiContiguous)
    BY <1>4, <2>1, SeqMonotonic
  <2> HIDE DEF P
  <2> QED
    BY <1>4, <2>2, ElementOfSeq
<1>6. a \in Seq(BiContiguous) /\ c \in Seq(BiContiguous) /\ Len(a) = from - 1 /\ Len(c) = Len(s) + 1 - to
      /\ (\A i \in 1 .. (from - 1) : a[i] = s[i])
      /\ (\A i \in 1 .. (Len(s) + 1 - to) : c[i] = s[to - 1 + i])
  BY <1>2, PiecesAre
<1>7. s = a \o part \o c
  BY <1>2, PiecesAre, Zenon
<1>8. next = a \o rows \o c
  BY DEF Replaced
<1>9. from + Len(rows) = to => next = s
  <2> SUFFICES ASSUME from + Len(rows) = to PROVE next = s
    OBVIOUS
  <2>1. Len(rows) = to - from
    BY <1>2, <1>5, LenProperties
  <2>2. rows = part
    BY <1>3, <1>4, <2>1
  <2> QED
    BY <1>7, <1>8, <2>2, Zenon
<1>10. Kept(next, s)
  <2>1. Len(rows) <= to - from /\ UnionOf(rows) = UnionOf(SubSeq(s, from, to - 1))
    BY <1>3, <1>4
  <2> QED
    BY <1>2, <1>5, <2>1, ReplacedKeeps
<1> DEFINE k == Len(rows)
           z == Len(s) + 1 - to
<1>11. /\ next \in Seq(BiContiguous) /\ Len(next) = (from - 1) + k + z /\ k \in Nat /\ z \in Nat
  <2> HIDE DEF a, c, P, part
  <2>1. /\ a \o rows \o c \in Seq(BiContiguous) /\ Len(a \o rows \o c) = Len(a) + Len(rows) + Len(c)
        /\ Len(rows) \in Nat /\ Len(c) \in Nat
    <3>1. a \in Seq(BiContiguous) /\ rows \in Seq(BiContiguous) /\ c \in Seq(BiContiguous)
      BY <1>5, <1>6
    <3> QED
      BY <3>1, JoinIs
  <2> QED
    BY <1>6, <1>8, <2>1
<1>12. /\ \A i \in 1 .. (from - 1) : next[i] = s[i]
       /\ \A i \in 1 .. k : next[from - 1 + i] = rows[i]
       /\ \A i \in 1 .. z : next[from - 1 + k + i] = s[to - 1 + i]
  <2> HIDE DEF a, c
  <2>1. /\ \A i \in 1 .. Len(a) : (a \o rows \o c)[i] = a[i]
        /\ \A i \in 1 .. Len(rows) : (a \o rows \o c)[Len(a) + i] = rows[i]
        /\ \A i \in 1 .. Len(c) : (a \o rows \o c)[Len(a) + Len(rows) + i] = c[i]
    <3>1. a \in Seq(BiContiguous) /\ rows \in Seq(BiContiguous) /\ c \in Seq(BiContiguous)
      BY <1>5, <1>6
    <3> QED
      BY <3>1, JoinIs
  <2> DEFINE joined == a \o rows \o c
  <2>2. next = joined
    BY <1>8
  <2> HIDE DEF joined
  <2>3. /\ \A i \in 1 .. Len(a) : next[i] = a[i]
        /\ \A i \in 1 .. Len(rows) : next[Len(a) + i] = rows[i]
        /\ \A i \in 1 .. Len(c) : next[Len(a) + Len(rows) + i] = c[i]
    BY <2>1, <2>2, Zenon DEF joined
  <2> QED
    BY <1>6, <2>3
<1>13. /\ \A i \in 1 .. Len(s) : HighKey[s[i]] \in Word
       /\ \A i, j \in 1 .. Len(s) : i < j => ~Lt(HighKey[s[j]], HighKey[s[i]])
  BY ElementOfSeq, KeysAre DEF Rising
<1> HIDE DEF k, z, P, m, w, part, a, c
<1>14. \A i, j \in 1 .. (from - 1) : i < j => ~Lt(HighKey[next[j]], HighKey[next[i]])
  <2>1. \A i \in 1 .. (from - 1) : i \in 1 .. Len(s)
    BY <1>2
  <2> QED
    BY <1>12, <1>13, <2>1
<1>15. /\ back \in 1 .. from
       /\ \A i \in 1 .. (from - 1) : i < back <=> Lt(HighKey[next[i]], w)
  <2>1. from \in 1 .. (Len(next) + 1)
    BY <1>2, <1>11
  <2>2. back = LowerBoundHighMask(next, from, w) /\ w \in Word /\ next \in Seq(BiContiguous)
    BY <1>1, <1>11 DEF w
  <2>3. LowerBoundHighMask(next, from, w) \in 1 .. from
    BY <1>14, <2>1, <2>2, BoundsHigh
  <2>4. \A i \in 1 .. (from - 1) : i < LowerBoundHighMask(next, from, w) <=> Lt(HighKey[next[i]], w)
    BY <1>14, <2>1, <2>2, BoundsHigh
  <2> QED
    BY <2>2, <2>3, <2>4, Zenon
<1>24. end = from + k
  BY DEF k
<1> DEFINE mid == SubSeq(next, back, end - 1)
           before == SubSeq(next, 1, back - 1)
           after == SubSeq(next, end, Len(next))
           Middle == {n \in BiContiguous : ~Lt(HighKey[n], w) /\ ~Lt(m, HighKey[n])}
<1>16. back \in 1 .. (Len(next) + 1) /\ end \in back .. (Len(next) + 1)
  <2> HIDE DEF k, z
  <2> QED
    BY ONLY <1>2, <1>11, <1>15, <1>24
<1>17. /\ before \in Seq(BiContiguous) /\ Len(before) = back - 1
       /\ mid \in Seq(BiContiguous) /\ Len(mid) = end - back
       /\ after \in Seq(BiContiguous) /\ Len(after) = Len(next) + 1 - end
       /\ \A i \in 1 .. (back - 1) : before[i] = next[i]
       /\ \A i \in 1 .. (Len(next) + 1 - end) : after[i] = next[end - 1 + i]
  <2> HIDE DEF before, mid, after
  <2>1. next \in Seq(BiContiguous)
    BY <1>11
  <2>2. /\ before \in Seq(BiContiguous) /\ Len(before) = back - 1
        /\ \A i \in 1 .. (back - 1) : before[i] = next[i]
    BY <1>16, <2>1, PiecesAre DEF before
  <2>3. mid \in Seq(BiContiguous) /\ Len(mid) = end - back
    BY <1>16, <2>1, PiecesAre DEF mid
  <2>4. /\ after \in Seq(BiContiguous) /\ Len(after) = Len(next) + 1 - end
        /\ \A i \in 1 .. (Len(next) + 1 - end) : after[i] = next[end - 1 + i]
    BY <1>16, <2>1, PiecesAre DEF after
  <2> QED
    BY <2>2, <2>3, <2>4
<1>18. \A i \in 1 .. (back - 1) : before[i] = s[i] /\ Lt(HighKey[before[i]], w) /\ HighKey[before[i]] \in Word
  <2>1. \A i \in 1 .. (back - 1) : i \in 1 .. (from - 1) /\ i < back /\ i \in 1 .. Len(s)
    BY <1>2, <1>15
  <2> SUFFICES ASSUME NEW i \in 1 .. (back - 1)
               PROVE  before[i] = s[i] /\ Lt(HighKey[before[i]], w) /\ HighKey[before[i]] \in Word
    OBVIOUS
  <2>2. next[i] = s[i] /\ HighKey[s[i]] \in Word /\ Lt(HighKey[next[i]], w) /\ before[i] = next[i]
    <3> HIDE DEF before
    <3> QED
      BY <1>12, <1>13, <1>15, <1>17, <2>1
  <2> QED
    BY <2>2, Zenon
<1>19. /\ Len(after) = z
       /\ \A i \in 1 .. z : after[i] = s[to - 1 + i] /\ Lt(m, HighKey[after[i]]) /\ HighKey[after[i]] \in Word
  <2>1. Len(next) + 1 - end = z /\ end - 1 = from - 1 + k
    <3> HIDE DEF k, z
    <3>1. from \in Int /\ k \in Int /\ z \in Int /\ Len(next) = (from - 1) + k + z
      BY <1>2, <1>11
    <3> QED
      BY <1>24, <3>1
  <2>2. \A i \in 1 .. z : to - 1 + i \in to .. Len(s) /\ to - 1 + i \in 1 .. Len(s)
    BY <1>2 DEF z
  <2>3. \A i \in to .. Len(s) : Lt(m, HighKey[s[i]])
    BY DEF Parted, m
  <2> HIDE DEF before, mid, after
  <2>4. \A i \in 1 .. z : after[i] = next[from - 1 + k + i]
    <3>1. \A i \in 1 .. (Len(next) + 1 - end) : after[i] = next[end - 1 + i]
      BY <1>17, Zenon
    <3> QED
      BY ONLY <2>1, <3>1
  <2>5. Len(after) = z
    BY <1>17, <2>1
  <2>6. \A i \in 1 .. z : after[i] = s[to - 1 + i]
    BY <1>12, <2>4
  <2>7. \A i \in 1 .. z : Lt(m, HighKey[s[to - 1 + i]]) /\ HighKey[s[to - 1 + i]] \in Word
    BY <1>13, <2>2, <2>3
  <2>8. ASSUME NEW i \in 1 .. z
        PROVE  after[i] = s[to - 1 + i] /\ Lt(m, HighKey[after[i]]) /\ HighKey[after[i]] \in Word
    BY <2>6, <2>7
  <2> QED
    BY <2>5, <2>8, Zenon
<1>20. mid \in Seq(Middle)
  <2>1. ASSUME NEW i \in back .. (end - 1) PROVE next[i] \in Middle
    <3>1. i \in 1 .. Len(next)
      BY <1>2, <1>11, <1>15, <1>24
    <3>2. next[i] \in BiContiguous
      BY <1>11, <3>1, ElementOfSeq
    <3>3. CASE i < from
      <4>1. i \in 1 .. (from - 1) /\ ~(i < back) /\ i \in 1 .. Len(s)
        BY <1>2, <1>15, <3>3
      <4>2. ~Lt(HighKey[next[i]], w)
        BY <1>15, <4>1
      <4>3. Lt(HighKey[next[i]], m) /\ HighKey[next[i]] \in Word
        BY <1>12, <1>13, <4>1 DEF Parted, m
      <4>4. ~Lt(m, HighKey[next[i]])
        BY <1>1, <4>3, LtAsymmetric
      <4> QED
        BY <3>2, <4>2, <4>4
    <3>4. CASE ~(i < from)
      <4>1. i - (from - 1) \in 1 .. k /\ from - 1 + (i - (from - 1)) = i
        BY <1>2, <1>11, <1>15, <1>24, <3>4
      <4>2. next[i] \in P
        BY <1>5, <1>12, <4>1 DEF k
      <4>3. HighKey[next[i]] = m \/ HighKey[next[i]] = w
        BY <3>2, <4>2, KeysAre DEF P, AtLevel
      <4>4. ~Lt(m, m) /\ ~Lt(w, w) /\ ~Lt(m, w)
        BY <1>1, LtAsymmetric
      <4> QED
        BY <3>2, <4>3, <4>4
    <3> QED
      BY <3>3, <3>4
  <2> HIDE DEF Middle
  <2>2. back \in Int /\ end - 1 \in Int
    BY <1>2, <1>11, <1>15, <1>24
  <2> QED
    BY <2>1, <2>2, SubSeqProperties
<1>21. Len(after) = Len(s) + 1 - to /\ back - 1 <= Len(s)
  <2> HIDE DEF after
  <2>1. Len(after) = z /\ z = Len(s) + 1 - to
    BY <1>19 DEF z
  <2>2. back - 1 <= Len(s)
    BY <1>2, <1>15
  <2> QED
    BY <2>1, <2>2
<1>22. \A i \in 1 .. Len(before) : before[i] = s[i] /\ Lt(HighKey[before[i]], w)
  <2> HIDE DEF before
  <2>1. Len(before) = back - 1
    BY <1>17
  <2> QED
    BY <1>18, <2>1
<1>23. \A i \in 1 .. Len(after) : after[i] = s[to - 1 + i] /\ Lt(m, HighKey[after[i]])
  <2> HIDE DEF after
  <2> QED
    BY <1>19
<1>25. rows \in Seq(AtLevel(m) \cup AtLevel(w))
  BY <1>4 DEF P
<1>26. end = to => next = s
  BY <1>9
<1>27. /\ before \in Seq(BiContiguous) /\ mid \in Seq(BiContiguous) /\ after \in Seq(BiContiguous)
       /\ Len(before) = back - 1 /\ Len(mid) = end - back
  BY <1>17
<1> HIDE DEF before, mid, after
<1>28. mid \in Seq({n \in BiContiguous : ~Lt(HighKey[n], w) /\ ~Lt(m, HighKey[n])})
  BY <1>20
<1> QED
  BY <1>10, <1>16, <1>21, <1>22, <1>23, <1>25, <1>26, <1>27, <1>28, Zenon DEF m, w, before, mid, after, InPieces

(* Buddy rows are merged, and the merged rows sorted into the next level.  *)
LEMMA HighBuddiesKeep ==
  ASSUME NEW s \in Seq(BiContiguous), HighAscends(s), NEW p \in 1 .. HighW,
         NEW from, NEW to, Parted(s, from, to, HighMask(p)),
         NEW rows, rows = MergeHighBuddies(SubSeq(s, from, to - 1), p),
         NEW next, next = Replaced(s, from, to, rows),
         NEW back, back = LowerBoundHighMask(next, from, HighMask(p - 1))
  PROVE  /\ from + Len(rows) = to => next = s
         /\ \A t \in SortedByLevel(SubSeq(next, back, (from + Len(rows)) - 1)) :
              LET r == SubSeq(next, 1, back - 1) \o t \o SubSeq(next, from + Len(rows), Len(next))
              IN  Kept(r, s) /\ HighAscends(r)
<1> DEFINE m == HighMask(p)
           w == HighMask(p - 1)
           end == from + Len(rows)
           before == SubSeq(next, 1, back - 1)
           mid == SubSeq(next, back, end - 1)
           after == SubSeq(next, end, Len(next))
           Middle == {n \in BiContiguous : ~Lt(HighKey[n], w) /\ ~Lt(m, HighKey[n])}
<1>1. m \in Word /\ w \in Word /\ Lt(w, m)
  BY LevelFields
<1>2. (end = to => next = s) /\ InPieces(s, to, m, w, rows, next, back, end)
  BY HighBuddiesPieces
<1>3. from \in 1 .. (Len(s) + 1) /\ to \in from .. (Len(s) + 1) /\ Len(s) \in Nat
  BY LenProperties DEF Parted
<1> HIDE DEF m, w, end
<1>4. /\ Kept(next, s)
      /\ back \in 1 .. (Len(next) + 1) /\ end \in back .. (Len(next) + 1)
      /\ before \in Seq(BiContiguous) /\ mid \in Seq(BiContiguous) /\ after \in Seq(BiContiguous)
      /\ Len(before) = back - 1 /\ Len(mid) = end - back /\ Len(after) = Len(s) + 1 - to
      /\ back - 1 <= Len(s)
      /\ \A i \in 1 .. Len(before) : before[i] = s[i] /\ Lt(HighKey[before[i]], w)
      /\ \A i \in 1 .. Len(after) : after[i] = s[to - 1 + i] /\ Lt(m, HighKey[after[i]])
      /\ mid \in Seq(Middle)
  BY <1>2, Zenon DEF InPieces
<1>5. next \in Seq(BiContiguous) /\ Len(next) \in Nat /\ Len(next) <= Len(s) /\ back \in Int /\ end \in Int
  <2> HIDE DEF before, mid, after, Middle
  <2>1. next \in Seq(BiContiguous) /\ Len(next) <= Len(s)
    BY <1>4 DEF Kept
  <2> QED
    BY <1>4, <2>1, LenProperties
<1> HIDE DEF before, mid, after, Middle
<1>6. \A i, j \in 1 .. Len(s) : i < j => ~Lt(HighKey[s[j]], HighKey[s[i]])
  BY KeysAre DEF Rising
<1>7. \A i \in 1 .. Len(s) : HighKey[s[i]] \in Word
  <2>1. \A i \in 1 .. Len(s) : s[i] \in BiContiguous
    BY ElementOfSeq
  <2> QED
    BY <2>1, KeysAre
<1>8. /\ \A i \in 1 .. Len(before) : i \in 1 .. Len(s)
      /\ \A i \in 1 .. Len(after) : to - 1 + i \in 1 .. Len(s)
      /\ \A i, j \in 1 .. Len(after) : i < j => to - 1 + i < to - 1 + j
  <2>1. Len(before) \in Int /\ Len(before) <= Len(s)
    BY ONLY <1>3, <1>4, <1>5
  <2>2. Len(after) = Len(s) + 1 - to /\ Len(s) \in Int /\ to \in Int /\ 1 <= to /\ Len(after) \in Int
    BY ONLY <1>3, <1>4
  <2>3. \A i \in 1 .. Len(before) : i \in 1 .. Len(s)
    BY ONLY <2>1, <2>2
  <2>4. \A i \in 1 .. Len(after) : to - 1 + i \in 1 .. Len(s)
    BY ONLY <2>2
  <2>5. \A i, j \in 1 .. Len(after) : i < j => to - 1 + i < to - 1 + j
    BY ONLY <2>2
  <2> QED
    BY <2>3, <2>4, <2>5
<1>9. /\ \A i \in 1 .. Len(before) : HighKey[before[i]] \in Word
      /\ \A i \in 1 .. Len(after) : HighKey[after[i]] \in Word
  BY <1>4, <1>7, <1>8
<1>10. Rising(before, HighKey) /\ Rising(after, HighKey)
  BY <1>4, <1>6, <1>8 DEF Rising
<1>11. ASSUME NEW t \in SortedByLevel(mid)
       PROVE  Kept(before \o t \o after, s) /\ HighAscends(before \o t \o after)
  <2>1. t \in Seq(Middle) /\ Len(t) = Len(mid) /\ UnionOf(t) = UnionOf(mid) /\ HighAscends(t)
    BY <1>4, LevelSorts
  <2>2. Middle \subseteq BiContiguous
    BY DEF Middle
  <2>3. t \in Seq(BiContiguous)
    BY <2>1, <2>2, SeqMonotonic
  <2>4. Rising(t, HighKey)
    BY <2>1, <2>3, KeysAre
  <2>5. \A i \in 1 .. Len(t) : ~Lt(HighKey[t[i]], w) /\ ~Lt(m, HighKey[t[i]]) /\ HighKey[t[i]] \in Word
    BY <2>1, ElementOfSeq, KeysAre, <2>2 DEF Middle
  <2>6. \A i \in 1 .. Len(before) : \A j \in 1 .. Len(t) : ~Lt(HighKey[t[j]], HighKey[before[i]])
    <3> SUFFICES ASSUME NEW i \in 1 .. Len(before), NEW j \in 1 .. Len(t), Lt(HighKey[t[j]], HighKey[before[i]])
                 PROVE  FALSE
      OBVIOUS
    <3>1. Lt(HighKey[before[i]], w) /\ HighKey[before[i]] \in Word /\ HighKey[t[j]] \in Word /\ ~Lt(HighKey[t[j]], w)
      BY <1>4, <1>9, <2>5
    <3> QED
      BY <1>1, <3>1, LtTransitive
  <2>7. \A i \in 1 .. Len(t) : \A j \in 1 .. Len(after) : ~Lt(HighKey[after[j]], HighKey[t[i]])
    <3> SUFFICES ASSUME NEW i \in 1 .. Len(t), NEW j \in 1 .. Len(after), Lt(HighKey[after[j]], HighKey[t[i]])
                 PROVE  FALSE
      OBVIOUS
    <3>1. Lt(m, HighKey[after[j]]) /\ HighKey[after[j]] \in Word /\ HighKey[t[i]] \in Word /\ ~Lt(m, HighKey[t[i]])
      BY <1>4, <1>9, <2>5
    <3> QED
      BY <1>1, <3>1, LtTransitive
  <2>8. \A i \in 1 .. Len(before) : \A j \in 1 .. Len(after) : ~Lt(HighKey[after[j]], HighKey[before[i]])
    <3> SUFFICES ASSUME NEW i \in 1 .. Len(before), NEW j \in 1 .. Len(after)
                 PROVE  ~Lt(HighKey[after[j]], HighKey[before[i]])
      OBVIOUS
    <3>1. /\ Lt(HighKey[before[i]], w) /\ HighKey[before[i]] \in Word
          /\ Lt(m, HighKey[after[j]]) /\ HighKey[after[j]] \in Word
      BY <1>4, <1>9
    <3>2. Lt(HighKey[before[i]], m)
      BY <1>1, <3>1, LtTransitive
    <3>3. Lt(HighKey[before[i]], HighKey[after[j]])
      BY <1>1, <3>1, <3>2, LtTransitive
    <3> QED
      BY <3>1, <3>3, LtAsymmetric
  <2> DEFINE r == before \o t \o after
  <2>9. before \in Seq(BiContiguous) /\ after \in Seq(BiContiguous)
    BY <1>4
  <2>10. Rising(r, HighKey)
    <3>1. HighKey \in [BiContiguous -> Word]
      BY KeysAre
    <3> QED
      BY <1>10, <2>3, <2>4, <2>6, <2>7, <2>8, <2>9, <3>1, JoinAscends
  <2>11. r \in Seq(BiContiguous)
    BY <2>3, <2>9, JoinIs
  <2>12. r = Replaced(next, back, end, t)
    BY DEF Replaced, before, after
  <2>13. Kept(r, next)
    <3>1. UnionOf(t) = UnionOf(SubSeq(next, back, end - 1)) /\ Len(t) = end - back
      BY <1>4, <2>1 DEF mid
    <3>2. end - back <= end - back
      BY <1>5
    <3>3. Kept(Replaced(next, back, end, t), next)
      BY <1>4, <1>5, <2>3, <3>1, <3>2, ReplacedKeeps
    <3> QED
      BY <2>12, <3>3
  <2> HIDE DEF r
  <2>14. Kept(r, s)
    BY <1>5, <2>11, LenProperties, <1>3, <1>4, <2>13 DEF Kept
  <2>15. HighAscends(r)
    BY <2>10, <2>11, KeysAre
  <2> QED
    BY <2>14, <2>15 DEF r
<1> QED
  BY <1>2, <1>11, Zenon DEF end, before, mid, after

-----------------------------------------------------------------------------
(* One chunk of the probe                                                  *)

(* Dropping what is contained keeps the addresses and the order.           *)
LEMMA ProbeKeeps ==
  ASSUME Sorted, shapes \subseteq Word, kept < Len(nets),
         NEW t, t = Survivors(SubSeq(nets, kept + 1, ChunkEnd - 1), AncestorMasks(nets[kept + 1].mask))
  PROVE  /\ Kept(Replaced(nets, kept + 1, ChunkEnd, t), nets)
         /\ MaskAscends(Replaced(nets, kept + 1, ChunkEnd, t))
         /\ kept + Len(t) \in 0 .. Len(Replaced(nets, kept + 1, ChunkEnd, t))
<1> DEFINE m == nets[kept + 1].mask
           from == kept + 1
           to == ChunkEnd
           n == Len(nets)
           Q == {x \in BiContiguous : x.mask = m}
           a == SubSeq(nets, 1, from - 1)
           b == SubSeq(nets, from, to - 1)
           c == SubSeq(nets, to, n)
           masks == AncestorMasks(m)
           r == a \o t \o c
<1>1. /\ nets \in Seq(BiContiguous) /\ MaskAscends(nets) /\ n \in Nat /\ kept \in 0 .. n
      /\ kept \in Nat /\ kept < n
  BY LenProperties DEF Sorted
<1>2. to \in (kept + 2) .. (n + 1) /\ \A i \in from .. (to - 1) : nets[i].mask = m
  BY <1>1, ChunkIs
<1> HIDE DEF to
<1>3. from \in 1 .. (n + 1) /\ to \in from .. (n + 1) /\ from - 1 = kept /\ from \in Int /\ to \in Int
  BY <1>1, <1>2
<1>4. /\ a \in Seq(BiContiguous) /\ Len(a) = kept /\ b \in Seq(BiContiguous) /\ Len(b) = to - from
      /\ c \in Seq(BiContiguous) /\ Len(c) = n + 1 - to
  <2> HIDE DEF from
  <2>1. /\ a \in Seq(BiContiguous) /\ Len(a) = from - 1 /\ b \in Seq(BiContiguous) /\ Len(b) = to - from
        /\ c \in Seq(BiContiguous) /\ Len(c) = n + 1 - to
    BY <1>1, <1>3, PiecesAre
  <2> HIDE DEF a, b, c, n
  <2> QED
    BY <1>3, <2>1
<1>5. /\ \A i \in 1 .. kept : a[i] = nets[i]
      /\ \A i \in 1 .. (to - from) : b[i] = nets[from - 1 + i]
      /\ \A i \in 1 .. (n + 1 - to) : c[i] = nets[to - 1 + i]
  <2> HIDE DEF from
  <2>1. /\ \A i \in 1 .. (from - 1) : a[i] = nets[i]
        /\ \A i \in 1 .. (to - from) : b[i] = nets[from - 1 + i]
        /\ \A i \in 1 .. (n + 1 - to) : c[i] = nets[to - 1 + i]
    BY <1>1, <1>3, PiecesAre
  <2> HIDE DEF a, b, c, n
  <2> QED
    BY <1>3, <2>1
<1>6. nets = a \o b \o c
  <2> HIDE DEF from
  <2> QED
    BY <1>1, <1>3, PiecesAre, Zenon
<1>7. t = Survivors(b, masks)
  BY DEF to
<1>8. Replaced(nets, kept + 1, ChunkEnd, t) = r
  BY DEF Replaced, to
<1> HIDE DEF from, a, b, c, n, masks, m
<1>9. \A i \in 1 .. (to - from) : from - 1 + i \in from .. (to - 1) /\ from - 1 + i \in 1 .. n
  BY <1>1, <1>3
<1>10. \A i \in 1 .. (to - from) : b[i] \in Q
  <2>1. \A i \in 1 .. Len(b) : b[i] \in BiContiguous
    BY <1>4, ElementOfSeq
  <2> QED
    BY <1>2, <1>4, <1>5, <1>9, <2>1
<1>11. b \in Seq(Q)
  <2> HIDE DEF Q
  <2>1. b \in [1 .. Len(b) -> Q] /\ Len(b) \in Nat
    BY <1>4, <1>10, LenProperties
  <2> QED
    BY <2>1, SeqDef
<1>12. Q \subseteq BiContiguous
  OBVIOUS
<1>13. /\ t \in Seq(Q) /\ Len(t) <= Len(b) /\ UnionOf(t) \subseteq UnionOf(b)
       /\ \A j \in 1 .. Len(b) : IsContained(b[j], masks) \/ Addrs(b[j]) \subseteq UnionOf(t)
  <2> HIDE DEF Q
  <2> QED
    BY <1>7, <1>11, <1>12, SurvivorsAre
<1>14. t \in Seq(BiContiguous) /\ Len(t) \in Nat /\ \A i \in 1 .. Len(t) : t[i] \in Q
  <2> HIDE DEF Q
  <2> QED
    BY <1>12, <1>13, SeqMonotonic, ElementOfSeq, LenProperties
<1>15. UnionOf(b) \subseteq UnionOf(a) \cup UnionOf(t)
  <2> SUFFICES ASSUME NEW x \in UnionOf(b), x \notin UnionOf(t) PROVE x \in UnionOf(a)
    OBVIOUS
  <2>1. PICK j \in 1 .. Len(b) : x \in Addrs(b[j])
    BY <1>4, UnionIs
  <2>2. IsContained(b[j], masks)
    BY <1>13, <2>1
  <2>3. b[j] \in BiContiguous /\ b[j].mask = m
    BY <1>4, <1>10, <2>1
  <2>4. IsContained(b[j], AncestorMasks(b[j].mask))
    BY <2>2, <2>3 DEF masks
  <2>5. \E i \in 1 .. kept : Addrs(b[j]) \subseteq Addrs(nets[i])
    BY <2>3, <2>4, ContainedIsCovered
  <2>6. PICK i \in 1 .. kept : x \in Addrs(nets[i])
    BY <2>1, <2>5
  <2>7. i \in 1 .. Len(a) /\ x \in Addrs(a[i])
    BY <1>4, <1>5, <2>6
  <2> QED
    BY <1>4, <2>7, UnionIs
<1>16. a \in Seq(BiContiguous) /\ t \in Seq(BiContiguous) /\ c \in Seq(BiContiguous)
  BY <1>4, <1>14
<1>17. r \in Seq(BiContiguous) /\ Len(r) = Len(a) + Len(t) + Len(c)
  BY <1>16, JoinIs
<1>18. UnionOf(r) = UnionOf(a) \cup UnionOf(t) \cup UnionOf(c)
  BY <1>16, JoinIs
<1>19. UnionOf(nets) = UnionOf(a) \cup UnionOf(b) \cup UnionOf(c)
  BY <1>4, JoinIs, <1>6
<1> HIDE DEF r
<1>20. UnionOf(r) = UnionOf(nets)
  <2> DEFINE A == UnionOf(a)
             B == UnionOf(b)
             C == UnionOf(c)
             T == UnionOf(t)
  <2>1. T \subseteq B /\ B \subseteq A \cup T /\ UnionOf(r) = A \cup T \cup C /\ UnionOf(nets) = A \cup B \cup C
    BY <1>13, <1>15, <1>18, <1>19
  <2> HIDE DEF A, B, C, T
  <2>2. A \cup T \cup C = A \cup B \cup C
    BY <2>1
  <2> QED
    BY <2>1, <2>2, Zenon
<1>21. Len(r) <= n /\ kept + Len(t) \in 0 .. Len(r)
  BY <1>1, <1>3, <1>4, <1>13, <1>14, <1>17
<1>22. Kept(r, nets)
  BY <1>17, <1>20, <1>21 DEF Kept, n
<1>23. /\ \A i, j \in 1 .. n : i < j => ~Lt(MaskKey[nets[j]], MaskKey[nets[i]])
       /\ \A i \in 1 .. n : MaskKey[nets[i]] \in Word
       /\ MaskKey[nets[from]] = m /\ from \in 1 .. n
       /\ Rising(nets, MaskKey) /\ MaskKey \in [BiContiguous -> Word]
  <2>1. Rising(nets, MaskKey) /\ MaskKey \in [BiContiguous -> Word]
    BY <1>1, KeysAre
  <2>2. \A i \in 1 .. n : nets[i] \in BiContiguous
    BY <1>1, ElementOfSeq DEF n
  <2>3. from \in 1 .. n
    BY <1>1, <1>3
  <2>4. MaskKey[nets[from]] = nets[from].mask
    BY <2>2, <2>3, KeysAre
  <2> QED
    BY <2>1, <2>2, <2>3, <2>4 DEF Rising, n, m, from
<1>24. \A i \in 1 .. Len(t) : MaskKey[t[i]] = m
  <2>1. \A x \in Q : MaskKey[x] = m
    BY KeysAre
  <2> HIDE DEF Q
  <2> QED
    BY <1>14, <2>1
<1>25. \A i \in 1 .. Len(a) : ~Lt(m, MaskKey[a[i]])
  <2> SUFFICES ASSUME NEW i \in 1 .. kept PROVE ~Lt(m, MaskKey[a[i]])
    BY <1>4
  <2>1. i \in 1 .. n /\ i < from
    BY <1>1, <1>3
  <2> QED
    BY <1>5, <1>23, <2>1
<1>26. \A i \in 1 .. Len(c) : ~Lt(MaskKey[c[i]], m)
  <2> SUFFICES ASSUME NEW i \in 1 .. (n + 1 - to) PROVE ~Lt(MaskKey[c[i]], m)
    BY <1>4
  <2>1. to - 1 + i \in 1 .. n /\ from < to - 1 + i
    BY <1>1, <1>2, <1>3 DEF from
  <2> QED
    BY <1>5, <1>23, <2>1
<1>27. \A i \in 1 .. Len(a) : \A j \in 1 .. Len(c) : ~Lt(MaskKey[c[j]], MaskKey[a[i]])
  <2> SUFFICES ASSUME NEW i \in 1 .. kept, NEW j \in 1 .. (n + 1 - to)
               PROVE  ~Lt(MaskKey[c[j]], MaskKey[a[i]])
    BY <1>4
  <2>1. i \in 1 .. n /\ to - 1 + j \in 1 .. n /\ i < to - 1 + j
    BY <1>1, <1>2, <1>3
  <2> QED
    BY <1>5, <1>23, <2>1
<1>28. Rising(a, MaskKey) /\ Rising(c, MaskKey)
  <2>1. from \in 1 .. (Len(nets) + 1) /\ to \in from .. (Len(nets) + 1)
    BY <1>3 DEF n
  <2> QED
    BY <1>1, <1>23, <2>1, PiecesAscend DEF a, c, n
<1>29. Rising(t, MaskKey)
  <2>1. m \in Word
    BY <1>23
  <2>2. ~Lt(m, m)
    BY <2>1, LtAsymmetric
  <2> QED
    BY <1>24, <2>2 DEF Rising
<1>30. \A i \in 1 .. Len(a) : \A j \in 1 .. Len(t) : ~Lt(MaskKey[t[j]], MaskKey[a[i]])
  BY <1>24, <1>25
<1>31. \A i \in 1 .. Len(t) : \A j \in 1 .. Len(c) : ~Lt(MaskKey[c[j]], MaskKey[t[i]])
  BY <1>24, <1>26
<1>32. Rising(r, MaskKey)
  <2>1. MaskKey \in [BiContiguous -> Word]
    BY <1>23
  <2>2. Rising(a \o t \o c, MaskKey)
    BY <1>16, <1>27, <1>28, <1>29, <1>30, <1>31, <2>1, JoinAscends
  <2> QED
    BY <2>2 DEF r
<1>33. MaskAscends(r)
  BY <1>17, <1>32, KeysAre
<1> QED
  BY <1>8, <1>21, <1>22, <1>33, Zenon

-----------------------------------------------------------------------------
(* The invariant                                                           *)

(* What the code relies on between its steps: the levels ascend while they *)
(* are swept, the survivors of a level lie in its block until the buddies  *)
(* are merged, and the masks ascend while containment is probed.           *)
UInv ==
  /\ TypeOK
  /\ Kept(nets, input)
  /\ pc \in {"low", "high"} => HighAscends(nets)
  /\ pc = "high" => level \in 1 .. HighW /\ Parted(nets, block[1], block[2], HighMask(level))
  /\ pc = "probe" => MaskAscends(nets) /\ kept <= Len(nets)

(* What two steps keep, both keep.                                         *)
LEMMA KeptTwice ==
  ASSUME NEW r, NEW s, NEW t \in Seq(BiContiguous), Kept(r, s), Kept(s, t)
  PROVE  Kept(r, t) /\ Len(r) \in 0 .. Len(t)
<1>1. r \in Seq(BiContiguous) /\ s \in Seq(BiContiguous)
  BY DEF Kept
<1>2. Len(r) \in Nat /\ Len(s) \in Nat /\ Len(t) \in Nat
  BY <1>1, LenProperties
<1>3. Len(r) <= Len(t) /\ UnionOf(r) = UnionOf(t)
  <2>1. Len(r) <= Len(t)
    BY <1>2 DEF Kept
  <2>2. UnionOf(r) = UnionOf(t)
    BY Zenon DEF Kept
  <2> QED
    BY <2>1, <2>2
<1> QED
  BY <1>1, <1>2, <1>3 DEF Kept

(* Both sorts keep the addresses.                                          *)
LEMMA SortKeeps ==
  ASSUME NEW s \in Seq(BiContiguous)
  PROVE  /\ \A t \in SortedByLevel(s) : Kept(t, s) /\ HighAscends(t)
         /\ \A t \in SortedByMask(s) : Kept(t, s) /\ MaskAscends(t)
<1>1. ASSUME NEW t \in SortedByLevel(s) PROVE Kept(t, s) /\ HighAscends(t)
  BY LevelSorts, LenProperties DEF Kept
<1>2. ASSUME NEW t \in SortedByMask(s) PROVE Kept(t, s) /\ MaskAscends(t)
  BY MaskSorts, LenProperties DEF Kept
<1> QED
  BY <1>1, <1>2

(* The invariant holds at first.                                           *)
LEMMA UInit == Init => UInv
<1> SUFFICES ASSUME Init PROVE UInv
  OBVIOUS
<1>1. PICK s \in Inputs : Start(s) /\ calls = 1 /\ pc = "call"
  BY DEF Init
<1>2. s \in Seq(BiContiguous) /\ Len(s) \in Nat
  <2>1. s \in Seq(BiContiguous)
    BY InputsAssumption
  <2> QED
    BY <2>1, LenProperties
<1>3. HighW \in Nat
  BY WidthAssumption
<1>4. TypeOK
  BY <1>1, <1>2, <1>3 DEF Start, TypeOK
<1>5. Kept(nets, input)
  BY <1>1, <1>2 DEF Start, Kept
<1> QED
  BY <1>1, <1>4, <1>5 DEF UInv

(* What every step takes from the invariant.                               *)
LEMMA UFacts ==
  ASSUME UInv
  PROVE  /\ input \in Seq(BiContiguous) /\ Len(input) \in Nat
         /\ nets \in Seq(BiContiguous) /\ Len(nets) \in 0 .. Len(input)
         /\ Kept(nets, input) /\ Kept(nets, nets) /\ Kept(input, input)
<1>1. input \in Seq(BiContiguous) /\ nets \in Seq(BiContiguous) /\ Kept(nets, input)
  BY DEF UInv, TypeOK
<1>2. Len(input) \in Nat /\ Len(nets) \in Nat
  BY <1>1, LenProperties
<1>3. Kept(nets, nets) /\ Kept(input, input)
  BY <1>1, <1>2 DEF Kept
<1> QED
  BY <1>1, <1>2, <1>3 DEF Kept

(* The sweep begins by sorting.                                            *)
LEMMA USweep ==
  ASSUME UInv, nets' \in SortedByLevel(nets), level' = HighW, pc' = "low",
         UNCHANGED <<input, block, shapes, kept, swept, calls>>
  PROVE  UInv'
<1>1. Kept(nets', nets) /\ HighAscends(nets')
  BY UFacts, SortKeeps
<1>2. Kept(nets', input) /\ nets' \in Seq(BiContiguous)
  BY <1>1, UFacts, KeptTwice DEF Kept
<1>3. HighW \in 0 .. HighW
  BY WidthAssumption
<1>4. TypeOK'
  BY <1>2, <1>3 DEF UInv, TypeOK
<1> QED
  BY <1>1, <1>2, <1>4 DEF UInv

(* The rows of a level aggregated by their low halves.                     *)
LEMMA ULow ==
  ASSUME UInv, LowRows
  PROVE  UInv'
<1> DEFINE m == HighMask(level)
           from == LowerBoundHighMask(nets, Len(nets) + 1, m)
           to == UpperBoundHighMask(nets, Len(nets) + 1, m)
           rows == AggregateLowRows[SubSeq(nets, from, to - 1)]
           r == Replaced(nets, from, to, rows)
<1>1. nets' = r /\ block' = <<from, from + Len(rows)>>
  BY Zenon DEF LowRows, Splice, Replaced
<1>2. /\ pc = "low" /\ pc' = IF level = 0 THEN "contain" ELSE "high"
      /\ swept' = Len(nets') /\ UNCHANGED <<input, level, shapes, kept, calls>>
  BY DEF LowRows
<1>3. Kept(r, nets) /\ HighAscends(r) /\ Parted(r, from, from + Len(rows), m)
  <2>1. level \in 0 .. HighW /\ HighAscends(nets) /\ nets \in Seq(BiContiguous)
    BY <1>2 DEF UInv, TypeOK
  <2> QED
    BY <2>1, LowRowsKeep
<1> HIDE DEF r, from, to, rows
<1>4. Kept(nets', nets) /\ HighAscends(nets')
  BY <1>1, <1>3
<1>5. Kept(nets', input) /\ Len(nets') \in 0 .. Len(input) /\ nets' \in Seq(BiContiguous)
  BY <1>4, UFacts, KeptTwice DEF Kept
<1>6. TypeOK'
  BY <1>2, <1>5 DEF UInv, TypeOK
<1>7. pc' = "high" => level' \in 1 .. HighW /\ Parted(nets', block'[1], block'[2], HighMask(level'))
  <2> SUFFICES ASSUME pc' = "high"
               PROVE  level' \in 1 .. HighW /\ Parted(nets', block'[1], block'[2], HighMask(level'))
    OBVIOUS
  <2>1. level' = level /\ level # 0 /\ level \in 0 .. HighW
    BY <1>2 DEF UInv, TypeOK
  <2>2. HighW \in Nat
    BY WidthAssumption
  <2>3. level' \in 1 .. HighW
    BY <2>1, <2>2
  <2>4. block'[1] = from /\ block'[2] = from + Len(rows)
    BY <1>1
  <2>5. Parted(nets', block'[1], block'[2], HighMask(level'))
    BY <1>1, <1>3, <2>1, <2>4, Zenon
  <2> QED
    BY <2>3, <2>5
<1>8. pc' # "probe"
  BY <1>2
<1>9. Kept(nets', input')
  BY <1>2, <1>5
<1> QED
  BY <1>4, <1>6, <1>7, <1>8, <1>9 DEF UInv

(* The buddy rows of a level merged, and what moved sorted again.          *)
LEMMA UHigh ==
  ASSUME UInv, HighBuddies
  PROVE  UInv'
<1> DEFINE from == block[1]
           to == block[2]
           rows == MergeHighBuddies(SubSeq(nets, from, to - 1), level)
           next == Replaced(nets, from, to, rows)
           back == LowerBoundHighMask(next, from, HighMask(level - 1))
           end == from + Len(rows)
           New(t) == SubSeq(next, 1, back - 1) \o t \o SubSeq(next, end, Len(next))
<1>1. \/ \E t \in SortedByLevel(SubSeq(next, back, end - 1)) : nets' = New(t)
      \/ end = to /\ nets' = next
  BY Zenon DEF HighBuddies, Splice, Replaced
<1>2. /\ pc = "high" /\ level' = level - 1 /\ pc' = "low"
      /\ UNCHANGED <<input, block, shapes, kept, swept, calls>>
  BY DEF HighBuddies
<1>3. /\ nets \in Seq(BiContiguous) /\ HighAscends(nets) /\ level \in 1 .. HighW
      /\ Parted(nets, from, to, HighMask(level))
  BY <1>2 DEF UInv, TypeOK
<1>4. /\ end = to => next = nets
      /\ \A t \in SortedByLevel(SubSeq(next, back, end - 1)) : Kept(New(t), nets) /\ HighAscends(New(t))
  BY <1>3, HighBuddiesKeep
<1>5. Kept(nets', nets) /\ HighAscends(nets')
  <2>1. Kept(nets, nets)
    BY UFacts
  <2> HIDE DEF from, to, rows, next, back, end, New
  <2> QED
    BY <1>1, <1>3, <1>4, <2>1
<1>6. Kept(nets', input) /\ nets' \in Seq(BiContiguous)
  BY <1>5, UFacts, KeptTwice DEF Kept
<1>7. level' \in 0 .. HighW
  BY <1>2, <1>3, WidthAssumption
<1>8. TypeOK'
  BY <1>2, <1>6, <1>7 DEF UInv, TypeOK
<1> QED
  BY <1>2, <1>5, <1>6, <1>8 DEF UInv

(* The sort by mask, and the shapes collected.                             *)
LEMMA UContain ==
  ASSUME UInv, BeginContainment
  PROVE  UInv'
<1>1. /\ nets' \in IF Len(nets) <= 1 THEN {nets} ELSE SortedByMask(nets)
      /\ shapes' = {nets[i].mask : i \in DOMAIN nets}
      /\ kept' = IF Len(nets) <= 1 THEN Len(nets) ELSE 0
      /\ swept' = Len(nets) /\ pc' = "probe"
      /\ UNCHANGED <<input, level, block, calls>>
  BY DEF BeginContainment
<1>2. Kept(nets', nets) /\ MaskAscends(nets') /\ kept' <= Len(nets') /\ kept' \in 0 .. Len(input)
  <2>1. CASE Len(nets) <= 1
    BY <1>1, <2>1, UFacts, LenProperties DEF MaskAscends
  <2>2. CASE ~(Len(nets) <= 1)
    BY <1>1, <2>2, UFacts, SortKeeps, LenProperties DEF Kept
  <2> QED
    BY <2>1, <2>2
<1>3. Kept(nets', input) /\ nets' \in Seq(BiContiguous)
  BY <1>2, UFacts, KeptTwice DEF Kept
<1>4. shapes' \subseteq Word
  BY UFacts, ElementOfSeq, LenProperties, ClassFields, <1>1
<1>5. swept' \in 0 .. Len(input)
  BY <1>1, UFacts
<1>6. TypeOK'
  BY <1>1, <1>2, <1>3, <1>4, <1>5 DEF UInv, TypeOK
<1> QED
  BY <1>1, <1>2, <1>3, <1>6 DEF UInv

(* A chunk probed and compacted.                                           *)
LEMMA UProbe ==
  ASSUME UInv, ProbeChunk
  PROVE  UInv'
<1> DEFINE t == Survivors(SubSeq(nets, kept + 1, ChunkEnd - 1), AncestorMasks(nets[kept + 1].mask))
           r == Replaced(nets, kept + 1, ChunkEnd, t)
<1>1. nets' = r /\ kept' = kept + Len(t)
  BY Zenon DEF ProbeChunk, Splice, Replaced
<1>2. /\ pc = "probe" /\ kept < Len(nets)
      /\ UNCHANGED <<input, level, block, shapes, swept, calls, pc>>
  BY DEF ProbeChunk
<1>3. Sorted /\ shapes \subseteq Word
  BY <1>2, UFacts DEF UInv, TypeOK, Sorted
<1>4. Kept(r, nets) /\ MaskAscends(r) /\ kept + Len(t) \in 0 .. Len(r)
  BY <1>2, <1>3, ProbeKeeps
<1> HIDE DEF r, t
<1>5. Kept(nets', nets) /\ MaskAscends(nets') /\ kept' \in 0 .. Len(nets')
  BY <1>1, <1>4
<1>6. Kept(nets', input) /\ nets' \in Seq(BiContiguous) /\ Len(nets') \in 0 .. Len(input)
  BY <1>5, UFacts, KeptTwice DEF Kept
<1>7. kept' \in 0 .. Len(input) /\ kept' <= Len(nets')
  BY <1>5, <1>6, UFacts
<1>8. TypeOK'
  BY <1>2, <1>6, <1>7 DEF UInv, TypeOK
<1> QED
  BY <1>2, <1>5, <1>6, <1>7, <1>8 DEF UInv

(* Every step keeps the invariant.                                         *)
LEMMA UStep == UInv /\ [Next]_vars => UInv'
<1> SUFFICES ASSUME UInv, [Next]_vars PROVE UInv'
  OBVIOUS
<1>1. CASE ReturnShort
  BY <1>1, UFacts DEF ReturnShort, UInv, TypeOK
<1>2. CASE BeginSweep
  BY <1>2, USweep DEF BeginSweep
<1>3. CASE LowRows
  BY <1>3, ULow
<1>4. CASE HighBuddies
  BY <1>4, UHigh
<1>5. CASE BeginContainment
  BY <1>5, UContain
<1>6. CASE ProbeChunk
  BY <1>6, UProbe
<1>7. CASE Return
  BY <1>7 DEF Return, UInv, TypeOK
<1>8. CASE Repeat
  BY <1>8, USweep DEF Repeat
<1>9. CASE CallAgain
  <2>1. /\ input' = nets /\ nets' = nets /\ kept' = 0 /\ swept' = 0 /\ pc' = "call" /\ calls' = 2
        /\ UNCHANGED <<nets, level, block, shapes>>
    BY <1>9 DEF CallAgain
  <2>2. Kept(nets', input') /\ nets \in Seq(BiContiguous) /\ Len(nets) \in Nat
    BY UFacts, <2>1
  <2>3. TypeOK'
    BY <2>1, <2>2 DEF UInv, TypeOK
  <2> QED
    BY <2>1, <2>2, <2>3 DEF UInv
<1>10. CASE UNCHANGED vars
  BY <1>10, Zenon DEF vars, UInv, TypeOK
<1> QED
  BY <1>1, <1>2, <1>3, <1>4, <1>5, <1>6, <1>7, <1>8, <1>9, <1>10 DEF Next

(* AggregateBiContiguous6 keeps the addresses of its input, in networks of *)
(* the class, at every step of every call.                                 *)
THEOREM CoverIsKept == Spec => []UnionPreserved
<1>1. UInv => UnionPreserved
  BY DEF UInv, UnionPreserved, Kept
<1> QED
  BY <1>1, UInit, UStep, PTL DEF Spec

-----------------------------------------------------------------------------
(* Order and rows                                                          *)

(* Every two entries of s, in their order, are related.                    *)
Chained(s, R) == \A i, j \in 1 .. Len(s) : i < j => <<s[i], s[j]>> \in R

Couples == BiContiguous \X BiContiguous

(* The second may stand after the first, in the order of the levels.       *)
NotAfter == {c \in Couples : ~KeyBefore(LevelKey(c[2]), LevelKey(c[1]))}

(* With a common high mask out of H, neither contains the other, and in    *)
(* one row they are no buddies.                                            *)
Separate(H) ==
  {c \in Couples :
     High(c[1].mask) \in H /\ High(c[1].mask) = High(c[2].mask)
       => /\ ~Contains(c[1], c[2]) /\ ~Contains(c[2], c[1])
          /\ High(c[1].addr) = High(c[2].addr) => ~IsAdjacentByLowestMaskBit(c[1], c[2])}

(* In a row, the first lies below the second, and is not its buddy.        *)
Below(ha) ==
  {c \in Couples :
     /\ \A a \in Addrs(c[1]) : High(a) = ha => Lt(a, c[2].addr)
     /\ ~IsAdjacentByLowestMaskBit(c[1], c[2])}

(* The order of the levels, without its tuples.                            *)
LEMMA LevelOrder ==
  ASSUME NEW x \in BiContiguous, NEW y \in BiContiguous
  PROVE  KeyBefore(LevelKey(x), LevelKey(y)) <=>
           \/ Lt(High(x.mask), High(y.mask))
           \/ High(x.mask) = High(y.mask) /\ Lt(High(x.addr), High(y.addr))
           \/ High(x.mask) = High(y.mask) /\ High(x.addr) = High(y.addr) /\ Lt(Low(x.addr), Low(y.addr))
           \/ /\ High(x.mask) = High(y.mask) /\ High(x.addr) = High(y.addr)
              /\ Low(x.addr) = Low(y.addr) /\ Lt(Low(x.mask), Low(y.mask))
<1> DEFINE k == LevelKey(x)
           l == LevelKey(y)
<1>1. /\ DOMAIN k = 1 .. 4
      /\ k[1] = High(x.mask) /\ k[2] = High(x.addr) /\ k[3] = Low(x.addr) /\ k[4] = Low(x.mask)
      /\ l[1] = High(y.mask) /\ l[2] = High(y.addr) /\ l[3] = Low(y.addr) /\ l[4] = Low(y.mask)
  BY DEF LevelKey
<1> HIDE DEF k, l
<1>2. KeyBefore(k, l) <=> \E i \in 1 .. 4 : Lt(k[i], l[i]) /\ \A j \in 1 .. (i - 1) : k[j] = l[j]
  BY <1>1 DEF KeyBefore
<1>3. \A i \in 1 .. 4 : i = 1 \/ i = 2 \/ i = 3 \/ i = 4
  OBVIOUS
<1>4. /\ \A j \in 1 .. (1 - 1) : FALSE
      /\ \A j \in 1 .. (2 - 1) : j = 1
      /\ \A j \in 1 .. (3 - 1) : j = 1 \/ j = 2
      /\ \A j \in 1 .. (4 - 1) : j = 1 \/ j = 2 \/ j = 3
      /\ 1 \in 1 .. (2 - 1) /\ 1 \in 1 .. (3 - 1) /\ 2 \in 1 .. (3 - 1)
      /\ 1 \in 1 .. (4 - 1) /\ 2 \in 1 .. (4 - 1) /\ 3 \in 1 .. (4 - 1)
      /\ 1 \in 1 .. 4 /\ 2 \in 1 .. 4 /\ 3 \in 1 .. 4 /\ 4 \in 1 .. 4
  OBVIOUS
<1>5. KeyBefore(k, l) <=>
        \/ Lt(k[1], l[1])
        \/ k[1] = l[1] /\ Lt(k[2], l[2])
        \/ k[1] = l[1] /\ k[2] = l[2] /\ Lt(k[3], l[3])
        \/ k[1] = l[1] /\ k[2] = l[2] /\ k[3] = l[3] /\ Lt(k[4], l[4])
  <2> DEFINE C(i) == Lt(k[i], l[i]) /\ \A j \in 1 .. (i - 1) : k[j] = l[j]
  <2>1. KeyBefore(k, l) <=> C(1) \/ C(2) \/ C(3) \/ C(4)
    <3>1. KeyBefore(k, l) <=> \E i \in 1 .. 4 : C(i)
      BY <1>2
    <3>2. (\E i \in 1 .. 4 : C(i)) <=> C(1) \/ C(2) \/ C(3) \/ C(4)
      <4> HIDE DEF C
      <4> QED
        BY <1>3, <1>4
    <3> QED
      BY <3>1, <3>2
  <2>2. C(1) <=> Lt(k[1], l[1])
    BY <1>4
  <2>3. C(2) <=> k[1] = l[1] /\ Lt(k[2], l[2])
    BY <1>4
  <2>4. C(3) <=> k[1] = l[1] /\ k[2] = l[2] /\ Lt(k[3], l[3])
    BY <1>4
  <2>5. C(4) <=> k[1] = l[1] /\ k[2] = l[2] /\ k[3] = l[3] /\ Lt(k[4], l[4])
    BY <1>4
  <2> HIDE DEF C
  <2> QED
    BY <2>1, <2>2, <2>3, <2>4, <2>5
<1> QED
  BY <1>1, <1>5 DEF k, l

(* A run of ones reaches the top of its half.                              *)
LEMMA RunUp ==
  ASSUME NEW n \in BiContiguous, NEW i \in n.mask, NEW j \in Bits, i < j, j < LowW \/ i >= LowW
  PROVE  j \in n.mask
<1> SUFFICES ASSUME j \notin n.mask PROVE FALSE
  OBVIOUS
<1>1. /\ n.mask \subseteq Bits /\ Bits \subseteq Nat /\ LowW \in Nat /\ W \in Nat
      /\ \A k \in Bits : k <= W - 1
      /\ \A k \in n.mask : k + 1 \in n.mask \/ k = W - 1 \/ k = LowW - 1
  BY ClassFields, WAssumption, WidthAssumption DEF Word, Bits
<1> DEFINE gaps == {k \in Bits : i < k /\ k <= j /\ k \notin n.mask}
<1>2. gaps \subseteq Nat /\ j \in gaps
  <2>1. j \in Nat /\ j <= j
    BY <1>1
  <2> QED
    BY <1>1, <2>1
<1>3. PICK g \in gaps : \A k \in gaps : g <= k
  <2> HIDE DEF gaps
  <2> QED
    BY <1>2, LeastNatural
<1>4. g \in Bits /\ i < g /\ g <= j /\ g \notin n.mask /\ i \in Nat /\ g \in Nat /\ j \in Nat
  BY <1>1, <1>3
<1>5. g - 1 \in Bits
  BY <1>1, <1>4, WAssumption DEF Bits
<1>6. g - 1 \in n.mask
  <2>1. CASE g - 1 = i
    BY <2>1
  <2>2. CASE g - 1 # i
    BY <1>4, <2>2, <1>3, <1>5
  <2> QED
    BY <2>1, <2>2
<1>7. (g - 1) + 1 = g /\ g - 1 # W - 1 /\ g - 1 # LowW - 1
  BY <1>1, <1>4
<1> QED
  BY <1>1, <1>4, <1>6, <1>7

(* What Place may put side by side: two networks of a row that do not      *)
(* merge do not contain one another.                                       *)
LEMMA NotNested ==
  ASSUME NEW x \in BiContiguous, NEW n \in BiContiguous, MergeByLowestMaskBit(x, n) = {}
  PROVE  ~Contains(x, n) /\ ~Contains(n, x)
<1>1. /\ x.mask \in Word /\ n.mask \in Word /\ x.addr \subseteq x.mask /\ n.addr \subseteq n.mask
      /\ x = [addr |-> x.addr, mask |-> x.mask] /\ n = [addr |-> n.addr, mask |-> n.mask]
  BY ClassFields
<1>2. CASE x = n
  BY <1>2 DEF MergeByLowestMaskBit
<1>3. CASE x # n /\ x.mask = n.mask
  <2>1. x.addr # n.addr
    BY <1>1, <1>3
  <2> QED
    BY <1>1, <1>3, <2>1 DEF Contains
<1>4. CASE x.mask # n.mask
  BY <1>4 DEF MergeByLowestMaskBit, Only
<1>5. x = n \/ (x # n /\ x.mask = n.mask) \/ x.mask # n.mask
  OBVIOUS
<1> QED
  BY <1>2, <1>3, <1>4, <1>5, Zenon

(* Networks that do not merge are no buddies.                              *)
LEMMA NotBuddies ==
  ASSUME NEW x \in BiContiguous, NEW n \in BiContiguous, MergeByLowestMaskBit(x, n) = {}
  PROVE  ~IsAdjacentByLowestMaskBit(x, n)
<1> SUFFICES ASSUME IsAdjacentByLowestMaskBit(x, n) PROVE FALSE
  OBVIOUS
<1>1. x.mask = n.mask
  BY DEF IsAdjacentByLowestMaskBit
<1>2. CASE x = n
  BY <1>2 DEF MergeByLowestMaskBit
<1>3. CASE x # n
  <2> DEFINE u == [addr |-> x.addr \cap n.addr, mask |-> ClearLowestSetBit(x.mask)]
  <2>1. MergeByLowestMaskBit(x, n) = Only(IsAdjacentByLowestMaskBit(x, n), u)
    BY <1>1, <1>3 DEF MergeByLowestMaskBit
  <2> QED
    BY <2>1 DEF Only
<1> QED
  BY <1>2, <1>3

(* Buddies are buddies either way.                                         *)
LEMMA BuddiesEither ==
  ASSUME NEW x, NEW y, IsAdjacentByLowestMaskBit(x, y)
  PROVE  IsAdjacentByLowestMaskBit(y, x)
<1>1. Xor(x.addr, y.addr) = Xor(y.addr, x.addr)
  BY DEF Xor
<1> QED
  BY <1>1, Zenon DEF IsAdjacentByLowestMaskBit

(* The bits of a word, by halves.                                          *)
LEMMA HalvesOf ==
  ASSUME NEW w \in Word
  PROVE  /\ High(w) \in Word /\ Low(w) \in Word /\ High(w) \cup Low(w) = w
         /\ \A i \in w : (i >= LowW /\ i \in High(w)) \/ (i < LowW /\ i \in Low(w))
         /\ \A i \in High(w) : i >= LowW /\ i \in w
         /\ \A i \in Low(w) : i < LowW /\ i \in w
<1>1. w \subseteq Bits /\ \A i \in Bits : i >= LowW \/ i < LowW
  BY WAssumption, WidthAssumption DEF Word, Bits
<1> QED
  BY <1>1 DEF High, Low, Word

(* In a row, the masks are comparable.                                     *)
LEMMA RowMasks ==
  ASSUME NEW hm, NEW ha, NEW x \in InRow(hm, ha), NEW n \in InRow(hm, ha)
  PROVE  x.mask \subseteq n.mask \/ n.mask \subseteq x.mask
<1>1. /\ x \in BiContiguous /\ n \in BiContiguous /\ High(x.mask) = hm /\ High(n.mask) = hm
      /\ x.mask \in Word /\ n.mask \in Word
  BY ClassFields DEF InRow
<1> SUFFICES ASSUME NEW i \in x.mask, i \notin n.mask, NEW j \in n.mask, j \notin x.mask
             PROVE  FALSE
  OBVIOUS
<1>2. i \in Bits /\ j \in Bits /\ i < LowW /\ j < LowW
  <2>1. i \notin High(x.mask) /\ j \notin High(n.mask)
    BY <1>1, HalvesOf
  <2> QED
    BY <1>1, <2>1, HalvesOf DEF Word
<1>3. i < j \/ j < i
  <2>1. i \in Int /\ j \in Int /\ i # j
    BY <1>2 DEF Bits
  <2> QED
    BY <2>1
<1>4. CASE i < j
  BY <1>1, <1>2, <1>4, RunUp
<1>5. CASE j < i
  BY <1>1, <1>2, <1>5, RunUp
<1> QED
  BY <1>3, <1>4, <1>5

(* In a row, when some address of n lies no lower than x and the two do    *)
(* not merge, all of x lies below n.                                       *)
LEMMA RowGap ==
  ASSUME NEW hm, NEW ha, NEW x \in InRow(hm, ha), NEW n \in InRow(hm, ha),
         MergeByLowestMaskBit(x, n) = {},
         NEW y \in Addrs(n), High(y) = ha, ~Lt(y, x.addr)
  PROVE  <<x, n>> \in Below(ha)
<1>1. /\ x \in BiContiguous /\ n \in BiContiguous /\ High(x.mask) = hm /\ High(n.mask) = hm
      /\ High(x.addr) = ha /\ High(n.addr) = ha
      /\ x.mask \in Word /\ n.mask \in Word /\ x.addr \in Word /\ n.addr \in Word
      /\ x.addr \subseteq x.mask /\ n.addr \subseteq n.mask
  BY ClassFields DEF InRow
<1>2. PICK b \in Bits : /\ b \in x.mask /\ b \in n.mask
                        /\ ~(b \in x.addr <=> b \in n.addr)
  <2>1. ~Contains(x, n) /\ ~Contains(n, x)
    <3>1. x \in BiContiguous /\ n \in BiContiguous
      BY <1>1
    <3> QED
      BY <3>1, NotNested
  <2>2. x.mask \subseteq Bits /\ n.mask \subseteq Bits
    BY <1>1 DEF Word
  <2>3. CASE x.mask \subseteq n.mask
    BY <2>1, <2>3, <1>1, <2>2 DEF Contains
  <2>4. CASE n.mask \subseteq x.mask
    BY <2>1, <2>4, <1>1, <2>2 DEF Contains
  <2> QED
    BY <2>3, <2>4, RowMasks
<1> DEFINE diff == (x.addr \ n.addr) \cup (n.addr \ x.addr)
<1>3. PICK d \in diff : \A k \in diff : k <= d
  <2>1. diff \subseteq 0 .. (W - 1) /\ W - 1 \in Nat /\ diff # {}
    BY <1>1, <1>2, WAssumption DEF Word, Bits
  <2> HIDE DEF diff
  <2> QED
    BY <2>1, GreatestNatural
<1>4. b \in diff /\ b <= d /\ d \in Bits /\ b < LowW
  <2>1. b \in diff
    BY <1>2
  <2>2. d \in Bits
    BY <1>1, <1>3 DEF Word
  <2>3. b \notin High(x.addr) \/ b \notin High(n.addr)
    BY <1>1, <1>2, HalvesOf
  <2>4. b < LowW
    BY <1>1, <1>2, <2>3, HalvesOf
  <2> QED
    BY <1>3, <2>1, <2>2, <2>4
<1>5. d < LowW /\ d \in Int
  BY <1>3, <1>1, <1>4, HalvesOf DEF Bits
<1>6. \A k \in Bits : k >= d /\ k < LowW => k \in x.mask /\ k \in n.mask
  <2> SUFFICES ASSUME NEW k \in Bits, k >= d, k < LowW PROVE k \in x.mask /\ k \in n.mask
    OBVIOUS
  <2>1. k \in Int /\ b \in Int /\ d \in Int /\ (b = k \/ b < k)
    BY <1>4 DEF Bits
  <2>2. CASE b = k
    BY <1>2, <2>2
  <2>3. CASE b < k
    BY <1>1, <1>2, <2>3, RunUp
  <2> QED
    BY <2>1, <2>2, <2>3
<1>7. \A k \in Bits : k > d => (k \in x.addr <=> k \in n.addr)
  <2> SUFFICES ASSUME NEW k \in Bits, k > d, ~(k \in x.addr <=> k \in n.addr) PROVE FALSE
    OBVIOUS
  <2>1. k \in diff /\ k \in Int
    BY DEF Bits
  <2> QED
    BY <1>3, <1>5, <2>1
<1> HIDE DEF diff
<1>8. ASSUME NEW z \in BiContiguous, z = x \/ z = n, NEW a \in Addrs(z), High(a) = ha
      PROVE  a \in Word /\ \A k \in Bits : k >= d => (k \in a <=> k \in z.addr)
  <2>1. a \in Word /\ a \cap z.mask = z.addr /\ High(z.addr) = ha /\ z.addr \in Word
    BY <1>1, <1>8 DEF Addrs
  <2> SUFFICES ASSUME NEW k \in Bits, k >= d PROVE k \in a <=> k \in z.addr
    BY <2>1
  <2>2. CASE k < LowW
    <3>1. k \in z.mask
      BY <1>6, <1>8, <2>2
    <3> QED
      BY <2>1, <3>1
  <2>3. CASE ~(k < LowW)
    BY <2>1, <2>3, HalvesOf, <1>8 DEF High
  <2> QED
    BY <2>2, <2>3
<1>9. y \in Word /\ \A k \in Bits : k >= d => (k \in y <=> k \in n.addr)
  BY <1>1, <1>8
<1>10. d \in n.addr /\ d \notin x.addr
  <2> SUFFICES ASSUME d \in x.addr, d \notin n.addr PROVE FALSE
    <3>1. ~(d \in x.addr <=> d \in n.addr)
      BY <1>3 DEF diff
    <3> QED
      BY <3>1
  <2>1. d \in x.addr \ y
    BY <1>4, <1>5, <1>9
  <2>2. ASSUME NEW k \in y \ x.addr PROVE k < d
    BY <1>9, <2>1, <1>5, <1>7 DEF Word, Bits
  <2>3. Lt(y, x.addr)
    BY <2>1, <2>2 DEF Lt
  <2> QED
    BY <2>3
<1>11. ASSUME NEW a \in Addrs(x), High(a) = ha PROVE Lt(a, n.addr)
  <2>1. a \in Word /\ \A k \in Bits : k >= d => (k \in a <=> k \in x.addr)
    BY <1>1, <1>8, <1>11
  <2>2. d \in n.addr \ a
    BY <1>4, <1>5, <1>10, <2>1
  <2>3. ASSUME NEW k \in a \ n.addr PROVE k < d
    BY <2>1, <2>2, <1>5, <1>7 DEF Word, Bits
  <2> QED
    BY <2>2, <2>3 DEF Lt
<1>12. ~IsAdjacentByLowestMaskBit(x, n)
  BY <1>1, NotBuddies
<1> QED
  BY <1>1, <1>11, <1>12 DEF Below, Couples

(* The address of a network is the least it names.                         *)
LEMMA AddrIsLeast ==
  ASSUME NEW n \in BiContiguous
  PROVE  /\ n.addr \in Addrs(n)
         /\ \A a \in Addrs(n) : a \in Word /\ ~Lt(a, n.addr)
<1>1. n \in Network /\ n.addr \in Word /\ n.mask \in Word /\ n.addr \subseteq n.mask
  BY ClassFields
<1>2. n.addr \in Addrs(n)
  BY <1>1 DEF Addrs
<1>3. ASSUME NEW a \in Addrs(n) PROVE a \in Word /\ ~Lt(a, n.addr)
  BY DEF Addrs, Lt
<1> QED
  BY <1>2, <1>3

(* What Place needs of the stack: it ascends, and the network to come      *)
(* does not lie all below its top.                                         *)
Ready(ha, s, n) ==
  /\ Chained(s, Below(ha))
  /\ s # <<>> => \E y \in Addrs(n) : High(y) = ha /\ ~Lt(y, s[Len(s)].addr)

(* What popping gives: a shorter stack, ready for the merge.               *)
PoppedReady(hm, ha, s, n, q) ==
  /\ q[1] \in Seq(InRow(hm, ha)) /\ q[2] \in InRow(hm, ha) /\ q = <<q[1], q[2]>>
  /\ Len(q[1]) = Len(s) - 1 /\ Len(s) \in Nat \ {0}
  /\ Ready(ha, q[1], q[2])
  /\ ~Lt(n.addr, q[2].addr)

(* Popping leaves the stack ready for the merge.                           *)
LEMMA PopReady ==
  ASSUME NEW hm, NEW ha, NEW s \in Seq(InRow(hm, ha)), NEW n \in InRow(hm, ha), Ready(ha, s, n),
         TopMerge(<<s, n>>) # {}
  PROVE  PoppedReady(hm, ha, s, n, Popped(<<s, n>>))
<1> DEFINE Q == InRow(hm, ha)
           q == Popped(<<s, n>>)
           l == Len(s)
           top == s[l]
<1>0. Q \subseteq BiContiguous /\ \A a, b \in Q : MergeByLowestMaskBit(a, b) \subseteq Q
  BY RowsMerge DEF Merging
<1>1. /\ s # <<>> /\ l \in Nat \ {0} /\ q[1] \in Seq(Q) /\ q[2] \in Q /\ Len(q[1]) = l - 1 /\ q = <<q[1], q[2]>>
  <2>1. s \in Seq(Q) /\ n \in Q
    OBVIOUS
  <2> HIDE DEF Q
  <2> QED
    BY <1>0, <2>1, PopIs
<1>2. q[1] = SubSeq(s, 1, l - 1) /\ q[2] \in MergeByLowestMaskBit(top, n)
  <2> DEFINE T == TopMerge(<<s, n>>)
  <2>1. T = MergeByLowestMaskBit(top, n)
    BY <1>1 DEF TopMerge
  <2>2. T # {}
    OBVIOUS
  <2>3. q = <<SubSeq(s, 1, l - 1), CHOOSE c \in T : TRUE>>
    BY DEF Popped
  <2> HIDE DEF T, q
  <2> QED
    BY <2>1, <2>2, <2>3
<1>3. \A i \in 1 .. (l - 1) : q[1][i] = s[i] /\ i \in 1 .. l
  <2>1. l - 1 \in 0 .. Len(s)
    BY <1>1
  <2>2. \A i \in 1 .. (l - 1) : SubSeq(s, 1, l - 1)[i] = s[i]
    BY <2>1, RowAndRest
  <2> HIDE DEF q
  <2> QED
    BY <1>1, <1>2, <2>2
<1>4. top \in Q /\ l \in 1 .. l
  BY <1>1, ElementOfSeq
<1>5. Addrs(q[2]) = Addrs(top) \cup Addrs(n)
  <2>1. top \in BiContiguous /\ n \in BiContiguous
    BY <1>0, <1>4
  <2> HIDE DEF q, top
  <2> QED
    BY <1>2, <2>1, MergeStays
<1>6. top \in BiContiguous /\ n \in BiContiguous /\ q[2] \in BiContiguous /\ High(top.addr) = ha
  BY <1>0, <1>1, <1>4 DEF InRow
<1> HIDE DEF q, top, Q
<1>7. ~Lt(n.addr, q[2].addr)
  <2>1. n.addr \in Addrs(q[2])
    BY <1>5, <1>6, AddrIsLeast
  <2> QED
    BY <1>6, <2>1, AddrIsLeast
<1>8. Chained(q[1], Below(ha))
  <2>1. \A i, j \in 1 .. l : i < j => <<s[i], s[j]>> \in Below(ha)
    BY DEF Ready, Chained
  <2> QED
    BY <1>1, <1>3, <2>1 DEF Chained
<1>9. ASSUME q[1] # <<>>
      PROVE  \E y \in Addrs(q[2]) : High(y) = ha /\ ~Lt(y, q[1][Len(q[1])].addr)
  <2>1. l - 1 \in 1 .. (l - 1)
    BY <1>1, <1>9, EmptySeq DEF Q
  <2>2. q[1][l - 1] = s[l - 1] /\ l - 1 \in 1 .. l /\ l - 1 < l
    BY <1>1, <1>3, <2>1
  <2>3. <<s[l - 1], top>> \in Below(ha)
    BY <1>4, <2>2 DEF Ready, Chained, top
  <2>4. s[l - 1] \in BiContiguous /\ High(s[l - 1].addr) = ha
    BY <2>2, ElementOfSeq DEF InRow
  <2>5. s[l - 1].addr \in Addrs(s[l - 1])
    BY <2>4, AddrIsLeast
  <2>6. Lt(s[l - 1].addr, top.addr)
    BY <2>3, <2>4, <2>5 DEF Below
  <2>7. ~Lt(top.addr, s[l - 1].addr)
    <3>1. top.addr \in Word /\ s[l - 1].addr \in Word
      BY <1>6, <2>4, ClassFields
    <3> QED
      BY <2>6, <3>1, LtAsymmetric
  <2>8. top.addr \in Addrs(q[2])
    BY <1>5, <1>6, AddrIsLeast
  <2> QED
    BY <1>1, <1>6, <2>2, <2>7, <2>8
<1>10. Ready(ha, q[1], q[2])
  BY <1>8, <1>9 DEF Ready
<1>11. PoppedReady(hm, ha, s, n, q)
  BY <1>1, <1>7, <1>10, Zenon DEF PoppedReady, Q, l
<1> QED
  BY <1>11 DEF q

(* Nothing of a row lies between two buddies of it.                        *)
LEMMA BetweenBuddies ==
  ASSUME NEW hm, NEW ha, NEW x \in InRow(hm, ha), NEW t \in InRow(hm, ha), NEW n \in InRow(hm, ha),
         <<x, t>> \in Below(ha), <<t, n>> \in Below(ha)
  PROVE  ~IsAdjacentByLowestMaskBit(x, n)
<1> SUFFICES ASSUME IsAdjacentByLowestMaskBit(x, n) PROVE FALSE
  OBVIOUS
<1>1. /\ x \in BiContiguous /\ t \in BiContiguous /\ n \in BiContiguous
      /\ High(x.addr) = ha /\ High(t.addr) = ha /\ High(n.addr) = ha
      /\ x.addr \in Word /\ t.addr \in Word /\ n.addr \in Word /\ x.mask \in Word
      /\ x.addr \subseteq x.mask /\ n.addr \subseteq n.mask
  BY ClassFields DEF InRow
<1>2. /\ \A a \in Addrs(x) : High(a) = ha => Lt(a, t.addr)
      /\ \A a \in Addrs(t) : High(a) = ha => Lt(a, n.addr)
  BY DEF Below
<1>3. x.mask = n.mask /\ Xor(x.addr, n.addr) = LowestSetBit(x.mask)
  BY DEF IsAdjacentByLowestMaskBit
<1>4. Lt(x.addr, t.addr) /\ Lt(t.addr, n.addr) /\ Lt(x.addr, n.addr)
  <2>1. Lt(x.addr, t.addr) /\ Lt(t.addr, n.addr)
    BY <1>1, <1>2, AddrIsLeast
  <2> QED
    BY <1>1, <2>1, LtTransitive
<1>5. PICK b \in n.addr : b \notin x.addr
  BY <1>4 DEF Lt
<1>6. /\ b \in x.mask /\ \A j \in x.mask : b <= j
      /\ \A j : j \in Xor(x.addr, n.addr) => j \in x.mask /\ \A k \in x.mask : j <= k
  <2>1. b \in Xor(x.addr, n.addr)
    BY <1>5 DEF Xor
  <2> QED
    BY <1>3, <2>1 DEF LowestSetBit
<1>7. /\ b \in Nat /\ b < LowW /\ b \in Bits /\ LowW \in Nat
      /\ \A j \in n.addr : j = b \/ j \in x.addr
  <2>1. x.mask \subseteq Nat /\ x.mask \subseteq Bits /\ LowW \in Nat
    BY <1>1, WAssumption, WidthAssumption DEF Word, Bits
  <2>2. b < LowW
    <3>1. b \notin High(n.addr)
      BY <1>1, <1>5, HalvesOf
    <3> QED
      BY <1>1, <1>5, <3>1, HalvesOf
  <2>3. ASSUME NEW j \in n.addr, j # b, j \notin x.addr PROVE FALSE
    BY <2>3, <1>6, <2>1 DEF Xor
  <2> QED
    BY <1>6, <2>1, <2>2, <2>3
<1> DEFINE g == x.addr \cup {i \in Bits : i < b}
<1>8. g \in Addrs(x) /\ High(g) = ha
  <2>1. g \in Word
    BY <1>1 DEF Word
  <2>2. \A i \in g : i \in x.mask => i \in x.addr
    <3> SUFFICES ASSUME NEW i \in Bits, i < b, i \in x.mask PROVE FALSE
      OBVIOUS
    <3>1. b <= i /\ i \in Int
      BY <1>6 DEF Bits
    <3> QED
      BY <1>7, <3>1
  <2>3. g \cap x.mask = x.addr
    BY <1>1, <2>2
  <2>4. \A i \in g : i >= LowW => i \in x.addr
    <3> SUFFICES ASSUME NEW i \in Bits, i < b, i >= LowW PROVE FALSE
      OBVIOUS
    <3>1. i \in Int
      BY DEF Bits
    <3> QED
      BY <1>7, <3>1
  <2>5. High(g) = High(x.addr)
    BY <2>4 DEF High
  <2> QED
    BY <1>1, <2>1, <2>3, <2>5 DEF Addrs
<1>9. PICK i \in t.addr \ g : \A j \in g \ t.addr : j < i
  BY <1>2, <1>8 DEF Lt
<1>10. PICK k \in n.addr \ t.addr : \A j \in t.addr \ n.addr : j < k
  BY <1>4 DEF Lt
<1>11. i \in Bits /\ k \in Bits /\ i \in Int /\ k \in Int /\ b <= i
  BY <1>1, <1>9, <1>10, <1>7 DEF Word, Bits
<1>12. k \in x.addr => k < i /\ b <= k
  BY <1>1, <1>6, <1>9, <1>10
<1> HIDE DEF g
<1>13. CASE i \in n.addr
  <2>1. i = b
    BY <1>7, <1>8, <1>9, <1>13 DEF g
  <2>2. k # b
    BY <1>9, <1>10, <2>1
  <2> QED
    BY <1>7, <1>10, <1>11, <1>12, <2>1, <2>2
<1>14. CASE i \notin n.addr
  BY <1>9, <1>10, <1>14, <1>7, <1>11, <1>12
<1> QED
  BY <1>13, <1>14

(* Appending what does not merge with the top keeps the stack ascending.   *)
LEMMA AppendReady ==
  ASSUME NEW hm, NEW ha, NEW s \in Seq(InRow(hm, ha)), NEW n \in InRow(hm, ha), Ready(ha, s, n),
         TopMerge(<<s, n>>) = {}
  PROVE  Chained(Append(s, n), Below(ha))
<1> DEFINE Q == InRow(hm, ha)
           l == Len(s)
           t == Append(s, n)
<1>1. /\ l \in Nat /\ t \in Seq(Q) /\ Len(t) = l + 1 /\ t[l + 1] = n
      /\ \A i \in 1 .. l : t[i] = s[i]
  BY AppendProperties, LenProperties
<1>2. \A i, j \in 1 .. l : i < j => <<s[i], s[j]>> \in Below(ha)
  BY DEF Ready, Chained
<1>3. ASSUME NEW i \in 1 .. l PROVE <<s[i], n>> \in Below(ha)
  <2> DEFINE top == s[l]
  <2>1. s # <<>> /\ l \in 1 .. l /\ top \in Q /\ s[i] \in Q
    BY <1>1, EmptySeq, ElementOfSeq
  <2>2. MergeByLowestMaskBit(top, n) = {}
    BY <2>1 DEF TopMerge
  <2>3. PICK y \in Addrs(n) : High(y) = ha /\ ~Lt(y, top.addr)
    BY <2>1 DEF Ready
  <2>4. top \in InRow(hm, ha) /\ n \in InRow(hm, ha)
    BY <2>1
  <2> HIDE DEF top
  <2>5. <<top, n>> \in Below(ha)
    BY <2>2, <2>3, <2>4, RowGap
  <2>6. CASE i = l
    BY <2>5, <2>6 DEF top
  <2>7. CASE i < l
    <3>1. <<s[i], top>> \in Below(ha)
      BY <1>2, <2>1, <2>7 DEF top
    <3>2. /\ s[i] \in BiContiguous /\ top \in BiContiguous /\ n \in BiContiguous
          /\ High(top.addr) = ha /\ top.addr \in Addrs(top)
          /\ top.addr \in Word /\ n.addr \in Word
      BY <2>1, <2>4, ClassFields, AddrIsLeast DEF InRow
    <3>3. Lt(top.addr, n.addr)
      BY <2>5, <3>2 DEF Below
    <3>4. ASSUME NEW a \in Addrs(s[i]), High(a) = ha PROVE Lt(a, n.addr)
      <4>1. Lt(a, top.addr) /\ a \in Word
        BY <3>1, <3>2, <3>4, AddrIsLeast DEF Below
      <4> QED
        BY <3>2, <3>3, <4>1, LtTransitive
    <3>5. ~IsAdjacentByLowestMaskBit(s[i], n)
      <4>1. s[i] \in InRow(hm, ha)
        BY <2>1
      <4> QED
        BY <2>4, <2>5, <3>1, <4>1, BetweenBuddies
    <3> QED
      BY <3>2, <3>4, <3>5 DEF Below, Couples
  <2> QED
    BY <1>1, <2>6, <2>7
<1> HIDE DEF t, l
<1> SUFFICES ASSUME NEW i \in 1 .. (l + 1), NEW j \in 1 .. (l + 1), i < j
             PROVE  <<t[i], t[j]>> \in Below(ha)
  BY <1>1 DEF Chained, t
<1>4. i \in 1 .. l /\ t[i] = s[i]
  BY <1>1
<1>5. CASE j = l + 1
  BY <1>1, <1>3, <1>4, <1>5
<1>6. CASE j # l + 1
  <2>1. j \in 1 .. l /\ t[j] = s[j]
    BY <1>1, <1>6
  <2> QED
    BY <1>2, <1>4, <2>1
<1> QED
  BY <1>5, <1>6

(* What Place leaves ascends, and its top does not start after the network *)
(* placed.                                                                 *)
LEMMA PlaceAscends ==
  ASSUME NEW hm, NEW ha, NEW s \in Seq(InRow(hm, ha)), NEW n \in InRow(hm, ha), Ready(ha, s, n)
  PROVE  LET t == Place[<<s, n>>]
         IN  Chained(t, Below(ha)) /\ ~Lt(n.addr, t[Len(t)].addr)
<1> DEFINE Q == InRow(hm, ha)
           D == {at \in Seq(Q) \X Q : Ready(ha, at[1], at[2])}
           size == [at \in D |-> Len(at[1])]
           good == {at \in D : /\ Chained(Place[at], Below(ha))
                               /\ ~Lt(at[2].addr, Place[at][Len(Place[at])].addr)}
<1>0. Q \subseteq BiContiguous /\ Merging(Q)
  BY RowsMerge DEF Merging
<1>1. ASSUME NEW at \in D
      PROVE  at[1] \in Seq(Q) /\ at[2] \in Q /\ at = <<at[1], at[2]>> /\ Ready(ha, at[1], at[2])
  OBVIOUS
<1>2. size \in [D -> Nat]
  BY <1>1, LenProperties
<1>3. ASSUME NEW at \in D, \A e \in D : size[e] < size[at] => e \in good PROVE at \in good
  <2> DEFINE st == at[1]
             m == at[2]
  <2>1. st \in Seq(Q) /\ m \in Q /\ at = <<st, m>> /\ Ready(ha, st, m) /\ m.addr \in Word
    BY <1>0, <1>1, ClassFields
  <2>2. at \in Pushes
    <3>1. st \in Seq(BiContiguous) /\ m \in BiContiguous
      BY <1>0, <2>1, SeqMonotonic
    <3> HIDE DEF st, m
    <3> QED
      BY <2>1, <3>1 DEF Pushes
  <2>3. Place[at] = IF TopMerge(at) = {} THEN Append(st, m) ELSE Place[Popped(at)]
    BY <2>2, PlaceUnfolds
  <2> HIDE DEF st, m
  <2>4. CASE TopMerge(at) = {}
    <3>1. Chained(Append(st, m), Below(ha))
      BY <2>1, <2>4, AppendReady
    <3>2. Place[at] = Append(st, m)
      BY <2>3, <2>4
    <3>3. Append(st, m)[Len(Append(st, m))] = m
      BY <2>1, AppendProperties, LenProperties
    <3>4. ~Lt(m.addr, m.addr)
      BY <2>1, LtAsymmetric
    <3>5. Chained(Place[at], Below(ha))
      BY <3>1, <3>2, Zenon
    <3>6. ~Lt(m.addr, Place[at][Len(Place[at])].addr)
      BY <3>2, <3>3, <3>4, Zenon
    <3> QED
      BY <3>5, <3>6 DEF m
  <2>5. CASE TopMerge(at) # {}
    <3> DEFINE q == Popped(at)
    <3>1. /\ q[1] \in Seq(Q) /\ q[2] \in Q /\ q = <<q[1], q[2]>>
          /\ Len(q[1]) = Len(st) - 1 /\ Len(st) \in Nat \ {0}
          /\ Ready(ha, q[1], q[2])
          /\ ~Lt(m.addr, q[2].addr)
      <4>1. TopMerge(<<st, m>>) # {} /\ q = Popped(<<st, m>>)
        BY <2>1, <2>5
      <4>2. PoppedReady(hm, ha, st, m, Popped(<<st, m>>))
        BY <2>1, <4>1, PopReady
      <4> HIDE DEF q
      <4> QED
        BY <4>1, <4>2, Zenon DEF PoppedReady
    <3> HIDE DEF q
    <3>2. q \in D
      BY <3>1
    <3>3. size[q] < size[at]
      <4>1. size[q] = Len(st) - 1 /\ size[at] = Len(st)
        BY <3>1, <3>2 DEF st
      <4> QED
        BY <3>1, <4>1
    <3>4. q \in good
      <4> HIDE DEF D, size, good
      <4> QED
        BY <1>3, <3>2, <3>3
    <3> DEFINE t == Place[q]
    <3>5. Chained(t, Below(ha)) /\ ~Lt(q[2].addr, t[Len(t)].addr)
      BY <3>4
    <3>6. Place[at] = t
      BY <2>3, <2>5 DEF q
    <3>7. t[Len(t)].addr \in Word /\ q[2].addr \in Word
      <4>1. t \in Seq(Q) /\ Len(t) \in 1 .. (Len(q[1]) + 1)
        <5> HIDE DEF Q
        <5> QED
          BY <1>0, <3>1, PlaceIs
      <4> HIDE DEF t
      <4>2. Len(t) \in 1 .. Len(t) /\ Len(q[1]) \in Nat
        BY <3>1, <4>1, LenProperties
      <4>3. t[Len(t)] \in Q
        BY <4>1, <4>2, ElementOfSeq
      <4> QED
        BY <1>0, <3>1, <4>3, ClassFields
    <3> HIDE DEF t
    <3>8. ~Lt(m.addr, t[Len(t)].addr)
      BY <2>1, <3>1, <3>5, <3>7, LeTransitive
    <3> QED
      BY <3>5, <3>6, <3>8 DEF m
  <2> QED
    BY <2>4, <2>5
<1>4. \A at \in D : at \in good
  <2> HIDE DEF D, size, good
  <2> QED
    BY <1>2, <1>3, InductOnSize
<1>5. <<s, n>> \in D
  OBVIOUS
<1>6. <<s, n>> \in good
  <2> HIDE DEF D, good
  <2> QED
    BY <1>4, <1>5
<1> QED
  BY <1>6

(* Words with one high half compare as their low halves.                   *)
LEMMA LtLow ==
  ASSUME NEW a \in Word, NEW b \in Word, High(a) = High(b)
  PROVE  Lt(a, b) <=> Lt(Low(a), Low(b))
<1>0. a \subseteq Bits /\ b \subseteq Bits /\ \A i \in Bits : i >= LowW \/ i < LowW
  BY WAssumption, WidthAssumption DEF Word, Bits
<1>1. a \ b = Low(a) \ Low(b)
  BY <1>0 DEF High, Low
<1>2. b \ a = Low(b) \ Low(a)
  BY <1>0 DEF High, Low
<1> QED
  BY <1>1, <1>2 DEF Lt

(* The halves of the words of a network.                                   *)
LEMMA NetHalves ==
  ASSUME NEW n \in BiContiguous
  PROVE  /\ n.addr \in Word /\ n.mask \in Word
         /\ High(n.addr) \in Word /\ Low(n.addr) \in Word
         /\ High(n.mask) \in Word /\ Low(n.mask) \in Word
<1>1. n.addr \in Word /\ n.mask \in Word
  BY ClassFields
<1> QED
  BY <1>1, HalvesOf

(* In a row, what stands later does not start earlier.                     *)
LEMMA RowOrder ==
  ASSUME NEW hm, NEW ha, NEW x \in InRow(hm, ha), NEW y \in InRow(hm, ha), <<x, y>> \in NotAfter
  PROVE  ~Lt(y.addr, x.addr)
<1>1. /\ x \in BiContiguous /\ y \in BiContiguous /\ High(x.mask) = High(y.mask)
      /\ High(x.addr) = High(y.addr) /\ x.addr \in Word /\ y.addr \in Word
  BY NetHalves DEF InRow
<1>2. ~KeyBefore(LevelKey(y), LevelKey(x))
  BY DEF NotAfter
<1>3. ~Lt(Low(y.addr), Low(x.addr))
  BY <1>1, <1>2, LevelOrder
<1> QED
  BY <1>1, <1>3, LtLow

(* A row is reduced to networks of which each lies below the next.         *)
LEMMA CanonicalRowAscends ==
  ASSUME NEW hm, NEW ha
  PROVE  \A row \in Seq(InRow(hm, ha)) :
           Chained(row, NotAfter) =>
             /\ Chained(CanonicalRow[row], Below(ha))
             /\ row # <<>> => /\ CanonicalRow[row] # <<>>
                              /\ ~Lt(row[Len(row)].addr, CanonicalRow[row][Len(CanonicalRow[row])].addr)
<1> DEFINE Q == InRow(hm, ha)
           D == {row \in Seq(Q) : Chained(row, NotAfter)}
           size == [row \in D |-> Len(row)]
           Fine(row, c) ==
             /\ Chained(c, Below(ha))
             /\ row # <<>> => c # <<>> /\ ~Lt(row[Len(row)].addr, c[Len(c)].addr)
           good == {row \in D : Fine(row, CanonicalRow[row])}
<1>1. Q \subseteq BiContiguous /\ Merging(Q)
  BY RowsMerge DEF Merging
<1>2. size \in [D -> Nat]
  BY LenProperties
<1>3. ASSUME NEW row \in D, \A e \in D : size[e] < size[row] => e \in good PROVE row \in good
  <2>0. row \in Seq(Q) /\ Chained(row, NotAfter)
    OBVIOUS
  <2>1. row \in Seq(BiContiguous)
    <3> HIDE DEF Q
    <3> QED
      BY <1>1, <2>0, SeqMonotonic
  <2>2. CASE row = <<>>
    <3>1. CanonicalRow[row] = <<>>
      BY <2>1, <2>2, CanonicalRowUnfolds
    <3>2. Chained(<<>>, Below(ha))
      BY DEF Chained
    <3> QED
      BY <2>2, <3>1, <3>2
  <2>3. CASE row # <<>>
    <3> DEFINE l == Len(row)
               front == SubSeq(row, 1, l - 1)
               n == row[l]
               c == CanonicalRow[front]
               t == Place[<<c, n>>]
    <3>1. l \in Nat \ {0} /\ n \in Q /\ front \in Seq(Q) /\ Len(front) = l - 1
      BY <2>0, <2>3, FrontIs
    <3>2. CanonicalRow[row] = t
      BY <2>1, <2>3, CanonicalRowUnfolds
    <3>3. \A i \in 1 .. (l - 1) : front[i] = row[i]
      <4>1. l - 1 \in 0 .. Len(row)
        BY <3>1
      <4> QED
        BY <2>0, <4>1, RowAndRest
    <3> HIDE DEF front, t
    <3>4. \A i, j \in 1 .. l : i < j => <<row[i], row[j]>> \in NotAfter
      BY <2>0 DEF Chained
    <3> HIDE DEF l, n
    <3>5. front \in D
      <4>1. Chained(front, NotAfter)
        BY <3>1, <3>3, <3>4 DEF Chained
      <4> QED
        BY <3>1, <4>1
    <3>6. front \in good
      <4>1. size[front] < size[row]
        BY <3>1, <3>5 DEF l
      <4> HIDE DEF good, size, D
      <4> QED
        BY <1>3, <3>5, <4>1
    <3>7. Fine(front, c)
      BY <3>6
    <3>8. c \in Seq(Q)
      <4> HIDE DEF Q
      <4> QED
        BY <1>1, <3>1, CanonicalRowIs
    <3>9. Ready(ha, c, n)
      <4>1. ASSUME c # <<>> PROVE \E y \in Addrs(n) : High(y) = ha /\ ~Lt(y, c[Len(c)].addr)
        <5>1. front # <<>>
          <6>1. front \in Seq(BiContiguous)
            <7> HIDE DEF Q
            <7> QED
              BY <1>1, <3>1, SeqMonotonic
          <6> QED
            BY <4>1, <6>1, CanonicalRowUnfolds
        <5>2. ~Lt(front[Len(front)].addr, c[Len(c)].addr)
          BY <3>7, <5>1
        <5>3. l - 1 \in 1 .. (l - 1) /\ l - 1 \in 1 .. l /\ l \in 1 .. l /\ l - 1 < l
          BY <3>1, <5>1, EmptySeq
        <5> DEFINE f == row[l - 1]
                   e == c[Len(c)]
        <5>4. front[Len(front)] = f /\ <<f, n>> \in NotAfter
          BY <3>1, <3>3, <3>4, <5>3 DEF n
        <5>5. f \in Q
          BY <2>0, <5>3, ElementOfSeq DEF l
        <5>6. e \in Q
          <6>1. Len(c) \in 1 .. Len(c)
            BY <3>8, <4>1, EmptySeq, LenProperties
          <6> QED
            BY <3>8, <6>1, ElementOfSeq
        <5> HIDE DEF e, f, c
        <5>7. ~Lt(n.addr, f.addr)
          <6>1. f \in InRow(hm, ha) /\ n \in InRow(hm, ha)
            BY <3>1, <5>5
          <6> QED
            BY <5>4, <6>1, RowOrder
        <5>8. e.addr \in Word /\ f.addr \in Word /\ n.addr \in Word /\ n.addr \in Addrs(n) /\ High(n.addr) = ha
          BY <3>1, <5>5, <5>6, ClassFields, AddrIsLeast DEF InRow
        <5>9. ~Lt(f.addr, e.addr)
          BY <5>2, <5>4 DEF e
        <5>10. ~Lt(n.addr, e.addr)
          BY <5>7, <5>8, <5>9, LeTransitive
        <5> QED
          BY <5>8, <5>10 DEF e
      <4> QED
        BY <3>7, <4>1 DEF Ready
    <3>10. Chained(t, Below(ha)) /\ ~Lt(n.addr, t[Len(t)].addr)
      <4>1. c \in Seq(InRow(hm, ha)) /\ n \in InRow(hm, ha)
        BY <3>1, <3>8
      <4> HIDE DEF c
      <4> QED
        BY <3>9, <4>1, PlaceAscends DEF t
    <3>11. t # <<>>
      <4>1. t \in Seq(Q) /\ Len(t) \in 1 .. (Len(c) + 1)
        <5> HIDE DEF Q, c
        <5> QED
          BY <1>1, <3>1, <3>8, PlaceIs DEF t
      <4> HIDE DEF c
      <4>2. Len(t) \in Nat /\ Len(c) \in Nat
        BY <3>8, <4>1, LenProperties
      <4> QED
        BY <4>1, <4>2, EmptySeq
    <3>12. Fine(row, t)
      BY <3>10, <3>11 DEF n, l
    <3>13. Fine(row, CanonicalRow[row])
      BY <3>2, <3>12
    <3> QED
      BY <3>13
  <2> QED
    BY <2>2, <2>3
<1>4. \A row \in D : row \in good
  <2> HIDE DEF D, size, good
  <2> QED
    BY <1>2, <1>3, InductOnSize
<1> QED
  BY <1>4

(* In a row, what lies below stands before and does not overlap.           *)
LEMMA BelowIs ==
  ASSUME NEW hm, NEW ha, NEW x \in InRow(hm, ha), NEW y \in InRow(hm, ha), <<x, y>> \in Below(ha)
  PROVE  /\ <<x, y>> \in NotAfter
         /\ <<x, y>> \in Separate(Word)
<1>1. /\ x \in BiContiguous /\ y \in BiContiguous /\ <<x, y>> \in Couples
      /\ High(x.mask) = High(y.mask) /\ High(x.addr) = ha /\ High(y.addr) = ha
      /\ x.addr \in Word /\ y.addr \in Word
  BY NetHalves DEF InRow, Couples
<1>2. x.addr \in Addrs(x)
  BY <1>1, AddrIsLeast
<1>3. \A a \in Addrs(x) : High(a) = ha => Lt(a, y.addr)
  BY DEF Below
<1>4. Lt(x.addr, y.addr)
  BY <1>1, <1>2, <1>3
<1>5. ~Contains(x, y)
  <2> SUFFICES ASSUME Contains(x, y) PROVE FALSE
    OBVIOUS
  <2>1. y.addr \in Addrs(x)
    BY <1>1 DEF Contains, Addrs
  <2>2. Lt(y.addr, y.addr)
    BY <1>1, <1>3, <2>1
  <2> QED
    BY <1>1, <2>2, LtAsymmetric
<1>6. ~Contains(y, x)
  <2> SUFFICES ASSUME Contains(y, x) PROVE FALSE
    OBVIOUS
  <2>1. x.addr \in Addrs(y)
    BY <1>1 DEF Contains, Addrs
  <2>2. ~Lt(x.addr, y.addr)
    BY <1>1, <2>1, AddrIsLeast
  <2> QED
    BY <1>4, <2>2
<1>7. Lt(Low(x.addr), Low(y.addr)) /\ Low(x.addr) \in Word /\ Low(y.addr) \in Word
  BY <1>1, <1>4, LtLow, NetHalves
<1>8. ~KeyBefore(LevelKey(y), LevelKey(x))
  BY <1>1, NetHalves, LtAsymmetric, <1>7, LevelOrder
<1>9. ~IsAdjacentByLowestMaskBit(x, y)
  BY DEF Below
<1> QED
  BY <1>1, <1>5, <1>6, <1>8, <1>9 DEF NotAfter, Separate

(* Networks of two levels stand in the order of the levels.                *)
LEMMA LevelApart ==
  ASSUME NEW x \in BiContiguous, NEW y \in BiContiguous, Lt(High(x.mask), High(y.mask))
  PROVE  <<x, y>> \in NotAfter /\ \A H : <<x, y>> \in Separate(H)
<1>1. ~Lt(High(y.mask), High(x.mask)) /\ High(x.mask) # High(y.mask)
  BY NetHalves, LtAsymmetric
<1>2. ~KeyBefore(LevelKey(y), LevelKey(x))
  BY <1>1, LevelOrder
<1> QED
  BY <1>1, <1>2 DEF NotAfter, Separate, Couples

(* Networks of two rows of a level stand in the order of the rows, and do  *)
(* not contain one another.                                                *)
LEMMA RowApart ==
  ASSUME NEW x \in BiContiguous, NEW y \in BiContiguous, High(x.mask) = High(y.mask),
         Lt(High(x.addr), High(y.addr))
  PROVE  <<x, y>> \in NotAfter /\ \A H : <<x, y>> \in Separate(H)
<1>1. ~Lt(High(y.addr), High(x.addr)) /\ High(x.addr) # High(y.addr) /\ ~Lt(High(y.mask), High(x.mask))
  BY NetHalves, LtAsymmetric
<1>2. ~KeyBefore(LevelKey(y), LevelKey(x))
  BY <1>1, LevelOrder
<1>3. ASSUME NEW m \in BiContiguous, NEW n \in BiContiguous, High(m.mask) = High(n.mask), Contains(m, n)
      PROVE  High(m.addr) = High(n.addr)
  BY <1>3, ClassFields DEF Contains, High
<1>4. ~Contains(x, y) /\ ~Contains(y, x)
  BY <1>1, <1>3
<1> QED
  BY <1>1, <1>2, <1>4 DEF NotAfter, Separate, Couples

(* In a level, what stands later lies in the same row or a later one.      *)
LEMMA LevelRows ==
  ASSUME NEW hm, NEW x \in AtLevel(hm), NEW y \in AtLevel(hm), <<x, y>> \in NotAfter
  PROVE  ~Lt(High(y.addr), High(x.addr))
<1>1. x \in BiContiguous /\ y \in BiContiguous /\ High(x.mask) = High(y.mask)
  BY DEF AtLevel
<1> QED
  BY <1>1, LevelOrder DEF NotAfter

(* In order, and without containment.                                      *)
Tidy(t) == Chained(t, NotAfter) /\ Chained(t, Separate(Word))

(* A level is reduced to networks in order, none of which contains         *)
(* another, in rows that were there.                                       *)
LEMMA LowRowsTidy ==
  ASSUME NEW hm
  PROVE  \A s \in Seq(AtLevel(hm)) :
           Chained(s, NotAfter) =>
             /\ Tidy(AggregateLowRows[s])
             /\ \A i \in 1 .. Len(AggregateLowRows[s]) : \E k \in 1 .. Len(s) :
                  High(AggregateLowRows[s][i].addr) = High(s[k].addr)
<1> DEFINE Q == AtLevel(hm)
           D == {s \in Seq(Q) : Chained(s, NotAfter)}
           size == [s \in D |-> Len(s)]
           Fine(s, t) ==
             /\ Tidy(t)
             /\ \A i \in 1 .. Len(t) : \E k \in 1 .. Len(s) : High(t[i].addr) = High(s[k].addr)
           good == {s \in D : Fine(s, AggregateLowRows[s])}
<1>1. Q \subseteq BiContiguous
  BY DEF AtLevel
<1>2. size \in [D -> Nat]
  BY LenProperties
<1>3. ASSUME NEW s \in D, \A e \in D : size[e] < size[s] => e \in good PROVE s \in good
  <2>0. s \in Seq(Q) /\ Chained(s, NotAfter)
    OBVIOUS
  <2>1. s \in Seq(BiContiguous)
    <3> HIDE DEF Q
    <3> QED
      BY <1>1, <2>0, SeqMonotonic
  <2>2. CASE s = <<>>
    <3>1. AggregateLowRows[s] = <<>>
      BY <2>1, <2>2, LowRowsUnfolds
    <3>2. Fine(s, <<>>)
      BY DEF Chained, Tidy
    <3>3. Fine(s, AggregateLowRows[s])
      BY <3>1, <3>2, Zenon
    <3> QED
      BY <3>3
  <2>3. CASE s # <<>>
    <3> DEFINE l == FirstRow(s)
               row == SubSeq(s, 1, l)
               rest == SubSeq(s, l + 1, Len(s))
               ha == High(s[1].addr)
    <3>1. /\ l \in 1 .. Len(s) /\ Len(s) \in Nat /\ \A i \in 1 .. l : High(s[i].addr) = ha
          /\ l < Len(s) => High(s[l + 1].addr) # ha
      BY <2>0, <2>3, FirstRowIs
    <3>2. AggregateLowRows[s] = CanonicalRow[row] \o AggregateLowRows[rest]
      BY <2>1, <2>3, LowRowsUnfolds
    <3> HIDE DEF l, Q
    <3>3. l \in 0 .. Len(s)
      BY <3>1
    <3>4. /\ row \in Seq(Q) /\ Len(row) = l /\ \A i \in 1 .. l : row[i] = s[i]
          /\ rest \in Seq(Q) /\ Len(rest) = Len(s) - l
          /\ \A i \in 1 .. (Len(s) - l) : rest[i] = s[l + i]
      BY <2>0, <3>3, RowAndRest
    <3>5. row \in Seq(InRow(hm, ha))
      <4>1. \A i \in 1 .. l : s[i] \in InRow(hm, ha)
        <5> SUFFICES ASSUME NEW i \in 1 .. l PROVE s[i] \in InRow(hm, ha)
          OBVIOUS
        <5>1. i \in 1 .. Len(s)
          BY <3>1
        <5>2. s[i] \in Q
          BY <2>0, <5>1, ElementOfSeq
        <5> QED
          BY <3>1, <5>2 DEF Q, AtLevel, InRow
      <4> QED
        BY <3>1, <4>1, SubSeqProperties
    <3> DEFINE c == CanonicalRow[row]
               r == AggregateLowRows[rest]
    <3>6. c \in Seq(InRow(hm, ha)) /\ Len(c) <= l
      BY <3>4, <3>5, RowsMerge, CanonicalRowIs
    <3>7. c \in Seq(Q)
      <4>1. InRow(hm, ha) \subseteq Q
        BY DEF InRow, Q, AtLevel
      <4> HIDE DEF c
      <4> QED
        BY <3>6, <4>1, SeqMonotonic
    <3> HIDE DEF row, rest
    <3>8. \A i, j \in 1 .. Len(s) : i < j => <<s[i], s[j]>> \in NotAfter
      BY <2>0 DEF Chained
    <3>9. Chained(row, NotAfter) /\ Chained(rest, NotAfter)
      <4>1. ASSUME NEW i \in 1 .. Len(row), NEW j \in 1 .. Len(row), i < j
            PROVE  <<row[i], row[j]>> \in NotAfter
        <5>1. i \in 1 .. Len(s) /\ j \in 1 .. Len(s) /\ row[i] = s[i] /\ row[j] = s[j]
          BY <3>1, <3>4
        <5> QED
          BY <3>8, <4>1, <5>1
      <4>2. ASSUME NEW i \in 1 .. Len(rest), NEW j \in 1 .. Len(rest), i < j
            PROVE  <<rest[i], rest[j]>> \in NotAfter
        <5>1. l + i \in 1 .. Len(s) /\ l + j \in 1 .. Len(s) /\ l + i < l + j
          BY <3>1, <3>4, <4>2
        <5>2. rest[i] = s[l + i] /\ rest[j] = s[l + j]
          BY <3>4
        <5> QED
          BY <3>8, <5>1, <5>2
      <4> QED
        BY <4>1, <4>2 DEF Chained
    <3>10. rest \in good
      <4>1. rest \in D /\ size[rest] < size[s]
        BY <3>1, <3>4, <3>9
      <4> HIDE DEF good, size, D
      <4> QED
        BY <1>3, <4>1
    <3>11. Fine(rest, r)
      BY <3>10
    <3>12. Chained(c, Below(ha))
      BY <3>5, <3>9, CanonicalRowAscends
    <3>13. r \in Seq(Q)
      BY <3>4, LowRowsAre DEF Q
    <3>14. ASSUME NEW i \in 1 .. Len(s), l < i PROVE Lt(ha, High(s[i].addr))
      <4> DEFINE f == s[l + 1]
                 x == s[i]
                 y == s[1]
      <4>1. /\ 1 \in 1 .. Len(s) /\ l + 1 \in 1 .. Len(s) /\ l < Len(s) /\ 1 < l + 1
            /\ i = l + 1 \/ l + 1 < i
        BY <3>1, <3>14
      <4>2. f \in Q /\ x \in Q /\ y \in Q
        BY <2>0, <3>14, <4>1, ElementOfSeq
      <4>3. <<y, f>> \in NotAfter /\ (x = f \/ <<f, x>> \in NotAfter)
        BY <3>8, <3>14, <4>1
      <4>4. High(f.addr) # High(y.addr)
        BY <3>1, <4>1
      <4> HIDE DEF f, x, y, ha
      <4>5. High(f.addr) \in Word /\ High(x.addr) \in Word /\ High(y.addr) \in Word
        BY <1>1, <4>2, NetHalves
      <4>6. ~Lt(High(f.addr), High(y.addr))
        BY <4>2, <4>3, LevelRows DEF Q
      <4>7. Lt(High(y.addr), High(f.addr))
        BY <4>4, <4>5, <4>6, LtTotal
      <4>8. x = f \/ High(f.addr) = High(x.addr) \/ Lt(High(f.addr), High(x.addr))
        BY <4>2, <4>3, <4>5, LevelRows, LtTotal DEF Q
      <4>9. Lt(High(y.addr), High(x.addr))
        BY <4>5, <4>7, <4>8, LtTransitive
      <4> QED
        BY <4>9 DEF x, y, ha
    <3> DEFINE t == c \o r
    <3> HIDE DEF c, r, ha
    <3>15. /\ t \in Seq(Q) /\ Len(t) = Len(c) + Len(r) /\ Len(c) \in Nat /\ Len(r) \in Nat
           /\ \A i \in 1 .. Len(c) : t[i] = c[i]
           /\ \A i \in 1 .. Len(r) : t[Len(c) + i] = r[i]
      <4>1. \A i \in 1 .. (Len(c) + Len(r)) : t[i] = IF i <= Len(c) THEN c[i] ELSE r[i - Len(c)]
        BY <3>7, <3>13, ConcatProperties
      <4>2. Len(c) \in Nat /\ Len(r) \in Nat /\ t \in Seq(Q) /\ Len(t) = Len(c) + Len(r)
        BY <3>7, <3>13, ConcatProperties, LenProperties
      <4> HIDE DEF t
      <4>3. \A i \in 1 .. Len(c) : i \in 1 .. (Len(c) + Len(r)) /\ i <= Len(c)
        BY <4>2
      <4>4. \A i \in 1 .. Len(r) : /\ Len(c) + i \in 1 .. (Len(c) + Len(r))
                                   /\ ~(Len(c) + i <= Len(c)) /\ (Len(c) + i) - Len(c) = i
        BY <4>2
      <4>5. \A i \in 1 .. Len(c) : t[i] = c[i]
        BY <4>1, <4>3
      <4>6. \A i \in 1 .. Len(r) : t[Len(c) + i] = r[i]
        BY <4>1, <4>4
      <4> QED
        BY <4>2, <4>5, <4>6
    <3>16. \A i \in 1 .. Len(c) : c[i] \in InRow(hm, ha)
      BY <3>6, ElementOfSeq
    <3>17. \A i \in 1 .. Len(r) : r[i] \in Q
      BY <3>13, ElementOfSeq
    <3>18. \A i \in 1 .. Len(r) : Lt(ha, High(r[i].addr))
      <4> SUFFICES ASSUME NEW i \in 1 .. Len(r) PROVE Lt(ha, High(r[i].addr))
        OBVIOUS
      <4>1. PICK k \in 1 .. Len(rest) : High(r[i].addr) = High(rest[k].addr)
        BY <3>11
      <4>2. l + k \in 1 .. Len(s) /\ l < l + k /\ rest[k] = s[l + k]
        BY <3>1, <3>4
      <4> QED
        BY <3>14, <4>1, <4>2
    <3> DEFINE Fit(x, y) == <<x, y>> \in NotAfter /\ <<x, y>> \in Separate(Word)
    <3>19. \A i, j \in 1 .. Len(c) : i < j => Fit(c[i], c[j])
      <4> SUFFICES ASSUME NEW i \in 1 .. Len(c), NEW j \in 1 .. Len(c), i < j PROVE Fit(c[i], c[j])
        OBVIOUS
      <4>1. c[i] \in InRow(hm, ha) /\ c[j] \in InRow(hm, ha) /\ <<c[i], c[j]>> \in Below(ha)
        BY <3>12, <3>16 DEF Chained
      <4> QED
        BY <4>1, BelowIs
    <3>20. \A i, j \in 1 .. Len(r) : i < j => Fit(r[i], r[j])
      BY <3>11 DEF Tidy, Chained
    <3>21. \A i \in 1 .. Len(c) : \A j \in 1 .. Len(r) : Fit(c[i], r[j])
      <4> SUFFICES ASSUME NEW i \in 1 .. Len(c), NEW j \in 1 .. Len(r) PROVE Fit(c[i], r[j])
        OBVIOUS
      <4> DEFINE x == c[i]
                 y == r[j]
      <4>1. x \in InRow(hm, ha) /\ y \in Q /\ Lt(ha, High(y.addr))
        BY <3>16, <3>17, <3>18
      <4> HIDE DEF x, y
      <4>2. x \in BiContiguous /\ y \in BiContiguous /\ High(x.mask) = High(y.mask) /\ High(x.addr) = ha
        BY <4>1 DEF InRow, Q, AtLevel
      <4>3. <<x, y>> \in NotAfter /\ \A H : <<x, y>> \in Separate(H)
        BY <4>1, <4>2, RowApart
      <4> QED
        BY <4>3 DEF x, y
    <3>22. \A i, j \in 1 .. Len(t) : i < j => Fit(t[i], t[j])
      <4> HIDE DEF Fit, t
      <4> SUFFICES ASSUME NEW i \in 1 .. Len(t), NEW j \in 1 .. Len(t), i < j PROVE Fit(t[i], t[j])
        OBVIOUS
      <4>1. CASE j <= Len(c)
        <5>1. i \in 1 .. Len(c) /\ j \in 1 .. Len(c)
          BY <3>15, <4>1
        <5> QED
          BY <3>15, <3>19, <5>1
      <4>2. CASE i > Len(c)
        <5>1. /\ i - Len(c) \in 1 .. Len(r) /\ j - Len(c) \in 1 .. Len(r) /\ i - Len(c) < j - Len(c)
              /\ Len(c) + (i - Len(c)) = i /\ Len(c) + (j - Len(c)) = j
          BY <3>15, <4>2
        <5>2. t[i] = r[i - Len(c)] /\ t[j] = r[j - Len(c)]
          BY <3>15, <5>1
        <5> QED
          BY <3>20, <5>1, <5>2
      <4>3. CASE i <= Len(c) /\ j > Len(c)
        <5>1. i \in 1 .. Len(c) /\ j - Len(c) \in 1 .. Len(r) /\ Len(c) + (j - Len(c)) = j
          BY <3>15, <4>3
        <5>2. t[i] = c[i] /\ t[j] = r[j - Len(c)]
          BY <3>15, <5>1
        <5> QED
          BY <3>21, <5>1, <5>2
      <4> QED
        BY <3>15, <4>1, <4>2, <4>3
    <3>23. Tidy(t)
      BY <3>22 DEF Tidy, Chained
    <3>24. ASSUME NEW i \in 1 .. Len(t) PROVE \E k \in 1 .. Len(s) : High(t[i].addr) = High(s[k].addr)
      <4> HIDE DEF t
      <4>1. CASE i <= Len(c)
        <5>1. i \in 1 .. Len(c) /\ t[i] = c[i] /\ 1 \in 1 .. Len(s)
          BY <3>1, <3>15, <4>1
        <5> QED
          BY <3>16, <5>1 DEF InRow, ha
      <4>2. CASE i > Len(c)
        <5>1. i - Len(c) \in 1 .. Len(r) /\ Len(c) + (i - Len(c)) = i
          BY <3>15, <4>2
        <5>2. t[i] = r[i - Len(c)]
          BY <3>15, <5>1
        <5>3. PICK k \in 1 .. Len(rest) : High(r[i - Len(c)].addr) = High(rest[k].addr)
          BY <3>11, <5>1
        <5>4. l + k \in 1 .. Len(s) /\ rest[k] = s[l + k]
          BY <3>1, <3>4
        <5> QED
          BY <5>2, <5>3, <5>4
      <4> QED
        BY <3>15, <4>1, <4>2
    <3>25. AggregateLowRows[s] = t
      BY <3>2 DEF c, r
    <3>26. Fine(s, t)
      BY <3>23, <3>24
    <3>27. Fine(s, AggregateLowRows[s])
      <4> HIDE DEF Fine, t
      <4> QED
        BY <3>25, <3>26
    <3> QED
      BY <3>27
  <2> QED
    BY <2>2, <2>3
<1>4. \A s \in D : s \in good
  <2> HIDE DEF D, size, good
  <2> QED
    BY <1>2, <1>3, InductOnSize
<1> QED
  BY <1>4

-----------------------------------------------------------------------------
(* Chains                                                                  *)

(* The words above w, and those no lower than w.                           *)
Above(w) == {x \in Word : Lt(w, x)}
From(w) == {x \in Word : Le(w, x)}

(* Two sequences, one after the other.                                     *)
LEMMA BothAre ==
  ASSUME NEW S, NEW a \in Seq(S), NEW b \in Seq(S)
  PROVE  /\ a \o b \in Seq(S) /\ Len(a \o b) = Len(a) + Len(b)
         /\ Len(a) \in Nat /\ Len(b) \in Nat
         /\ \A i \in 1 .. Len(a) : (a \o b)[i] = a[i]
         /\ \A i \in 1 .. Len(b) : (a \o b)[Len(a) + i] = b[i]
<1> DEFINE t == a \o b
<1>1. \A i \in 1 .. (Len(a) + Len(b)) : t[i] = IF i <= Len(a) THEN a[i] ELSE b[i - Len(a)]
  BY ConcatProperties
<1>2. Len(a) \in Nat /\ Len(b) \in Nat /\ t \in Seq(S) /\ Len(t) = Len(a) + Len(b)
  BY ConcatProperties, LenProperties
<1> HIDE DEF t
<1>3. \A i \in 1 .. Len(a) : i \in 1 .. (Len(a) + Len(b)) /\ i <= Len(a)
  BY <1>2
<1>4. \A i \in 1 .. Len(b) : /\ Len(a) + i \in 1 .. (Len(a) + Len(b))
                             /\ ~(Len(a) + i <= Len(a)) /\ (Len(a) + i) - Len(a) = i
  BY <1>2
<1>5. \A i \in 1 .. Len(a) : t[i] = a[i]
  BY <1>1, <1>3
<1>6. \A i \in 1 .. Len(b) : t[Len(a) + i] = b[i]
  BY <1>1, <1>4
<1> QED
  BY <1>2, <1>5, <1>6 DEF t

(* Two chains one after the other, when every entry of the first is        *)
(* related to every entry of the second.                                   *)
LEMMA BothChained ==
  ASSUME NEW S, NEW R, NEW a \in Seq(S), NEW b \in Seq(S), Chained(a, R), Chained(b, R),
         \A i \in 1 .. Len(a) : \A j \in 1 .. Len(b) : <<a[i], b[j]>> \in R
  PROVE  Chained(a \o b, R)
<1> DEFINE t == a \o b
           x == Len(a)
           y == Len(b)
<1>1. /\ Len(t) = x + y /\ x \in Nat /\ y \in Nat
      /\ \A i \in 1 .. x : t[i] = a[i]
      /\ \A i \in 1 .. y : t[x + i] = b[i]
  BY BothAre
<1>2. /\ \A i, j \in 1 .. x : i < j => <<a[i], a[j]>> \in R
      /\ \A i, j \in 1 .. y : i < j => <<b[i], b[j]>> \in R
      /\ \A i \in 1 .. x : \A j \in 1 .. y : <<a[i], b[j]>> \in R
  BY DEF Chained
<1> HIDE DEF t, x, y
<1> SUFFICES ASSUME NEW i \in 1 .. Len(t), NEW j \in 1 .. Len(t), i < j PROVE <<t[i], t[j]>> \in R
  BY DEF Chained, t
<1>3. CASE j <= x
  <2>1. i \in 1 .. x /\ j \in 1 .. x
    BY <1>1, <1>3
  <2> QED
    BY <1>1, <1>2, <2>1
<1>4. CASE i > x
  <2>1. i - x \in 1 .. y /\ j - x \in 1 .. y /\ i - x < j - x /\ x + (i - x) = i /\ x + (j - x) = j
    BY <1>1, <1>4
  <2>2. t[i] = b[i - x] /\ t[j] = b[j - x]
    BY <1>1, <2>1
  <2> QED
    BY <1>2, <2>1, <2>2
<1>5. CASE i <= x /\ j > x
  <2>1. i \in 1 .. x /\ j - x \in 1 .. y /\ x + (j - x) = j
    BY <1>1, <1>5
  <2>2. t[i] = a[i] /\ t[j] = b[j - x]
    BY <1>1, <2>1
  <2> QED
    BY <1>2, <2>1, <2>2
<1> QED
  BY <1>1, <1>3, <1>4, <1>5

(* Three chains of networks, one after the other.                          *)
LEMMA JoinChained ==
  ASSUME NEW R, NEW a \in Seq(BiContiguous), NEW b \in Seq(BiContiguous), NEW c \in Seq(BiContiguous),
         Chained(a, R), Chained(b, R), Chained(c, R),
         \A i \in 1 .. Len(a) : \A j \in 1 .. Len(b) : <<a[i], b[j]>> \in R,
         \A i \in 1 .. Len(b) : \A j \in 1 .. Len(c) : <<b[i], c[j]>> \in R,
         \A i \in 1 .. Len(a) : \A j \in 1 .. Len(c) : <<a[i], c[j]>> \in R
  PROVE  Chained(a \o b \o c, R)
<1> DEFINE t == a \o b
<1>1. /\ t \in Seq(BiContiguous) /\ Len(t) = Len(a) + Len(b) /\ Len(a) \in Nat /\ Len(b) \in Nat
      /\ \A i \in 1 .. Len(a) : t[i] = a[i]
      /\ \A i \in 1 .. Len(b) : t[Len(a) + i] = b[i]
  BY BothAre
<1>2. Chained(t, R)
  BY BothChained
<1> HIDE DEF t
<1>3. ASSUME NEW i \in 1 .. Len(t), NEW j \in 1 .. Len(c) PROVE <<t[i], c[j]>> \in R
  <2>1. CASE i <= Len(a)
    <3>1. i \in 1 .. Len(a) /\ t[i] = a[i]
      BY <1>1, <2>1
    <3> QED
      BY <3>1
  <2>2. CASE i > Len(a)
    <3>1. i - Len(a) \in 1 .. Len(b) /\ Len(a) + (i - Len(a)) = i
      BY <1>1, <2>2
    <3>2. t[i] = b[i - Len(a)]
      BY <1>1, <3>1
    <3> QED
      BY <3>1, <3>2
  <2> QED
    BY <1>1, <2>1, <2>2
<1>4. Chained(t \o c, R)
  BY <1>1, <1>2, <1>3, BothChained
<1> QED
  BY <1>4 DEF t

(* The pieces of a chain are chains.                                       *)
LEMMA PiecesChained ==
  ASSUME NEW s \in Seq(BiContiguous), NEW R, Chained(s, R),
         NEW from \in 1 .. (Len(s) + 1), NEW to \in from .. (Len(s) + 1)
  PROVE  /\ Chained(SubSeq(s, 1, from - 1), R)
         /\ Chained(SubSeq(s, from, to - 1), R)
         /\ Chained(SubSeq(s, to, Len(s)), R)
<1> DEFINE n == Len(s)
           a == SubSeq(s, 1, from - 1)
           b == SubSeq(s, from, to - 1)
           c == SubSeq(s, to, n)
<1>1. n \in Nat /\ from \in Int /\ to \in Int /\ 1 <= from /\ from <= to /\ to <= n + 1
  BY LenProperties
<1>2. /\ Len(a) = from - 1 /\ \A i \in 1 .. (from - 1) : a[i] = s[i]
      /\ Len(b) = to - from /\ \A i \in 1 .. (to - from) : b[i] = s[from - 1 + i]
      /\ Len(c) = n + 1 - to /\ \A i \in 1 .. (n + 1 - to) : c[i] = s[to - 1 + i]
  BY PiecesAre
<1>3. \A i, j \in 1 .. n : i < j => <<s[i], s[j]>> \in R
  BY DEF Chained
<1> HIDE DEF n, a, b, c
<1>4. Chained(a, R)
  <2> SUFFICES ASSUME NEW i \in 1 .. (from - 1), NEW j \in 1 .. (from - 1), i < j
               PROVE  <<a[i], a[j]>> \in R
    BY <1>2 DEF Chained
  <2>1. i \in 1 .. n /\ j \in 1 .. n
    BY <1>1
  <2> QED
    BY <1>2, <1>3, <2>1
<1>5. Chained(b, R)
  <2> SUFFICES ASSUME NEW i \in 1 .. (to - from), NEW j \in 1 .. (to - from), i < j
               PROVE  <<b[i], b[j]>> \in R
    BY <1>2 DEF Chained
  <2>1. from - 1 + i \in 1 .. n /\ from - 1 + j \in 1 .. n /\ from - 1 + i < from - 1 + j
    BY <1>1
  <2> QED
    BY <1>2, <1>3, <2>1
<1>6. Chained(c, R)
  <2> SUFFICES ASSUME NEW i \in 1 .. (n + 1 - to), NEW j \in 1 .. (n + 1 - to), i < j
               PROVE  <<c[i], c[j]>> \in R
    BY <1>2 DEF Chained
  <2>1. to - 1 + i \in 1 .. n /\ to - 1 + j \in 1 .. n /\ to - 1 + i < to - 1 + j
    BY <1>1
  <2> QED
    BY <1>2, <1>3, <2>1
<1> QED
  BY <1>4, <1>5, <1>6 DEF a, b, c, n

(* The order and the separation of a slice that is swept.                  *)
Neat(s, H) == Chained(s, NotAfter) /\ Chained(s, Separate(H))

(* Three pieces of ascending levels.                                       *)
LEMMA JoinNeat ==
  ASSUME NEW H, NEW a \in Seq(BiContiguous), NEW b \in Seq(BiContiguous), NEW c \in Seq(BiContiguous),
         Neat(a, H), Neat(b, H), Neat(c, H),
         \A i \in 1 .. Len(a) : \A j \in 1 .. Len(b) : Lt(HighKey[a[i]], HighKey[b[j]]),
         \A i \in 1 .. Len(b) : \A j \in 1 .. Len(c) : Lt(HighKey[b[i]], HighKey[c[j]]),
         \A i \in 1 .. Len(a) : \A j \in 1 .. Len(c) : Lt(HighKey[a[i]], HighKey[c[j]])
  PROVE  Neat(a \o b \o c, H)
<1>1. ASSUME NEW s \in Seq(BiContiguous), NEW t \in Seq(BiContiguous),
             \A i \in 1 .. Len(s) : \A j \in 1 .. Len(t) : Lt(HighKey[s[i]], HighKey[t[j]])
      PROVE  \A i \in 1 .. Len(s) : \A j \in 1 .. Len(t) :
               <<s[i], t[j]>> \in NotAfter /\ <<s[i], t[j]>> \in Separate(H)
  <2> SUFFICES ASSUME NEW i \in 1 .. Len(s), NEW j \in 1 .. Len(t)
               PROVE  <<s[i], t[j]>> \in NotAfter /\ <<s[i], t[j]>> \in Separate(H)
    OBVIOUS
  <2> DEFINE x == s[i]
             y == t[j]
  <2>1. x \in BiContiguous /\ y \in BiContiguous /\ Lt(HighKey[x], HighKey[y])
    BY <1>1, ElementOfSeq
  <2> HIDE DEF x, y
  <2>2. Lt(High(x.mask), High(y.mask))
    BY <2>1, KeysAre
  <2>3. <<x, y>> \in NotAfter /\ \A G : <<x, y>> \in Separate(G)
    BY <2>1, <2>2, LevelApart
  <2> QED
    BY <2>3 DEF x, y
<1>2. \A i \in 1 .. Len(a) : \A j \in 1 .. Len(b) : <<a[i], b[j]>> \in NotAfter /\ <<a[i], b[j]>> \in Separate(H)
  BY <1>1
<1>3. \A i \in 1 .. Len(b) : \A j \in 1 .. Len(c) : <<b[i], c[j]>> \in NotAfter /\ <<b[i], c[j]>> \in Separate(H)
  BY <1>1
<1>4. \A i \in 1 .. Len(a) : \A j \in 1 .. Len(c) : <<a[i], c[j]>> \in NotAfter /\ <<a[i], c[j]>> \in Separate(H)
  BY <1>1
<1>5. /\ Chained(a, NotAfter) /\ Chained(b, NotAfter) /\ Chained(c, NotAfter)
      /\ Chained(a, Separate(H)) /\ Chained(b, Separate(H)) /\ Chained(c, Separate(H))
  BY DEF Neat
<1> DEFINE N == NotAfter
           Z == Separate(H)
<1> HIDE DEF N, Z
<1>6. Chained(a \o b \o c, N)
  BY <1>5, <1>2, <1>3, <1>4, JoinChained DEF N
<1>7. Chained(a \o b \o c, Z)
  BY <1>5, <1>2, <1>3, <1>4, JoinChained DEF Z
<1> QED
  BY <1>6, <1>7 DEF N, Z, Neat

(* Separation over fewer levels, or over levels that do not occur.         *)
LEMMA LessSeparate ==
  ASSUME NEW s \in Seq(BiContiguous), NEW G, NEW H, Chained(s, Separate(G)),
         \A i \in 1 .. Len(s) : HighKey[s[i]] \in H => HighKey[s[i]] \in G
  PROVE  Chained(s, Separate(H))
<1> SUFFICES ASSUME NEW i \in 1 .. Len(s), NEW j \in 1 .. Len(s), i < j
             PROVE  <<s[i], s[j]>> \in Separate(H)
  BY DEF Chained
<1> DEFINE x == s[i]
           y == s[j]
<1>1. <<x, y>> \in Separate(G) /\ x \in BiContiguous /\ y \in BiContiguous
  BY ElementOfSeq DEF Chained
<1>2. HighKey[x] \in H => HighKey[x] \in G
  OBVIOUS
<1> HIDE DEF x, y
<1>3. HighKey[x] = High(x.mask)
  BY <1>1, KeysAre
<1>4. <<x, y>> \in Separate(H)
  BY <1>1, <1>2, <1>3 DEF Separate
<1> QED
  BY <1>4 DEF x, y

-----------------------------------------------------------------------------
(* The sweep keeps the order                                               *)

(* The rows of a level reduced: the slice stays in order, and the level    *)
(* joins those without containment.                                        *)
LEMMA LowRowsNeat ==
  ASSUME NEW s \in Seq(BiContiguous), NEW m \in Word, Neat(s, Above(m)),
         NEW from, NEW to, Parted(s, from, to, m),
         NEW rows, rows = AggregateLowRows[SubSeq(s, from, to - 1)]
  PROVE  Neat(Replaced(s, from, to, rows), From(m))
<1> DEFINE n == Len(s)
           a == SubSeq(s, 1, from - 1)
           part == SubSeq(s, from, to - 1)
           c == SubSeq(s, to, n)
           Q == AtLevel(m)
<1>0. from \in 1 .. (n + 1) /\ to \in from .. (n + 1) /\ n \in Nat /\ from \in Int /\ to \in Int
  BY LenProperties DEF Parted
<1>1. /\ a \in Seq(BiContiguous) /\ Len(a) = from - 1 /\ c \in Seq(BiContiguous) /\ Len(c) = n + 1 - to
      /\ \A i \in 1 .. (from - 1) : a[i] = s[i]
      /\ \A i \in 1 .. (n + 1 - to) : c[i] = s[to - 1 + i]
  BY <1>0, PiecesAre
<1>2. part \in Seq(Q) /\ Len(part) = to - from
  BY LevelSlice
<1>3. Neat(a, Above(m)) /\ Neat(part, Above(m)) /\ Neat(c, Above(m))
  BY <1>0, PiecesChained DEF Neat
<1>4. rows \in Seq(Q) /\ Tidy(rows)
  <2> HIDE DEF part
  <2>1. Chained(part, NotAfter) /\ part \in Seq(AtLevel(m))
    BY <1>2, <1>3 DEF Neat
  <2>2. rows = AggregateLowRows[part]
    BY DEF part
  <2> QED
    BY <2>1, <2>2, LowRowsAre, LowRowsTidy
<1>5. rows \in Seq(BiContiguous) /\ \A i \in 1 .. Len(rows) : HighKey[rows[i]] = m
  <2>1. Q \subseteq BiContiguous
    BY DEF AtLevel
  <2>2. \A i \in 1 .. Len(rows) : rows[i] \in Q
    BY <1>4, ElementOfSeq
  <2>3. \A x \in Q : HighKey[x] = m
    BY KeysAre DEF AtLevel
  <2> HIDE DEF Q
  <2> QED
    BY <1>4, <2>1, <2>2, <2>3, SeqMonotonic
<1>6. /\ \A i \in 1 .. Len(a) : Lt(HighKey[a[i]], m) /\ HighKey[a[i]] \in Word
      /\ \A i \in 1 .. Len(c) : Lt(m, HighKey[c[i]]) /\ HighKey[c[i]] \in Word
  <2>1. \A i \in 1 .. (from - 1) : Lt(HighKey[a[i]], m)
    BY <1>1 DEF Parted
  <2>2. \A i \in 1 .. (n + 1 - to) : Lt(m, HighKey[c[i]])
    <3>1. \A i \in 1 .. (n + 1 - to) : to - 1 + i \in to .. Len(s)
      BY <1>0
    <3> QED
      BY <1>1, <3>1 DEF Parted
  <2>3. \A i \in 1 .. Len(a) : a[i] \in BiContiguous
    BY <1>1, ElementOfSeq
  <2>4. \A i \in 1 .. Len(c) : c[i] \in BiContiguous
    BY <1>1, ElementOfSeq
  <2>5. \A x \in BiContiguous : HighKey[x] \in Word
    BY KeysAre
  <2> QED
    BY <1>1, <2>1, <2>2, <2>3, <2>4, <2>5
<1> HIDE DEF a, c, part, n, Q
<1>7. Neat(a, From(m))
  <2>1. \A i \in 1 .. Len(a) : HighKey[a[i]] \in From(m) => HighKey[a[i]] \in Above(m)
    BY <1>6, LtAsymmetric DEF From, Le
  <2> QED
    BY <1>1, <1>3, <2>1, LessSeparate DEF Neat
<1>8. Neat(c, From(m))
  BY <1>6, <1>1, <1>3, LessSeparate DEF From, Above, Neat
<1>9. Neat(rows, From(m))
  BY <1>5, <1>4, LessSeparate DEF Tidy, Neat
<1>10. \A i \in 1 .. Len(a) : \A j \in 1 .. Len(c) : Lt(HighKey[a[i]], HighKey[c[j]])
  BY <1>6, LtTransitive
<1>11. Neat(a \o rows \o c, From(m))
  BY <1>1, <1>5, <1>6, <1>7, <1>8, <1>9, <1>10, JoinNeat
<1> QED
  BY <1>11 DEF Replaced, a, c, n

(* Between two neighbouring levels there is no mask of the class.          *)
LEMMA NextLevel ==
  ASSUME NEW p \in 1 .. HighW, NEW n \in BiContiguous, Lt(HighMask(p - 1), High(n.mask))
  PROVE  Le(HighMask(p), High(n.mask))
<1>1. PICK d \in High(n.mask) \ HighMask(p - 1) : TRUE
  BY DEF Lt
<1>2. n.mask \in Word /\ n.mask \subseteq Bits /\ High(n.mask) \in Word
  BY ClassFields, NetHalves DEF Word
<1>3. d \in n.mask /\ d >= LowW /\ d \in Bits /\ d \in Int
  BY <1>1, <1>2 DEF High, Bits
<1>4. d <= W - p
  <2>1. W \in Nat /\ p \in Int /\ ~(d >= W - (p - 1))
    BY <1>1, <1>3, WAssumption DEF HighMask
  <2> QED
    BY <1>3, <2>1
<1>5. ASSUME NEW i \in HighMask(p) PROVE i \in High(n.mask)
  <2>1. i \in Bits /\ i >= W - p /\ W - p \in Int /\ LowW \in Int /\ i \in Int
    BY <1>5, LevelFields, WidthAssumption DEF HighMask, Bits
  <2>2. i >= LowW /\ (i = d \/ d < i)
    BY <1>3, <1>4, <2>1
  <2>3. i \in n.mask
    BY <1>3, <2>1, <2>2, RunUp
  <2> QED
    BY <2>2, <2>3 DEF High
<1>6. HighMask(p) = High(n.mask) \/ \E i \in High(n.mask) : i \notin HighMask(p)
  BY <1>5
<1> QED
  BY <1>5, <1>6 DEF Le, Lt

(* What the merge writes for the first row: networks of the row as they    *)
(* were, or of the next level; the rest begins behind the row.             *)
LEMMA RowOfIs ==
  ASSUME NEW p \in 1 .. HighW, NEW s \in Seq(BiContiguous), s # <<>>
  PROVE  \E q \in FirstRow(s) .. Len(s) : \E S :
           /\ After(s, p) = SubSeq(s, q + 1, Len(s))
           /\ RowOf(s, p) \in Seq(S) /\ Len(RowOf(s, p)) = FirstRow(s)
           /\ \A i \in 1 .. FirstRow(s) : \/ RowOf(s, p)[i] = s[i]
                                          \/ High(RowOf(s, p)[i].mask) = HighMask(p - 1)
           /\ BuddyFollows(s, p) =>
                \A i \in 1 .. FirstRow(s) : High(RowOf(s, p)[i].mask) = HighMask(p - 1)
<1> DEFINE l == FirstRow(s)
           row == SubSeq(s, 1, l)
<1>1. l \in 1 .. Len(s) /\ Len(s) \in Nat
  BY FirstRowIs
<1> HIDE DEF l
<1>2. row \in Seq(BiContiguous) /\ Len(row) = l /\ \A i \in 1 .. l : row[i] = s[i]
  <2>1. l \in 0 .. Len(s)
    BY <1>1
  <2> QED
    BY <2>1, RowAndRest
<1> HIDE DEF row
<1>3. CASE ~BuddyFollows(s, p)
  <2>1. After(s, p) = SubSeq(s, l + 1, Len(s)) /\ RowOf(s, p) = row
    BY <1>3, Zenon DEF After, RowOf, l, row
  <2>2. l \in l .. Len(s)
    BY <1>1
  <2> QED
    BY <1>2, <1>3, <2>1, <2>2 DEF l
<1>4. CASE BuddyFollows(s, p)
  <2> DEFINE wide == Widened(row, p)
             S == {WideMask(row[i], p) : i \in 1 .. l}
             v == [i \in 1 .. l |-> WideMask(row[i], p)]
  <2>1. After(s, p) = SubSeq(s, 2 * l + 1, Len(s)) /\ RowOf(s, p) = wide
    BY <1>4, Zenon DEF After, RowOf, l, row
  <2>2. 2 * l \in l .. Len(s)
    <3>1. 2 * l \in 1 .. Len(s)
      BY <1>4, BuddyIs DEF l
    <3> QED
      BY <1>1, <3>1
  <2>3. wide = v
    <3>1. DOMAIN row = 1 .. l
      BY <1>2, LenProperties
    <3> QED
      BY <3>1, Zenon DEF Widened, WideMask
  <2>4. v \in [1 .. l -> S] /\ \A i \in 1 .. l : v[i] = WideMask(row[i], p)
    OBVIOUS
  <2> HIDE DEF v, wide
  <2>5. v \in Seq(S) /\ Len(v) = l
    <3>1. v \in Seq(S)
      BY <1>1, <2>4, SeqDef
    <3> QED
      BY <1>1, <2>4, <3>1, LenProperties
  <2>6. \A i \in 1 .. l : High(v[i].mask) = HighMask(p - 1)
    <3> SUFFICES ASSUME NEW i \in 1 .. l PROVE High(v[i].mask) = HighMask(p - 1)
      OBVIOUS
    <3> DEFINE n == row[i]
    <3>1. n \in BiContiguous
      BY <1>2, ElementOfSeq
    <3> HIDE DEF n
    <3>2. WideMask(n, p).mask = HighMask(p - 1) \cup Low(n.mask)
      <4>1. n = [addr |-> n.addr, mask |-> n.mask]
        BY <3>1, ClassFields
      <4> QED
        BY <4>1 DEF WideMask
    <3>3. High(HighMask(p - 1) \cup Low(n.mask)) = HighMask(p - 1)
      <4>1. High(HighMask(p - 1)) = HighMask(p - 1)
        BY LevelFields
      <4>2. \A k \in Low(n.mask) : ~(k >= LowW)
        <5>1. \A k \in Low(n.mask) : k \in Int /\ k < LowW
          BY <3>1, ClassFields DEF Low, Word, Bits
        <5> QED
          BY <5>1, WidthAssumption
      <4> QED
        BY <4>1, <4>2 DEF High
    <3>4. v[i] = WideMask(n, p)
      BY <2>4 DEF n
    <3> QED
      BY <3>2, <3>3, <3>4
  <2> QED
    BY <2>1, <2>2, <2>3, <2>5, <2>6 DEF l
<1> QED
  BY <1>3, <1>4

(* The buddies merged: what stays in the level still is without            *)
(* containment.                                                            *)
LEMMA HighBuddiesSeparate ==
  ASSUME NEW p \in 1 .. HighW, NEW rows \in Seq(AtLevel(HighMask(p))), Chained(rows, Separate(Word))
  PROVE  Chained(MergeHighBuddies(rows, p), Separate(From(HighMask(p))))
<1> DEFINE m == HighMask(p)
           w == HighMask(p - 1)
           Q == AtLevel(m)
           P == Q \cup AtLevel(w)
           D == {s \in Seq(Q) : Chained(s, Separate(Word))}
           size == [s \in D |-> Len(s)]
           Fine(s, t) ==
             /\ Chained(t, Separate(From(m)))
             /\ \A i \in 1 .. Len(t) : t[i] \in Q => \E k \in 1 .. Len(s) : t[i] = s[k]
<1>0. /\ Q \subseteq BiContiguous /\ P \subseteq BiContiguous /\ m \in Word /\ w \in Word /\ Lt(w, m)
      /\ m # w /\ \A x \in P : High(x.mask) = m \/ High(x.mask) = w
      /\ \A x \in Q : High(x.mask) = m
      /\ \A x \in P : High(x.mask) = m => x \in Q
  <2>1. m \in Word /\ w \in Word /\ Lt(w, m)
    BY LevelFields
  <2>2. m # w
    BY <2>1, LtAsymmetric
  <2> HIDE DEF m, w
  <2> QED
    BY <2>1, <2>2 DEF AtLevel
<1>1. PICK f : Merges(p, f) /\ \A r \in Seq(BiContiguous) : MergeHighBuddies(r, p) = f[r]
  BY HighBuddiesUnfold
<1> DEFINE good == {s \in D : Fine(s, f[s])}
<1>2. size \in [D -> Nat]
  BY LenProperties
<1>3. ASSUME NEW s \in D, \A e \in D : size[e] < size[s] => e \in good PROVE s \in good
  <2>0. s \in Seq(Q) /\ Chained(s, Separate(Word))
    OBVIOUS
  <2>1. s \in Seq(BiContiguous)
    <3> HIDE DEF Q
    <3> QED
      BY <1>0, <2>0, SeqMonotonic
  <2>2. f[s] = IF s = <<>> THEN <<>> ELSE RowOf(s, p) \o f[After(s, p)]
    BY <1>1, <2>1 DEF Merges
  <2>3. CASE s = <<>>
    <3>1. f[s] = <<>>
      BY <2>2, <2>3
    <3>2. Fine(s, <<>>)
      BY DEF Chained
    <3>3. Fine(s, f[s])
      <4> HIDE DEF Fine
      <4> QED
        BY <3>1, <3>2
    <3> QED
      BY <3>3
  <2>4. CASE s # <<>>
    <3> DEFINE a == After(s, p)
               x == RowOf(s, p)
               g == f[a]
               l == FirstRow(s)
               t == x \o g
    <3>1. l \in 1 .. Len(s) /\ Len(s) \in Nat
      BY <2>0, <2>4, FirstRowIs
    <3>2. PICK q \in l .. Len(s) : \E S :
             /\ a = SubSeq(s, q + 1, Len(s))
             /\ x \in Seq(S) /\ Len(x) = l
             /\ \A i \in 1 .. l : x[i] = s[i] \/ High(x[i].mask) = w
      BY <2>1, <2>4, RowOfIs
    <3>3. PICK S : /\ a = SubSeq(s, q + 1, Len(s))
                   /\ x \in Seq(S) /\ Len(x) = l
                   /\ \A i \in 1 .. l : x[i] = s[i] \/ High(x[i].mask) = w
      BY <3>2
    <3> HIDE DEF l, x
    <3>4. q \in 0 .. Len(s) /\ q \in Nat /\ l <= q
      BY <3>1
    <3>5. a \in Seq(Q) /\ Len(a) = Len(s) - q /\ \A i \in 1 .. (Len(s) - q) : a[i] = s[q + i]
      <4> HIDE DEF Q, a
      <4> QED
        BY <2>0, <3>3, <3>4, RowAndRest
    <3> HIDE DEF a
    <3>6. \A i, j \in 1 .. Len(s) : i < j => <<s[i], s[j]>> \in Separate(Word)
      BY <2>0 DEF Chained
    <3>7. a \in D
      <4>1. ASSUME NEW i \in 1 .. Len(a), NEW j \in 1 .. Len(a), i < j
            PROVE  <<a[i], a[j]>> \in Separate(Word)
        <5>1. q + i \in 1 .. Len(s) /\ q + j \in 1 .. Len(s) /\ q + i < q + j
          BY <3>1, <3>4, <3>5, <4>1
        <5>2. a[i] = s[q + i] /\ a[j] = s[q + j]
          BY <3>5
        <5> QED
          BY <3>6, <5>1, <5>2
      <4> QED
        BY <3>5, <4>1 DEF Chained
    <3>8. a \in good
      <4>1. size[a] < size[s]
        BY <3>1, <3>4, <3>5, <3>7
      <4> HIDE DEF good, size, D
      <4> QED
        BY <1>3, <3>7, <4>1
    <3>9. Fine(a, g)
      BY <3>8
    <3>10. g \in Seq(P) /\ f[s] \in Seq(P)
      <4>1. a \in Seq(BiContiguous)
        <5> HIDE DEF Q
        <5> QED
          BY <1>0, <3>5, SeqMonotonic
      <4>2. MergeHighBuddies(a, p) = g /\ MergeHighBuddies(s, p) = f[s]
        BY <1>1, <2>1, <4>1
      <4>3. \A r \in Seq(AtLevel(HighMask(p))) :
              MergeHighBuddies(r, p) \in Seq(AtLevel(HighMask(p)) \cup AtLevel(HighMask(p - 1)))
        BY HighBuddiesAre
      <4> QED
        BY <2>0, <3>5, <4>2, <4>3
    <3>11. f[s] = t
      BY <2>2, <2>4 DEF x, a
    <3> HIDE DEF g, P
    <3>12. /\ Len(t) = l + Len(g) /\ l \in Nat /\ Len(g) \in Nat
           /\ \A i \in 1 .. l : t[i] = x[i]
           /\ \A i \in 1 .. Len(g) : t[l + i] = g[i]
      <4>1. x \in Seq(S \cup P) /\ g \in Seq(S \cup P)
        <5>1. S \subseteq S \cup P /\ P \subseteq S \cup P
          OBVIOUS
        <5> QED
          BY <3>3, <3>10, <5>1, SeqMonotonic
      <4>2. /\ Len(t) = Len(x) + Len(g) /\ Len(x) \in Nat /\ Len(g) \in Nat
            /\ \A i \in 1 .. Len(x) : t[i] = x[i]
            /\ \A i \in 1 .. Len(g) : t[Len(x) + i] = g[i]
        BY <4>1, BothAre
      <4> QED
        BY <3>3, <4>2
    <3>13. t \in Seq(P) /\ \A i \in 1 .. Len(t) : t[i] \in P
      <4>1. t \in Seq(P)
        BY <3>10, <3>11, Zenon
      <4> HIDE DEF t
      <4> QED
        BY <4>1, ElementOfSeq
    <3> HIDE DEF t
    <3> DEFINE InRowOf(i) == i \in 1 .. l /\ t[i] = s[i]
               InRest(i) == i - l \in 1 .. Len(g) /\ t[i] = g[i - l]
    <3>14. ASSUME NEW i \in 1 .. Len(t), t[i] \in Q PROVE InRowOf(i) \/ InRest(i)
      <4>1. CASE i <= l
        BY <3>12, <4>1, <1>0, <3>14, <3>3
      <4>2. CASE i > l
        <5>1. i - l \in 1 .. Len(g) /\ l + (i - l) = i
          BY <3>12, <4>2
        <5> QED
          BY <3>12, <5>1
      <4> QED
        BY <3>12, <4>1, <4>2
    <3>15. ASSUME NEW i \in 1 .. Len(t), InRest(i), t[i] \in Q
           PROVE  \E k \in (q + 1) .. Len(s) : t[i] = s[k]
      <4>1. PICK k \in 1 .. Len(a) : t[i] = a[k]
        BY <3>9, <3>15
      <4>2. q + k \in (q + 1) .. Len(s) /\ a[k] = s[q + k]
        BY <3>1, <3>4, <3>5
      <4> QED
        BY <4>1, <4>2
    <3>16. ASSUME NEW i \in 1 .. Len(t), t[i] \in Q PROVE \E k \in 1 .. Len(s) : t[i] = s[k]
      <4>1. CASE InRowOf(i)
        <5>1. i \in 1 .. Len(s)
          BY <3>1, <4>1
        <5> QED
          BY <4>1, <5>1
      <4>2. CASE InRest(i)
        <5>1. PICK k \in (q + 1) .. Len(s) : t[i] = s[k]
          BY <3>15, <3>16, <4>2
        <5>2. k \in 1 .. Len(s)
          BY <3>4
        <5> QED
          BY <5>1, <5>2
      <4> QED
        BY <3>14, <3>16, <4>1, <4>2
    <3>17. ASSUME NEW i \in 1 .. Len(t), NEW j \in 1 .. Len(t), i < j
           PROVE  <<t[i], t[j]>> \in Separate(From(m))
      <4> DEFINE u == t[i]
                 v == t[j]
      <4>1. u \in P /\ v \in P
        BY <3>13
      <4> HIDE DEF u, v
      <4>2. ASSUME High(u.mask) \in From(m), High(u.mask) = High(v.mask)
            PROVE  /\ ~Contains(u, v) /\ ~Contains(v, u)
                   /\ High(u.addr) = High(v.addr) => ~IsAdjacentByLowestMaskBit(u, v)
        <5>1. w \notin From(m)
          BY <1>0, LtAsymmetric DEF From, Le
        <5>2. u \in Q /\ v \in Q
          <6> HIDE DEF m, w, Q
          <6> QED
            BY <1>0, <4>1, <4>2, <5>1
        <5>3. t[i] \in Q /\ t[j] \in Q
          BY <5>2 DEF u, v
        <5>4. High(u.mask) \in Word
          BY <4>2 DEF From
        <5>5. CASE InRest(i)
          <6>1. InRest(j)
            <7>1. ~InRowOf(j)
              BY <3>12, <3>17, <5>5
            <7> HIDE DEF InRowOf, InRest
            <7> QED
              BY <3>14, <5>3, <7>1
          <6>2. <<t[i], t[j]>> \in Separate(From(m))
            <7>1. i - l < j - l
              BY <3>12, <3>17
            <7>2. \A h, k \in 1 .. Len(g) : h < k => <<g[h], g[k]>> \in Separate(From(m))
              BY <3>9 DEF Chained
            <7> QED
              BY <5>5, <6>1, <7>1, <7>2
          <6>3. <<u, v>> \in Separate(From(m))
            BY <6>2 DEF u, v
          <6> QED
            BY <4>2, <6>3 DEF Separate
        <5>6. CASE InRowOf(i)
          <6>1. \E k \in 1 .. Len(s) : i < k /\ t[j] = s[k]
            <7>1. CASE InRowOf(j)
              <8>1. j \in 1 .. Len(s)
                BY <3>1, <7>1
              <8> QED
                BY <3>17, <7>1, <8>1
            <7>2. CASE InRest(j)
              <8>1. PICK k \in (q + 1) .. Len(s) : t[j] = s[k]
                BY <3>15, <5>3, <7>2
              <8>2. k \in 1 .. Len(s) /\ i < k
                BY <3>1, <3>12, <5>6, <3>4
              <8> QED
                BY <8>1, <8>2
            <7> HIDE DEF InRowOf, InRest
            <7> QED
              BY <3>14, <5>3, <7>1, <7>2
          <6>2. PICK k \in 1 .. Len(s) : i < k /\ t[j] = s[k]
            BY <6>1
          <6>3. i \in 1 .. Len(s) /\ t[i] = s[i]
            BY <3>1, <5>6
          <6>4. <<s[i], s[k]>> \in Separate(Word)
            BY <3>6, <6>2, <6>3
          <6>5. <<u, v>> \in Separate(Word)
            BY <6>2, <6>3, <6>4 DEF u, v
          <6> QED
            BY <4>2, <5>4, <6>5 DEF Separate
        <5> HIDE DEF InRowOf, InRest
        <5> QED
          BY <3>14, <5>3, <5>5, <5>6
      <4>3. <<u, v>> \in Couples
        BY <1>0, <4>1 DEF Couples
      <4>4. <<u, v>> \in Separate(From(m))
        BY <4>2, <4>3 DEF Separate
      <4> QED
        BY <4>4 DEF u, v
    <3>18. Fine(s, t)
      BY <3>16, <3>17 DEF Chained
    <3>19. Fine(s, f[s])
      <4> HIDE DEF Fine
      <4> QED
        BY <3>11, <3>18
    <3> QED
      BY <3>19
  <2> QED
    BY <2>3, <2>4
<1>4. \A s \in D : s \in good
  <2> HIDE DEF D, size, good
  <2> QED
    BY <1>2, <1>3, InductOnSize
<1>5. rows \in D
  OBVIOUS
<1>6. rows \in good
  <2> HIDE DEF D, good
  <2> QED
    BY <1>4, <1>5
<1>7. MergeHighBuddies(rows, p) = f[rows]
  <2>1. rows \in Seq(BiContiguous)
    <3>1. rows \in Seq(Q)
      OBVIOUS
    <3> HIDE DEF Q
    <3> QED
      BY <1>0, <3>1, SeqMonotonic
  <2> QED
    BY <1>1, <2>1
<1> QED
  BY <1>6, <1>7

(* What a sort makes of distinct positions: distinct positions.            *)
LEMMA RearrangedApart ==
  ASSUME NEW s \in Seq(BiContiguous), NEW t \in Rearranged(s)
  PROVE  \E q \in [1 .. Len(s) -> 1 .. Len(s)] :
           /\ \A i \in 1 .. Len(s) : t[i] = s[q[i]]
           /\ \A i, j \in 1 .. Len(s) : i # j => q[i] # q[j]
<1> DEFINE n == Len(s)
           N == 1 .. n
<1>1. DOMAIN s = N /\ n \in Nat
  BY LenProperties
<1>2. PICK q \in [N -> N] : (\A j \in N : \E i \in N : q[i] = j) /\ t = [i \in N |-> s[q[i]]]
  <2> DEFINE X == DOMAIN s
  <2>1. \E p \in {q \in [X -> X] : \A j \in X : \E i \in X : q[i] = j} : t = [i \in X |-> s[p[i]]]
    BY Zenon DEF Rearranged
  <2>2. X = N
    BY <1>1
  <2> HIDE DEF X, N
  <2>3. \E p \in [X -> X] : (\A j \in X : \E i \in X : p[i] = j) /\ t = [i \in X |-> s[p[i]]]
    BY <2>1, Zenon
  <2> QED
    BY <2>2, <2>3, Zenon
<1>3. IsFiniteSet(N)
  BY <1>1, FS_Interval
<1>4. q \in Surjection(N, N)
  <2> HIDE DEF N
  <2> QED
    BY <1>2 DEF Surjection
<1>5. q \in Injection(N, N)
  <2> HIDE DEF N
  <2> QED
    BY <1>3, <1>4, FS_SurjSameCardinalityImpliesInj
<1>6. \A i, j \in N : i # j => q[i] # q[j]
  <2> HIDE DEF N
  <2> QED
    BY <1>5 DEF Injection, IsInjective
<1>7. \A i \in N : t[i] = s[q[i]]
  BY <1>2
<1> QED
  BY <1>2, <1>6, <1>7

(* A sort by level puts the networks in order and keeps them separate.     *)
LEMMA SortNeat ==
  ASSUME NEW s \in Seq(BiContiguous), NEW t \in SortedByLevel(s), NEW H, Chained(s, Separate(H))
  PROVE  Neat(t, H)
<1> DEFINE n == Len(s)
<1>1. t \in Rearranged(s) /\ InOrder(t, LevelKey)
  BY DEF SortedByLevel
<1>2. t \in Seq(BiContiguous) /\ Len(t) = n /\ n \in Nat
  BY <1>1, RearrangedIs, LenProperties
<1>3. PICK q \in [1 .. n -> 1 .. n] :
        /\ \A i \in 1 .. n : t[i] = s[q[i]]
        /\ \A i, j \in 1 .. n : i # j => q[i] # q[j]
  BY <1>1, RearrangedApart
<1>4. \A i, j \in 1 .. n : i < j => <<s[i], s[j]>> \in Separate(H)
  BY DEF Chained
<1> HIDE DEF n
<1>5. ASSUME NEW i \in 1 .. n, NEW j \in 1 .. n, i < j
      PROVE  <<t[i], t[j]>> \in NotAfter /\ <<t[i], t[j]>> \in Separate(H)
  <2> DEFINE x == t[i]
             y == t[j]
  <2>1. x \in BiContiguous /\ y \in BiContiguous /\ i \in DOMAIN t /\ j \in DOMAIN t
    BY <1>2, ElementOfSeq, LenProperties
  <2>2. ~KeyBefore(LevelKey(y), LevelKey(x))
    BY <1>1, <1>5, <2>1 DEF InOrder
  <2>3. q[i] \in 1 .. n /\ q[j] \in 1 .. n /\ q[i] # q[j]
    BY <1>3, <1>5
  <2>4. q[i] < q[j] \/ q[j] < q[i]
    BY <2>3
  <2>5. x = s[q[i]] /\ y = s[q[j]]
    BY <1>3
  <2> HIDE DEF x, y
  <2>6. <<x, y>> \in Separate(H) \/ <<y, x>> \in Separate(H)
    BY <1>4, <2>3, <2>4, <2>5
  <2>7. <<x, y>> \in Separate(H)
    BY <2>1, <2>6, BuddiesEither DEF Separate, Couples
  <2>8. <<x, y>> \in NotAfter
    BY <2>1, <2>2 DEF NotAfter, Couples
  <2> QED
    BY <2>7, <2>8 DEF x, y
<1> QED
  BY <1>2, <1>5 DEF Neat, Chained

(* No level lies above the first one of a sweep.                           *)
LEMMA SweepNeat ==
  ASSUME NEW s \in Seq(BiContiguous), NEW t \in SortedByLevel(s)
  PROVE  Neat(t, Above(HighMask(HighW)))
<1> DEFINE H == Above(HighMask(HighW))
<1>1. ASSUME NEW x \in BiContiguous PROVE High(x.mask) \notin H
  <2>1. High(x.mask) \subseteq HighMask(HighW)
    <3>1. x.mask \subseteq Bits /\ W - HighW = LowW
      BY ClassFields, WidthAssumption DEF Word
    <3> QED
      BY <3>1 DEF High, HighMask
  <2> QED
    BY <2>1 DEF Above, Lt
<1>2. Chained(s, Separate(H))
  <2> SUFFICES ASSUME NEW i \in 1 .. Len(s), NEW j \in 1 .. Len(s) PROVE <<s[i], s[j]>> \in Separate(H)
    BY DEF Chained
  <2> DEFINE x == s[i]
             y == s[j]
  <2>1. x \in BiContiguous /\ y \in BiContiguous
    BY ElementOfSeq
  <2> HIDE DEF x, y, H
  <2>2. <<x, y>> \in Separate(H)
    BY <1>1, <2>1 DEF Separate, Couples
  <2> QED
    BY <2>2 DEF x, y
<1> HIDE DEF H
<1>3. Neat(t, H)
  BY <1>2, SortNeat
<1> QED
  BY <1>3 DEF H

(* The buddy rows of a level merged and sorted into the next: the slice    *)
(* stays in order, and the levels above the next one without containment.  *)
LEMMA HighBuddiesNeat ==
  ASSUME NEW s \in Seq(BiContiguous), HighAscends(s), NEW p \in 1 .. HighW, Neat(s, From(HighMask(p))),
         NEW from, NEW to, Parted(s, from, to, HighMask(p)),
         NEW rows, rows = MergeHighBuddies(SubSeq(s, from, to - 1), p),
         NEW next, next = Replaced(s, from, to, rows),
         NEW back, back = LowerBoundHighMask(next, from, HighMask(p - 1)),
         NEW end, end = from + Len(rows)
  PROVE  /\ Neat(s, Above(HighMask(p - 1)))
         /\ \A t \in SortedByLevel(SubSeq(next, back, end - 1)) :
              Neat(SubSeq(next, 1, back - 1) \o t \o SubSeq(next, end, Len(next)), Above(HighMask(p - 1)))
<1> DEFINE m == HighMask(p)
           w == HighMask(p - 1)
           before == SubSeq(next, 1, back - 1)
           mid == SubSeq(next, back, end - 1)
           after == SubSeq(next, end, Len(next))
           a == SubSeq(s, 1, from - 1)
           part == SubSeq(s, from, to - 1)
           c == SubSeq(s, to, Len(s))
           P == AtLevel(m) \cup AtLevel(w)
           Z == Separate(From(m))
           Middle == {n \in BiContiguous : ~Lt(HighKey[n], w) /\ ~Lt(m, HighKey[n])}
<1>1. m \in Word /\ w \in Word /\ Lt(w, m)
  BY LevelFields
<1>2. /\ Kept(next, s) /\ rows \in Seq(P)
      /\ back \in 1 .. (Len(next) + 1) /\ end \in back .. (Len(next) + 1)
      /\ before \in Seq(BiContiguous) /\ mid \in Seq(BiContiguous) /\ after \in Seq(BiContiguous)
      /\ Len(before) = back - 1 /\ Len(mid) = end - back /\ Len(after) = Len(s) + 1 - to
      /\ back - 1 <= Len(s)
      /\ \A i \in 1 .. Len(before) : before[i] = s[i] /\ Lt(HighKey[before[i]], w)
      /\ \A i \in 1 .. Len(after) : after[i] = s[to - 1 + i] /\ Lt(m, HighKey[after[i]])
      /\ mid \in Seq(Middle)
  <2>1. InPieces(s, to, HighMask(p), HighMask(p - 1), rows, next, back, end)
    BY HighBuddiesPieces
  <2> HIDE DEF a, part, c, Z
  <2> QED
    BY <2>1, Zenon DEF InPieces
<1>3. from \in 1 .. (Len(s) + 1) /\ to \in from .. (Len(s) + 1) /\ Len(s) \in Nat
  BY LenProperties DEF Parted
<1>4. next \in Seq(BiContiguous)
  BY <1>2 DEF Kept
<1>5. part \in Seq(AtLevel(m)) /\ a \in Seq(BiContiguous) /\ c \in Seq(BiContiguous) /\ part \in Seq(BiContiguous)
  BY <1>3, LevelSlice, PiecesAre
<1> HIDE DEF before, mid, after, Middle
<1>6. Chained(a, Z) /\ Chained(part, Z) /\ Chained(c, Z)
  BY <1>3, PiecesChained DEF Neat
<1>7. \A x \in BiContiguous : HighKey[x] = High(x.mask) /\ HighKey[x] \in Word
  BY KeysAre
<1>8. Chained(rows, Z)
  <2>1. \A i \in 1 .. Len(part) : HighKey[part[i]] \in Word => HighKey[part[i]] \in From(m)
    <3>1. \A x \in AtLevel(m) : HighKey[x] = m
      BY <1>7 DEF AtLevel
    <3>2. \A i \in 1 .. Len(part) : part[i] \in AtLevel(m)
      BY <1>5, ElementOfSeq
    <3> HIDE DEF part, m
    <3> QED
      BY <1>1, <3>1, <3>2 DEF From, Le
  <2>2. Chained(part, Separate(Word))
    BY <1>5, <1>6, <2>1, LessSeparate
  <2>3. rows = MergeHighBuddies(part, p)
    OBVIOUS
  <2> HIDE DEF part
  <2> QED
    BY <1>5, <2>2, <2>3, HighBuddiesSeparate
<1>9. rows \in Seq(BiContiguous) /\ \A i \in 1 .. Len(rows) : HighKey[rows[i]] \in {m, w}
  <2>1. \A x \in P : x \in BiContiguous /\ HighKey[x] \in {m, w}
    BY <1>7 DEF AtLevel
  <2>2. P \subseteq BiContiguous
    BY <2>1
  <2> HIDE DEF P
  <2> QED
    BY <1>2, <2>1, <2>2, SeqMonotonic, ElementOfSeq
<1>10. /\ \A i \in 1 .. Len(a) : Lt(HighKey[a[i]], m) /\ a[i] \in BiContiguous
       /\ \A i \in 1 .. Len(c) : Lt(m, HighKey[c[i]]) /\ c[i] \in BiContiguous
       /\ \A i \in 1 .. Len(rows) : rows[i] \in BiContiguous
  <2>1. /\ Len(a) = from - 1 /\ Len(c) = Len(s) + 1 - to
        /\ \A i \in 1 .. (from - 1) : a[i] = s[i]
        /\ \A i \in 1 .. (Len(s) + 1 - to) : c[i] = s[to - 1 + i]
    BY <1>3, PiecesAre
  <2>2. \A i \in 1 .. (Len(s) + 1 - to) : to - 1 + i \in to .. Len(s)
    BY <1>3
  <2> HIDE DEF a, c
  <2>3. \A i \in 1 .. (from - 1) : Lt(HighKey[a[i]], m)
    BY <2>1 DEF Parted
  <2>4. \A i \in 1 .. (Len(s) + 1 - to) : Lt(m, HighKey[c[i]])
    BY <2>1, <2>2 DEF Parted
  <2> QED
    BY <1>5, <1>9, <2>1, <2>3, <2>4, ElementOfSeq
<1> HIDE DEF a, c, part, P, m, w
<1>11. ASSUME NEW x \in BiContiguous, NEW y \in BiContiguous, HighKey[x] \notin From(m) \/ HighKey[x] # HighKey[y]
       PROVE  <<x, y>> \in Z
  BY <1>7, <1>11 DEF Separate, Couples
<1>12. Chained(next, Z)
  <2> HIDE DEF Z
  <2>1. \A i \in 1 .. Len(a) : HighKey[a[i]] \notin From(m)
    BY <1>1, <1>7, <1>10, LtAsymmetric DEF From, Le
  <2>2. \A i \in 1 .. Len(a) : \A j \in 1 .. Len(rows) : <<a[i], rows[j]>> \in Z
    BY <1>10, <1>11, <2>1
  <2>3. \A i \in 1 .. Len(a) : \A j \in 1 .. Len(c) : <<a[i], c[j]>> \in Z
    BY <1>10, <1>11, <2>1
  <2>4. ASSUME NEW i \in 1 .. Len(rows), NEW j \in 1 .. Len(c)
        PROVE  HighKey[rows[i]] # HighKey[c[j]]
    BY <1>9, <1>10, <1>1, LtAsymmetric
  <2>5. \A i \in 1 .. Len(rows) : \A j \in 1 .. Len(c) : <<rows[i], c[j]>> \in Z
    BY <1>10, <1>11, <2>4
  <2>6. Chained(a \o rows \o c, Z)
    BY <1>5, <1>6, <1>8, <1>9, <2>2, <2>3, <2>5, JoinChained
  <2>7. next = a \o rows \o c
    BY DEF Replaced, a, c
  <2> QED
    BY <2>6, <2>7
<1>13. ASSUME NEW q \in Seq(BiContiguous), Chained(q, Z) PROVE Chained(q, Separate(Above(w)))
  <2>1. ASSUME NEW x \in BiContiguous, HighKey[x] \in Above(w) PROVE HighKey[x] \in From(m)
    BY <1>7, <2>1, NextLevel DEF Above, From, m, w
  <2>2. \A i \in 1 .. Len(q) : HighKey[q[i]] \in Above(w) => HighKey[q[i]] \in From(m)
    BY <2>1, ElementOfSeq
  <2> QED
    BY <1>13, <2>2, LessSeparate
<1>14. Neat(s, Above(w))
  BY <1>13 DEF Neat, m
<1>15. Chained(before, Z) /\ Chained(mid, Z) /\ Chained(after, Z)
  BY <1>2, <1>4, <1>12, PiecesChained DEF before, mid, after
<1>16. Chained(before, NotAfter) /\ Chained(after, NotAfter)
  <2>1. \A i, j \in 1 .. Len(s) : i < j => <<s[i], s[j]>> \in NotAfter
    BY DEF Neat, Chained
  <2>2. ASSUME NEW i \in 1 .. Len(before), NEW j \in 1 .. Len(before), i < j
        PROVE  <<before[i], before[j]>> \in NotAfter
    <3>1. i \in 1 .. Len(s) /\ j \in 1 .. Len(s)
      <4>1. Len(before) <= Len(s) /\ Len(before) \in Nat
        BY <1>2, LenProperties
      <4> QED
        BY <1>3, <4>1
    <3>2. before[i] = s[i] /\ before[j] = s[j]
      BY <1>2
    <3> QED
      BY <2>1, <2>2, <3>1, <3>2
  <2>3. ASSUME NEW i \in 1 .. Len(after), NEW j \in 1 .. Len(after), i < j
        PROVE  <<after[i], after[j]>> \in NotAfter
    <3>1. to - 1 + i \in 1 .. Len(s) /\ to - 1 + j \in 1 .. Len(s) /\ to - 1 + i < to - 1 + j
      BY <1>2, <1>3, <2>3
    <3>2. after[i] = s[to - 1 + i] /\ after[j] = s[to - 1 + j]
      BY <1>2
    <3> QED
      BY <2>1, <3>1, <3>2
  <2> QED
    BY <2>2, <2>3 DEF Chained
<1>17. Neat(before, Above(w)) /\ Neat(after, Above(w))
  BY <1>2, <1>13, <1>15, <1>16 DEF Neat
<1>18. ASSUME NEW t \in SortedByLevel(mid)
       PROVE  Neat(before \o t \o after, Above(w))
  <2>1. Neat(t, Above(w))
    BY <1>2, <1>13, <1>15, SortNeat
  <2>2. t \in Seq(Middle)
    BY <1>2, LevelSorts
  <2>3. t \in Seq(BiContiguous) /\ \A i \in 1 .. Len(t) : /\ HighKey[t[i]] \in Word
                                                         /\ ~Lt(HighKey[t[i]], w) /\ ~Lt(m, HighKey[t[i]])
    BY <2>2, ElementOfSeq, <1>7, SeqMonotonic DEF Middle
  <2>4. /\ \A i \in 1 .. Len(before) : HighKey[before[i]] \in Word /\ Lt(HighKey[before[i]], w)
        /\ \A i \in 1 .. Len(after) : HighKey[after[i]] \in Word /\ Lt(m, HighKey[after[i]])
    BY <1>2, <1>7, ElementOfSeq
  <2>5. ASSUME NEW i \in 1 .. Len(before), NEW j \in 1 .. Len(t) PROVE Lt(HighKey[before[i]], HighKey[t[j]])
    <3>1. HighKey[t[j]] = w \/ Lt(w, HighKey[t[j]])
      BY <1>1, <2>3, LtTotal
    <3> QED
      BY <1>1, <2>3, <2>4, <3>1, LtTransitive
  <2>6. ASSUME NEW i \in 1 .. Len(t), NEW j \in 1 .. Len(after) PROVE Lt(HighKey[t[i]], HighKey[after[j]])
    <3>1. HighKey[t[i]] = m \/ Lt(HighKey[t[i]], m)
      BY <1>1, <2>3, LtTotal
    <3> QED
      BY <1>1, <2>3, <2>4, <3>1, LtTransitive
  <2>7. ASSUME NEW i \in 1 .. Len(before), NEW j \in 1 .. Len(after) PROVE Lt(HighKey[before[i]], HighKey[after[j]])
    <3>1. Lt(HighKey[before[i]], m)
      BY <1>1, <2>4, LtTransitive
    <3> QED
      BY <1>1, <2>4, <3>1, LtTransitive
  <2> QED
    BY <1>2, <1>17, <2>1, <2>3, <2>5, <2>6, <2>7, JoinNeat
<1> QED
  BY <1>14, <1>18, Zenon DEF before, mid, after, w

-----------------------------------------------------------------------------
(* The order of masks and addresses                                        *)

(* The first is before the second in the order of masks and addresses.     *)
Earlier == {c \in Couples : KeyBefore(MaskAddressKey(c[1]), MaskAddressKey(c[2]))}

(* The order of masks and addresses, without its tuples.                   *)
LEMMA MaskOrder ==
  ASSUME NEW x \in BiContiguous, NEW y \in BiContiguous
  PROVE  KeyBefore(MaskAddressKey(x), MaskAddressKey(y)) <=>
           Lt(x.mask, y.mask) \/ (x.mask = y.mask /\ Lt(x.addr, y.addr))
<1> DEFINE k == MaskAddressKey(x)
           l == MaskAddressKey(y)
<1>1. DOMAIN k = 1 .. 2 /\ k[1] = x.mask /\ k[2] = x.addr /\ l[1] = y.mask /\ l[2] = y.addr
  BY DEF MaskAddressKey
<1> HIDE DEF k, l
<1>2. KeyBefore(k, l) <=> \E i \in 1 .. 2 : Lt(k[i], l[i]) /\ \A j \in 1 .. (i - 1) : k[j] = l[j]
  BY <1>1 DEF KeyBefore
<1>3. /\ \A i \in 1 .. 2 : i = 1 \/ i = 2
      /\ 1 \in 1 .. 2 /\ 2 \in 1 .. 2
      /\ \A j \in 1 .. (1 - 1) : FALSE
      /\ \A j \in 1 .. (2 - 1) : j = 1
      /\ 1 \in 1 .. (2 - 1)
  OBVIOUS
<1> DEFINE C(i) == Lt(k[i], l[i]) /\ \A j \in 1 .. (i - 1) : k[j] = l[j]
<1>4. KeyBefore(k, l) <=> C(1) \/ C(2)
  <2>1. KeyBefore(k, l) <=> \E i \in 1 .. 2 : C(i)
    BY <1>2
  <2> HIDE DEF C
  <2> QED
    BY <1>3, <2>1
<1>5. C(1) <=> Lt(k[1], l[1])
  BY <1>3
<1>6. C(2) <=> k[1] = l[1] /\ Lt(k[2], l[2])
  BY <1>3
<1> HIDE DEF C
<1> QED
  BY <1>1, <1>4, <1>5, <1>6 DEF k, l

(* Of two networks in that order the second never contains the first, and  *)
(* the first contains the second only with another high mask.              *)
LEMMA EarlierIs ==
  ASSUME NEW x, NEW y, <<x, y>> \in Earlier, <<x, y>> \in Separate(Word)
  PROVE  /\ ~Contains(y, x)
         /\ High(x.mask) = High(y.mask) => ~Contains(x, y)
<1>1. x \in BiContiguous /\ y \in BiContiguous /\ KeyBefore(MaskAddressKey(x), MaskAddressKey(y))
  BY DEF Earlier, Couples
<1>2. x.mask \in Word /\ y.mask \in Word /\ High(x.mask) \in Word
  <2>1. x.mask \in Word /\ y.mask \in Word
    BY <1>1, ClassFields
  <2> QED
    BY <2>1, HalvesOf
<1>3. Lt(x.mask, y.mask) \/ x.mask = y.mask
  BY <1>1, MaskOrder
<1>4. High(x.mask) = High(y.mask) => ~Contains(x, y) /\ ~Contains(y, x)
  BY <1>2 DEF Separate
<1>5. CASE x.mask = y.mask
  BY <1>4, <1>5
<1>6. CASE Lt(x.mask, y.mask)
  <2>1. ~(y.mask \subseteq x.mask)
    BY <1>6 DEF Lt
  <2> QED
    BY <1>4, <2>1 DEF Contains
<1> QED
  BY <1>3, <1>5, <1>6

(* The sort by mask keeps what is separate apart, so that none repeats.    *)
LEMMA MaskSortEarlier ==
  ASSUME NEW s \in Seq(BiContiguous), NEW t \in SortedByMask(s), Chained(s, Separate(Word))
  PROVE  /\ Chained(t, Earlier) /\ Chained(t, Separate(Word))
         /\ \A i \in 1 .. Len(t) : \E j \in 1 .. Len(s) : t[i] = s[j]
<1> DEFINE n == Len(s)
<1>1. t \in Rearranged(s) /\ InOrder(t, MaskAddressKey)
  BY DEF SortedByMask
<1>2. t \in Seq(BiContiguous) /\ Len(t) = n /\ n \in Nat
  BY <1>1, RearrangedIs, LenProperties
<1>3. PICK q \in [1 .. n -> 1 .. n] :
        /\ \A i \in 1 .. n : t[i] = s[q[i]]
        /\ \A i, j \in 1 .. n : i # j => q[i] # q[j]
  BY <1>1, RearrangedApart
<1>4. \A i, j \in 1 .. n : i < j => <<s[i], s[j]>> \in Separate(Word)
  BY DEF Chained
<1> HIDE DEF n
<1>5. ASSUME NEW i \in 1 .. n, NEW j \in 1 .. n, i < j
      PROVE  <<t[i], t[j]>> \in Earlier /\ <<t[i], t[j]>> \in Separate(Word)
  <2> DEFINE x == t[i]
             y == t[j]
  <2>1. x \in BiContiguous /\ y \in BiContiguous /\ i \in DOMAIN t /\ j \in DOMAIN t
    BY <1>2, ElementOfSeq, LenProperties
  <2>2. ~KeyBefore(MaskAddressKey(y), MaskAddressKey(x))
    BY <1>1, <1>5, <2>1 DEF InOrder
  <2>3. q[i] \in 1 .. n /\ q[j] \in 1 .. n /\ q[i] # q[j]
    BY <1>3, <1>5
  <2>4. q[i] < q[j] \/ q[j] < q[i]
    BY <2>3
  <2>5. x = s[q[i]] /\ y = s[q[j]]
    BY <1>3
  <2> HIDE DEF x, y
  <2>6. <<x, y>> \in Separate(Word) \/ <<y, x>> \in Separate(Word)
    BY <1>4, <2>3, <2>4, <2>5
  <2>7. <<x, y>> \in Separate(Word)
    BY <2>1, <2>6, BuddiesEither DEF Separate, Couples
  <2>8. /\ x.mask \in Word /\ y.mask \in Word /\ x.addr \in Word /\ y.addr \in Word
        /\ x.addr \subseteq x.mask /\ High(x.mask) \in Word
        /\ x = [addr |-> x.addr, mask |-> x.mask] /\ y = [addr |-> y.addr, mask |-> y.mask]
    <3>1. x.mask \in Word
      BY <2>1, ClassFields
    <3> QED
      BY <2>1, <3>1, ClassFields, HalvesOf
  <2>9. x # y
    <3>1. Contains(x, x)
      BY <2>8 DEF Contains
    <3> QED
      BY <2>7, <2>8, <3>1 DEF Separate
  <2>10. Lt(x.mask, y.mask) \/ (x.mask = y.mask /\ Lt(x.addr, y.addr))
    <3>1. ~Lt(y.mask, x.mask) /\ (y.mask = x.mask => ~Lt(y.addr, x.addr))
      BY <2>1, <2>2, MaskOrder
    <3>2. CASE x.mask = y.mask
      <4>1. x.addr # y.addr
        BY <2>8, <2>9, <3>2
      <4> QED
        BY <2>8, <3>1, <3>2, <4>1, LtTotal
    <3>3. CASE x.mask # y.mask
      BY <2>8, <3>1, <3>3, LtTotal
    <3> QED
      BY <3>2, <3>3
  <2>11. <<x, y>> \in Earlier
    <3>1. KeyBefore(MaskAddressKey(x), MaskAddressKey(y))
      BY <2>1, <2>10, MaskOrder
    <3> QED
      BY <2>1, <3>1 DEF Earlier, Couples
  <2> QED
    BY <2>7, <2>11 DEF x, y
<1>6. Chained(t, Earlier) /\ Chained(t, Separate(Word))
  BY <1>2, <1>5 DEF Chained
<1> QED
  BY <1>2, <1>3, <1>6 DEF n

(* The survivors of a chunk are some of its networks, in their order, none *)
(* of them contained.                                                      *)
LEMMA SurvivorsChained ==
  ASSUME NEW Q, Q \subseteq BiContiguous, NEW chunk \in Seq(Q), NEW masks
  PROVE  /\ \A R : Chained(chunk, R) => Chained(Survivors(chunk, masks), R)
         /\ \A i \in 1 .. Len(Survivors(chunk, masks)) : \E j \in 1 .. Len(chunk) :
              Survivors(chunk, masks)[i] = chunk[j] /\ ~IsContained(chunk[j], masks)
<1> DEFINE r == Survivors(chunk, masks)
<1>1. PICK p : Picks(p, r, chunk, Len(chunk), masks)
  BY SurvivorsPicked
<1> HIDE DEF r
<1>2. \A R : Chained(chunk, R) => Chained(r, R)
  <2>1. /\ \A k \in 1 .. Len(r) : p[k] \in 1 .. Len(chunk) /\ r[k] = chunk[p[k]]
        /\ \A j, k \in 1 .. Len(r) : j < k => p[j] < p[k]
    BY <1>1 DEF Picks
  <2> QED
    BY <2>1 DEF Chained
<1>3. \A i \in 1 .. Len(r) : \E j \in 1 .. Len(chunk) : r[i] = chunk[j] /\ ~IsContained(chunk[j], masks)
  BY <1>1 DEF Picks
<1> QED
  BY <1>2, <1>3 DEF r

(* The order while containment is probed: of the first k networks none     *)
(* contains another.                                                       *)
Probed(s, k, masks) ==
  /\ Chained(s, Earlier) /\ Chained(s, Separate(Word))
  /\ \A i \in 1 .. Len(s) : s[i].mask \in masks
  /\ \A i, j \in 1 .. k : i # j => ~Contains(s[i], s[j])

(* A kept network that contains one of another high mask is found: the     *)
(* mask of the first is among the ancestors, its run is whole, and the     *)
(* addresses of the run ascend.                                            *)
LEMMA ContainedIsFound ==
  ASSUME Sorted, Chained(nets, Earlier), shapes \subseteq Word, NEW n \in BiContiguous, NEW k \in 1 .. kept,
         nets[k].mask \in shapes, High(nets[k].mask) # High(n.mask), Contains(nets[k], n)
  PROVE  IsContained(n, AncestorMasks(n.mask))
<1> DEFINE masks == AncestorMasks(n.mask)
           a == nets[k]
<1>1. masks \subseteq Word
  BY DEF AncestorMasks
<1>2. a.mask \subseteq n.mask /\ n.addr \cap a.mask = a.addr
  BY DEF Contains
<1>3. High(a.mask) \subseteq High(n.mask)
  BY <1>2 DEF High
<1>4. a.mask \in masks
  BY <1>2, <1>3 DEF AncestorMasks
<1> HIDE DEF masks
<1>5. k \in Runs(masks)[a.mask][1] .. (Runs(masks)[a.mask][2] - 1)
  BY <1>1, <1>4, RunsComplete
<1>6. nets[k].addr = n.addr \cap a.mask
  BY <1>2
<1> DEFINE from == Runs(masks)[a.mask][1]
           to == Runs(masks)[a.mask][2]
           target == n.addr \cap a.mask
<1>7. /\ Searchable(nets, from, to)
      /\ \A i \in from .. (to - 1) : i \in 1 .. kept /\ nets[i].mask = a.mask /\ nets[i] \in BiContiguous
  BY <1>1, <1>4, RunIsSearched
<1>8. target \in Word
  BY <1>1, <1>4, ClassFields DEF Word
<1> HIDE DEF from, to, a, target
<1>9. AddrsAscend(nets, from, to)
  <2> SUFFICES ASSUME NEW i \in from .. (to - 1), NEW j \in from .. (to - 1), i < j
               PROVE  Le(nets[i].addr, nets[j].addr)
    BY DEF AddrsAscend
  <2>1. <<nets[i], nets[j]>> \in Earlier
    <3>1. i \in 1 .. Len(nets) /\ j \in 1 .. Len(nets)
      BY <1>7, LenProperties DEF Sorted
    <3> QED
      BY <3>1 DEF Chained
  <2>2. KeyBefore(MaskAddressKey(nets[i]), MaskAddressKey(nets[j]))
    BY <2>1 DEF Earlier, Couples
  <2>3. Lt(nets[i].mask, nets[j].mask) \/ Lt(nets[i].addr, nets[j].addr)
    BY <1>7, <2>2, MaskOrder
  <2>4. nets[i].mask = nets[j].mask /\ nets[i].mask \in Word
    BY <1>7, ClassFields
  <2>5. ~Lt(nets[i].mask, nets[j].mask)
    BY <2>4, LtAsymmetric
  <2> QED
    BY <2>3, <2>5 DEF Le
<1>10. k \in from .. (to - 1) /\ nets[k].addr = target
  BY <1>5, <1>6 DEF from, to, target
<1>11. AddressAt(nets, from, to, target) # {}
  BY <1>7, <1>8, <1>9, <1>10, AddressAtIs
<1>12. IsContained(n, masks)
  BY <1>4, <1>11, Zenon DEF IsContained, from, to, target
<1> QED
  BY <1>12 DEF masks

(* What is left of a chunk joins the networks kept, none of which contains *)
(* another.                                                                *)
LEMMA ProbeFrees ==
  ASSUME Sorted, shapes \subseteq Word, kept < Len(nets), Probed(nets, kept, shapes),
         NEW t, t = Survivors(SubSeq(nets, kept + 1, ChunkEnd - 1), AncestorMasks(nets[kept + 1].mask))
  PROVE  Probed(Replaced(nets, kept + 1, ChunkEnd, t), kept + Len(t), shapes)
<1> DEFINE m == nets[kept + 1].mask
           from == kept + 1
           to == ChunkEnd
           n == Len(nets)
           Q == {x \in BiContiguous : x.mask = m}
           a == SubSeq(nets, 1, from - 1)
           b == SubSeq(nets, from, to - 1)
           c == SubSeq(nets, to, n)
           masks == AncestorMasks(m)
           r == a \o t \o c
           Z == Separate(Word)
<1>0. Chained(nets, Earlier)
  BY DEF Probed
<1>1. /\ nets \in Seq(BiContiguous) /\ n \in Nat /\ kept \in 0 .. n /\ kept \in Nat /\ kept < n
  BY LenProperties DEF Sorted
<1>2. to \in (kept + 2) .. (n + 1) /\ \A i \in from .. (to - 1) : nets[i].mask = m
  BY <1>1, ChunkIs
<1> HIDE DEF to
<1>3. from \in 1 .. (n + 1) /\ to \in from .. (n + 1) /\ from - 1 = kept /\ from \in Int /\ to \in Int
  BY <1>1, <1>2
<1>4. /\ a \in Seq(BiContiguous) /\ Len(a) = kept /\ b \in Seq(BiContiguous) /\ Len(b) = to - from
      /\ c \in Seq(BiContiguous) /\ Len(c) = n + 1 - to
  <2> HIDE DEF from
  <2>1. /\ a \in Seq(BiContiguous) /\ Len(a) = from - 1 /\ b \in Seq(BiContiguous) /\ Len(b) = to - from
        /\ c \in Seq(BiContiguous) /\ Len(c) = n + 1 - to
    BY <1>1, <1>3, PiecesAre
  <2> HIDE DEF a, b, c, n
  <2> QED
    BY <1>3, <2>1
<1>5. /\ \A i \in 1 .. kept : a[i] = nets[i]
      /\ \A i \in 1 .. (to - from) : b[i] = nets[from - 1 + i]
      /\ \A i \in 1 .. (n + 1 - to) : c[i] = nets[to - 1 + i]
  <2> HIDE DEF from
  <2>1. /\ \A i \in 1 .. (from - 1) : a[i] = nets[i]
        /\ \A i \in 1 .. (to - from) : b[i] = nets[from - 1 + i]
        /\ \A i \in 1 .. (n + 1 - to) : c[i] = nets[to - 1 + i]
    BY <1>1, <1>3, PiecesAre
  <2> HIDE DEF a, b, c, n
  <2> QED
    BY <1>3, <2>1
<1>6. /\ Chained(b, Earlier) /\ Chained(b, Z)
      /\ Chained(a, Earlier) /\ Chained(a, Z) /\ Chained(c, Earlier) /\ Chained(c, Z)
  <2>1. Chained(nets, Earlier) /\ Chained(nets, Z)
    BY DEF Probed
  <2> HIDE DEF from, Z
  <2> QED
    BY <1>1, <1>3, <2>1, PiecesChained
<1>7. t = Survivors(b, masks)
  BY DEF to
<1>8. Replaced(nets, kept + 1, ChunkEnd, t) = r
  BY DEF Replaced, to
<1>9. /\ \A i, j \in 1 .. n : i < j => <<nets[i], nets[j]>> \in Earlier /\ <<nets[i], nets[j]>> \in Z
      /\ \A i \in 1 .. n : nets[i].mask \in shapes
      /\ \A i, j \in 1 .. kept : i # j => ~Contains(nets[i], nets[j])
  BY DEF Probed, Chained
<1> HIDE DEF from, a, b, c, n, masks, m, Z
<1>10. \A i \in 1 .. (to - from) : from - 1 + i \in from .. (to - 1) /\ from - 1 + i \in 1 .. n
  BY <1>1, <1>3
<1>11. \A i \in 1 .. (to - from) : b[i] \in Q
  <2>1. \A i \in 1 .. Len(b) : b[i] \in BiContiguous
    BY <1>4, ElementOfSeq
  <2> QED
    BY <1>2, <1>4, <1>5, <1>10, <2>1
<1>12. b \in Seq(Q)
  <2> HIDE DEF Q
  <2>1. b \in [1 .. Len(b) -> Q] /\ Len(b) \in Nat
    BY <1>4, <1>11, LenProperties
  <2> QED
    BY <2>1, SeqDef
<1>13. Q \subseteq BiContiguous
  OBVIOUS
<1>14. /\ t \in Seq(Q)
       /\ Chained(t, Earlier) /\ Chained(t, Z)
       /\ \A i \in 1 .. Len(t) : \E j \in 1 .. Len(b) : t[i] = b[j] /\ ~IsContained(b[j], masks)
  <2> HIDE DEF Q
  <2> QED
    BY <1>6, <1>7, <1>12, <1>13, SurvivorsAre, SurvivorsChained
<1>15. t \in Seq(BiContiguous) /\ Len(t) \in Nat /\ \A i \in 1 .. Len(t) : t[i] \in Q
  <2> HIDE DEF Q
  <2> QED
    BY <1>13, <1>14, SeqMonotonic, ElementOfSeq, LenProperties
<1>16. a \in Seq(BiContiguous) /\ t \in Seq(BiContiguous) /\ c \in Seq(BiContiguous)
  BY <1>4, <1>15
<1>17. \A i \in 1 .. Len(a) : i \in 1 .. n /\ i \in 1 .. kept /\ a[i] = nets[i] /\ i <= kept
  BY <1>1, <1>4, <1>5
<1>18. \A i \in 1 .. Len(t) : \E j \in 1 .. n : t[i] = nets[j] /\ kept < j /\ j < to /\ ~IsContained(nets[j], masks)
  <2> SUFFICES ASSUME NEW i \in 1 .. Len(t)
               PROVE  \E j \in 1 .. n : t[i] = nets[j] /\ kept < j /\ j < to /\ ~IsContained(nets[j], masks)
    OBVIOUS
  <2>1. PICK j \in 1 .. Len(b) : t[i] = b[j] /\ ~IsContained(b[j], masks)
    BY <1>14
  <2>2. b[j] = nets[from - 1 + j] /\ from - 1 + j \in 1 .. n /\ kept < from - 1 + j /\ from - 1 + j < to
    BY <1>1, <1>3, <1>4, <1>5, <1>10, <2>1
  <2> QED
    BY <2>1, <2>2
<1>19. \A i \in 1 .. Len(c) : \E j \in 1 .. n : c[i] = nets[j] /\ to <= j
  <2> SUFFICES ASSUME NEW i \in 1 .. Len(c) PROVE \E j \in 1 .. n : c[i] = nets[j] /\ to <= j
    OBVIOUS
  <2>1. to - 1 + i \in 1 .. n /\ to <= to - 1 + i /\ i \in 1 .. (n + 1 - to)
    BY <1>1, <1>3, <1>4
  <2> QED
    BY <1>5, <2>1
<1>20. ASSUME NEW i \in 1 .. Len(a), NEW j \in 1 .. Len(t)
       PROVE  <<a[i], t[j]>> \in Earlier /\ <<a[i], t[j]>> \in Z
  <2>1. PICK k \in 1 .. n : t[j] = nets[k] /\ kept < k
    BY <1>18
  <2>2. i \in 1 .. n /\ a[i] = nets[i] /\ i < k
    BY <1>1, <1>17, <2>1
  <2> QED
    BY <1>9, <2>1, <2>2
<1>21. ASSUME NEW i \in 1 .. Len(t), NEW j \in 1 .. Len(c)
       PROVE  <<t[i], c[j]>> \in Earlier /\ <<t[i], c[j]>> \in Z
  <2>1. PICK h \in 1 .. n : t[i] = nets[h] /\ h < to
    BY <1>18
  <2>2. PICK k \in 1 .. n : c[j] = nets[k] /\ to <= k
    BY <1>19
  <2>3. h < k
    BY <1>3, <2>1, <2>2
  <2> QED
    BY <1>9, <2>1, <2>2, <2>3
<1>22. ASSUME NEW i \in 1 .. Len(a), NEW j \in 1 .. Len(c)
       PROVE  <<a[i], c[j]>> \in Earlier /\ <<a[i], c[j]>> \in Z
  <2>1. PICK k \in 1 .. n : c[j] = nets[k] /\ to <= k
    BY <1>19
  <2>2. i \in 1 .. n /\ a[i] = nets[i] /\ i < k
    BY <1>1, <1>2, <1>17, <2>1
  <2> QED
    BY <1>9, <2>1, <2>2
<1>23. Chained(r, Earlier) /\ Chained(r, Z)
  BY <1>6, <1>14, <1>16, <1>20, <1>21, <1>22, JoinChained
<1>24. /\ Len(r) = Len(a) + Len(t) + Len(c)
       /\ \A i \in 1 .. Len(a) : r[i] = a[i]
       /\ \A i \in 1 .. Len(t) : r[Len(a) + i] = t[i]
       /\ \A i \in 1 .. Len(c) : r[Len(a) + Len(t) + i] = c[i]
       /\ Len(a) \in Nat /\ Len(t) \in Nat /\ Len(c) \in Nat
  BY <1>16, JoinIs
<1> HIDE DEF r
<1>25. \A i \in 1 .. Len(r) : r[i].mask \in shapes
  <2> SUFFICES ASSUME NEW i \in 1 .. Len(r) PROVE \E j \in 1 .. n : r[i] = nets[j]
    BY <1>9
  <2>1. CASE i <= Len(a)
    <3>1. i \in 1 .. Len(a)
      BY <1>24, <2>1
    <3> QED
      BY <1>17, <1>24, <3>1
  <2>2. CASE i > Len(a) /\ i <= Len(a) + Len(t)
    <3>1. i - Len(a) \in 1 .. Len(t) /\ Len(a) + (i - Len(a)) = i
      BY <1>24, <2>2
    <3>2. r[i] = t[i - Len(a)]
      BY <1>24, <3>1
    <3> QED
      BY <1>18, <3>1, <3>2
  <2>3. CASE i > Len(a) + Len(t)
    <3>1. i - (Len(a) + Len(t)) \in 1 .. Len(c) /\ Len(a) + Len(t) + (i - (Len(a) + Len(t))) = i
      BY <1>24, <2>3
    <3>2. r[i] = c[i - (Len(a) + Len(t))]
      BY <1>24, <3>1
    <3> QED
      BY <1>19, <3>1, <3>2
  <2> QED
    BY <1>24, <2>1, <2>2, <2>3
<1>26. ASSUME NEW i \in 1 .. Len(t), NEW j \in 1 .. Len(t), i # j PROVE ~Contains(t[i], t[j])
  <2>1. <<t[i], t[j]>> \in Z \/ <<t[j], t[i]>> \in Z
    BY <1>14, <1>15, <1>26 DEF Chained
  <2>2. t[i].mask = m /\ t[j].mask = m
    BY <1>15
  <2>3. High(t[i].mask) \in Word /\ High(t[j].mask) \in Word
    <3>1. t[i] \in BiContiguous /\ t[j] \in BiContiguous
      BY <1>15
    <3> QED
      BY <3>1, ClassFields, HalvesOf
  <2> QED
    BY <2>1, <2>2, <2>3 DEF Z, Separate
<1>27. ASSUME NEW i \in 1 .. kept, NEW j \in 1 .. Len(t)
       PROVE  ~Contains(nets[i], t[j]) /\ ~Contains(t[j], nets[i])
  <2> DEFINE x == nets[i]
             y == t[j]
  <2>1. i \in 1 .. Len(a) /\ a[i] = x /\ i \in 1 .. n
    BY <1>4, <1>17
  <2>2. <<x, y>> \in Earlier /\ <<x, y>> \in Separate(Word)
    BY <1>20, <2>1 DEF Z
  <2>3. ~Contains(y, x) /\ (High(x.mask) = High(y.mask) => ~Contains(x, y))
    BY <2>2, EarlierIs
  <2>4. PICK k \in 1 .. n : y = nets[k] /\ ~IsContained(nets[k], masks)
    BY <1>18
  <2>5. y \in BiContiguous /\ y.mask = m /\ x.mask \in shapes
    BY <1>9, <1>15, <2>1
  <2>6. ~IsContained(y, AncestorMasks(y.mask))
    BY <2>4, <2>5 DEF masks
  <2> HIDE DEF y
  <2>7. ASSUME High(x.mask) # High(y.mask), Contains(x, y) PROVE FALSE
    <3>1. IsContained(y, AncestorMasks(y.mask))
      BY <1>0, <2>5, <2>7, ContainedIsFound
    <3> QED
      BY <2>6, <3>1
  <2> QED
    BY <2>3, <2>7 DEF y
<1>28. ASSUME NEW i \in 1 .. (kept + Len(t)), NEW j \in 1 .. (kept + Len(t)), i # j
       PROVE  ~Contains(r[i], r[j])
  <2>1. \A k \in 1 .. (kept + Len(t)) :
          \/ k \in 1 .. kept /\ r[k] = nets[k]
          \/ k - kept \in 1 .. Len(t) /\ r[k] = t[k - kept]
    <3> SUFFICES ASSUME NEW k \in 1 .. (kept + Len(t))
                 PROVE  \/ k \in 1 .. kept /\ r[k] = nets[k]
                        \/ k - kept \in 1 .. Len(t) /\ r[k] = t[k - kept]
      OBVIOUS
    <3>1. CASE k <= kept
      <4>1. k \in 1 .. kept /\ k \in 1 .. Len(a)
        BY <1>1, <1>4, <3>1
      <4> QED
        BY <1>17, <1>24, <4>1
    <3>2. CASE k > kept
      <4>1. k - kept \in 1 .. Len(t) /\ kept + (k - kept) = k
        BY <1>1, <1>15, <3>2
      <4> QED
        BY <1>4, <1>24, <4>1
    <3> QED
      BY <1>1, <3>1, <3>2
  <2>2. CASE i \in 1 .. kept /\ r[i] = nets[i]
    <3>1. CASE j \in 1 .. kept /\ r[j] = nets[j]
      BY <1>9, <1>28, <2>2, <3>1
    <3>2. CASE j - kept \in 1 .. Len(t) /\ r[j] = t[j - kept]
      BY <1>27, <2>2, <3>2
    <3> QED
      BY <2>1, <3>1, <3>2
  <2>3. CASE i - kept \in 1 .. Len(t) /\ r[i] = t[i - kept]
    <3>1. CASE j \in 1 .. kept /\ r[j] = nets[j]
      BY <1>27, <2>3, <3>1
    <3>2. CASE j - kept \in 1 .. Len(t) /\ r[j] = t[j - kept]
      <4>1. i - kept # j - kept
        BY <1>1, <1>28
      <4> QED
        BY <1>26, <2>3, <3>2, <4>1
    <3> QED
      BY <2>1, <3>1, <3>2
  <2> QED
    BY <2>1, <2>2, <2>3
<1>29. Probed(r, kept + Len(t), shapes)
  BY <1>23, <1>25, <1>28 DEF Probed, Z
<1> QED
  BY <1>8, <1>29, Zenon

-----------------------------------------------------------------------------
(* The order, as an invariant                                              *)

(* Beside what keeps the addresses: while the levels are swept the slice   *)
(* is in order and the levels already swept hold no containment among      *)
(* themselves; the sweep ends with that at every level; and the probe      *)
(* keeps it while it empties the slice of what other shapes contain.       *)
SInv ==
  /\ UInv
  /\ pc = "low" => Neat(nets, Above(HighMask(level)))
  /\ pc = "high" => Neat(nets, From(HighMask(level)))
  /\ pc = "contain" => Chained(nets, Separate(Word))
  /\ pc = "probe" => Probed(nets, kept, shapes)

(* The sweep begins by sorting.                                            *)
LEMMA SSweep ==
  ASSUME SInv, nets' \in SortedByLevel(nets), level' = HighW, pc' = "low",
         UNCHANGED <<input, block, shapes, kept, swept, calls>>
  PROVE  SInv'
<1>1. UInv /\ nets \in Seq(BiContiguous)
  BY UFacts DEF SInv
<1>2. UInv'
  BY <1>1, USweep
<1>3. Neat(nets', Above(HighMask(HighW)))
  BY <1>1, SweepNeat
<1> QED
  BY <1>2, <1>3 DEF SInv

(* Every level is one of the lowest level's.                               *)
LEMMA FromBottom == HighMask(0) \in Word /\ From(HighMask(0)) = Word
<1>1. W \in Nat /\ \A i \in Bits : ~(i >= W - 0)
  BY WAssumption DEF Bits
<1>2. HighMask(0) = {}
  BY <1>1 DEF HighMask
<1>3. \A x \in Word : Le({}, x)
  <2> SUFFICES ASSUME NEW x \in Word, x # {} PROVE Lt({}, x)
    BY DEF Le
  <2> QED
    BY DEF Lt
<1> QED
  BY <1>2, <1>3 DEF From, Word

(* The rows of a level aggregated by their low halves.                     *)
LEMMA SLow ==
  ASSUME SInv, LowRows
  PROVE  SInv'
<1> DEFINE m == HighMask(level)
           from == LowerBoundHighMask(nets, Len(nets) + 1, m)
           to == UpperBoundHighMask(nets, Len(nets) + 1, m)
           rows == AggregateLowRows[SubSeq(nets, from, to - 1)]
           r == Replaced(nets, from, to, rows)
<1>1. nets' = r
  BY Zenon DEF LowRows, Splice, Replaced
<1>2. pc = "low" /\ pc' = (IF level = 0 THEN "contain" ELSE "high") /\ level' = level
  BY DEF LowRows
<1>3. /\ UInv /\ Neat(nets, Above(m)) /\ level \in 0 .. HighW /\ HighAscends(nets)
      /\ nets \in Seq(BiContiguous)
  BY <1>2 DEF SInv, UInv, TypeOK
<1>4. UInv'
  BY <1>3, ULow
<1>5. m \in Word
  BY <1>3, LevelMaskIs
<1> HIDE DEF m
<1>6. Parted(nets, from, to, m)
  BY <1>3, <1>5, LevelIsParted
<1> HIDE DEF from, to
<1>7. Neat(r, From(m))
  <2> HIDE DEF r
  <2>1. Neat(Replaced(nets, from, to, rows), From(m))
    <3> DEFINE z == rows
    <3>1. z = AggregateLowRows[SubSeq(nets, from, to - 1)]
      OBVIOUS
    <3> HIDE DEF z, rows
    <3>2. Neat(Replaced(nets, from, to, z), From(m))
      BY <1>3, <1>5, <1>6, <3>1, LowRowsNeat
    <3> QED
      BY <3>2, Zenon DEF z
  <2> QED
    BY <2>1, Zenon DEF r
<1> HIDE DEF r
<1>8. Neat(nets', From(HighMask(level)))
  BY <1>1, <1>7 DEF m
<1>9. CASE level = 0
  <2>1. Chained(nets', Separate(Word))
    BY <1>8, <1>9, FromBottom DEF Neat
  <2> QED
    BY <1>2, <1>4, <1>9, <2>1 DEF SInv
<1>10. CASE level # 0
  <2>1. Neat(nets', From(HighMask(level')))
    BY <1>2, <1>8
  <2> QED
    BY <1>2, <1>4, <1>10, <2>1 DEF SInv
<1> QED
  BY <1>9, <1>10

(* The buddy rows of a level merged, and what moved sorted again.          *)
LEMMA SHigh ==
  ASSUME SInv, HighBuddies
  PROVE  SInv'
<1> DEFINE from == block[1]
           to == block[2]
           rows == MergeHighBuddies(SubSeq(nets, from, to - 1), level)
           next == Replaced(nets, from, to, rows)
           back == LowerBoundHighMask(next, from, HighMask(level - 1))
           end == from + Len(rows)
           New(t) == SubSeq(next, 1, back - 1) \o t \o SubSeq(next, end, Len(next))
           H == Above(HighMask(level - 1))
<1>1. \/ \E t \in SortedByLevel(SubSeq(next, back, end - 1)) : nets' = New(t)
      \/ end = to /\ nets' = next
  BY Zenon DEF HighBuddies, Splice, Replaced
<1>2. pc = "high" /\ level' = level - 1 /\ pc' = "low"
  BY DEF HighBuddies
<1>3. /\ nets \in Seq(BiContiguous) /\ HighAscends(nets) /\ level \in 1 .. HighW /\ UInv
      /\ Parted(nets, from, to, HighMask(level)) /\ Neat(nets, From(HighMask(level)))
  BY <1>2 DEF SInv, UInv, TypeOK
<1>4. UInv'
  BY <1>3, UHigh
<1>5. end = to => next = nets
  BY <1>3, HighBuddiesKeep
<1>6. /\ Neat(nets, H)
      /\ \A t \in SortedByLevel(SubSeq(next, back, end - 1)) : Neat(New(t), H)
  BY <1>3, HighBuddiesNeat
<1>7. Neat(nets', H)
  <2> HIDE DEF from, to, rows, next, back, end, New, H
  <2> QED
    BY <1>1, <1>5, <1>6
<1>8. Neat(nets', Above(HighMask(level')))
  <2>1. H = Above(HighMask(level'))
    BY <1>2
  <2> HIDE DEF H
  <2> QED
    BY <1>7, <2>1, Zenon
<1> QED
  BY <1>2, <1>4, <1>8 DEF SInv

(* The sort by mask, and the shapes collected.                             *)
LEMMA SContain ==
  ASSUME SInv, BeginContainment
  PROVE  SInv'
<1>1. /\ nets' \in IF Len(nets) <= 1 THEN {nets} ELSE SortedByMask(nets)
      /\ shapes' = {nets[i].mask : i \in DOMAIN nets}
      /\ kept' = IF Len(nets) <= 1 THEN Len(nets) ELSE 0
      /\ pc' = "probe" /\ pc = "contain"
  BY DEF BeginContainment
<1>2. /\ UInv /\ nets \in Seq(BiContiguous) /\ Chained(nets, Separate(Word))
      /\ Len(nets) \in Nat /\ DOMAIN nets = 1 .. Len(nets)
  BY <1>1, UFacts, LenProperties DEF SInv
<1>3. UInv'
  BY <1>2, UContain
<1>4. \A i \in 1 .. Len(nets) : nets[i].mask \in shapes'
  BY <1>1, <1>2
<1>5. Probed(nets', kept', shapes')
  <2>1. CASE Len(nets) <= 1
    <3>1. nets' = nets /\ kept' = Len(nets)
      BY <1>1, <2>1
    <3>2. \A i, j \in 1 .. Len(nets) : i = j
      BY <1>2, <2>1
    <3>3. Chained(nets, Earlier) /\ Chained(nets, Separate(Word))
      <4>1. \A i, j \in 1 .. Len(nets) : ~(i < j)
        BY <3>2
      <4> QED
        BY <4>1 DEF Chained
    <3>4. \A i, j \in 1 .. Len(nets) : i # j => ~Contains(nets[i], nets[j])
      BY <3>2
    <3> QED
      BY <1>4, <3>1, <3>3, <3>4 DEF Probed
  <2>2. CASE ~(Len(nets) <= 1)
    BY <1>1, <2>2, <1>2, MaskSortEarlier, <1>4 DEF Probed
  <2> QED
    BY <2>1, <2>2
<1> QED
  BY <1>1, <1>3, <1>5 DEF SInv

(* A chunk probed and compacted.                                           *)
LEMMA SProbe ==
  ASSUME SInv, ProbeChunk
  PROVE  SInv'
<1> DEFINE t == Survivors(SubSeq(nets, kept + 1, ChunkEnd - 1), AncestorMasks(nets[kept + 1].mask))
           r == Replaced(nets, kept + 1, ChunkEnd, t)
<1>1. nets' = r /\ kept' = kept + Len(t)
  BY Zenon DEF ProbeChunk, Splice, Replaced
<1>2. pc = "probe" /\ kept < Len(nets) /\ UNCHANGED <<shapes, pc>>
  BY DEF ProbeChunk
<1>3. Sorted /\ shapes \subseteq Word /\ Probed(nets, kept, shapes) /\ UInv
  BY <1>2, UFacts DEF SInv, UInv, TypeOK, Sorted
<1>4. Probed(r, kept + Len(t), shapes)
  BY <1>2, <1>3, ProbeFrees
<1> HIDE DEF r, t
<1>5. Probed(nets', kept', shapes')
  BY <1>1, <1>2, <1>4, Zenon
<1>6. UInv'
  BY <1>3, UProbe
<1> QED
  BY <1>2, <1>5, <1>6 DEF SInv

(* Every step keeps the invariant.                                         *)
LEMMA SStep == SInv /\ [Next]_vars => SInv'
<1> SUFFICES ASSUME SInv, [Next]_vars PROVE SInv'
  OBVIOUS
<1>0. UInv /\ UInv'
  BY UStep DEF SInv
<1>1. CASE ReturnShort
  BY <1>0, <1>1 DEF ReturnShort, SInv
<1>2. CASE BeginSweep
  BY <1>2, SSweep DEF BeginSweep
<1>3. CASE LowRows
  BY <1>3, SLow
<1>4. CASE HighBuddies
  BY <1>4, SHigh
<1>5. CASE BeginContainment
  BY <1>5, SContain
<1>6. CASE ProbeChunk
  BY <1>6, SProbe
<1>7. CASE Return
  BY <1>0, <1>7 DEF Return, SInv
<1>8. CASE Repeat
  BY <1>8, SSweep DEF Repeat
<1>9. CASE CallAgain
  BY <1>0, <1>9 DEF CallAgain, SInv
<1>10. CASE UNCHANGED vars
  BY <1>0, <1>10 DEF vars, SInv
<1> QED
  BY <1>1, <1>2, <1>3, <1>4, <1>5, <1>6, <1>7, <1>8, <1>9, <1>10 DEF Next

(* What the code bisects is in order: by level while the levels are swept, *)
(* although a buddy merge moves networks to another level; by mask and     *)
(* address, without repetition, while drops compact the slice; and of the  *)
(* networks known to stay none contains another.                           *)
THEOREM BisectionsAreSound == Spec => []SearchedInOrder
<1>1. ASSUME SInv PROVE SearchedInOrder
  <2>1. nets \in Seq(BiContiguous) /\ DOMAIN nets = 1 .. Len(nets)
    BY <1>1, UFacts, LenProperties DEF SInv
  <2>2. ASSUME pc \in {"low", "high"} PROVE InOrder(nets, LevelKey)
    <3>1. Chained(nets, NotAfter)
      BY <1>1, <2>2 DEF SInv, Neat
    <3>2. \A i, j \in DOMAIN nets : i < j => ~KeyBefore(LevelKey(nets[j]), LevelKey(nets[i]))
      BY <2>1, <3>1 DEF Chained, NotAfter
    <3> QED
      BY <3>2 DEF InOrder
  <2>3. ASSUME pc = "probe"
        PROVE  /\ IsSorted(nets, MaskAddressKey)
               /\ \A i, j \in 1 .. kept : i # j => ~Contains(nets[i], nets[j])
    <3>1. Probed(nets, kept, shapes)
      BY <1>1, <2>3 DEF SInv
    <3>2. \A i, j \in DOMAIN nets : i < j => KeyBefore(MaskAddressKey(nets[i]), MaskAddressKey(nets[j]))
      BY <2>1, <3>1 DEF Probed, Chained, Earlier
    <3>3. IsSorted(nets, MaskAddressKey)
      BY <3>2 DEF IsSorted
    <3> QED
      BY <3>1, <3>3 DEF Probed
  <2> QED
    BY <2>2, <2>3 DEF SearchedInOrder
<1>2. Init => SInv
  <2>1. ASSUME Init PROVE pc = "call"
    BY <2>1 DEF Init
  <2> QED
    BY <2>1, UInit DEF SInv
<1> QED
  BY <1>1, <1>2, SStep, PTL DEF Spec

-----------------------------------------------------------------------------
(* The networks of a slice, apart from their order                         *)

Members(s) == {s[i] : i \in DOMAIN s}

LEMMA MembersAre ==
  ASSUME NEW S, NEW s \in Seq(S)
  PROVE  /\ \A x : x \in Members(s) <=> \E i \in 1 .. Len(s) : x = s[i]
         /\ Members(s) \subseteq S
         /\ s # <<>> => s[1] \in Members(s)
<1>1. DOMAIN s = 1 .. Len(s) /\ Len(s) \in Nat
  BY LenProperties
<1>2. \A x : x \in Members(s) <=> \E i \in 1 .. Len(s) : x = s[i]
  BY <1>1 DEF Members
<1>3. \A i \in 1 .. Len(s) : s[i] \in S
  BY ElementOfSeq
<1>4. s # <<>> => 1 \in 1 .. Len(s)
  BY <1>1, EmptySeq
<1> QED
  BY <1>2, <1>3, <1>4

(* Of two sequences, one after the other.                                  *)
LEMMA MembersOfBoth ==
  ASSUME NEW S, NEW a \in Seq(S), NEW b \in Seq(S)
  PROVE  Members(a \o b) = Members(a) \cup Members(b)
<1> DEFINE t == a \o b
<1>1. /\ t \in Seq(S) /\ Len(t) = Len(a) + Len(b) /\ Len(a) \in Nat /\ Len(b) \in Nat
      /\ \A i \in 1 .. Len(a) : t[i] = a[i]
      /\ \A i \in 1 .. Len(b) : t[Len(a) + i] = b[i]
  BY BothAre
<1> HIDE DEF t
<1>2. /\ \A x : x \in Members(t) <=> \E i \in 1 .. Len(t) : x = t[i]
      /\ \A x : x \in Members(a) <=> \E i \in 1 .. Len(a) : x = a[i]
      /\ \A x : x \in Members(b) <=> \E i \in 1 .. Len(b) : x = b[i]
  BY <1>1, MembersAre
<1>3. ASSUME NEW x \in Members(t) PROVE x \in Members(a) \/ x \in Members(b)
  <2>1. PICK i \in 1 .. Len(t) : x = t[i]
    BY <1>2
  <2>2. CASE i <= Len(a)
    <3>1. i \in 1 .. Len(a)
      BY <1>1, <2>2
    <3> QED
      BY <1>1, <1>2, <2>1, <3>1
  <2>3. CASE ~(i <= Len(a))
    <3>1. i - Len(a) \in 1 .. Len(b) /\ Len(a) + (i - Len(a)) = i
      BY <1>1, <2>3
    <3>2. t[i] = b[i - Len(a)]
      BY <1>1, <3>1
    <3> QED
      BY <1>2, <2>1, <3>1, <3>2
  <2> QED
    BY <2>2, <2>3
<1>4. ASSUME NEW x \in Members(a) PROVE x \in Members(t)
  <2>1. PICK i \in 1 .. Len(a) : x = a[i]
    BY <1>2
  <2>2. i \in 1 .. Len(t)
    BY <1>1
  <2> QED
    BY <1>1, <1>2, <2>1, <2>2
<1>5. ASSUME NEW x \in Members(b) PROVE x \in Members(t)
  <2>1. PICK i \in 1 .. Len(b) : x = b[i]
    BY <1>2
  <2>2. Len(a) + i \in 1 .. Len(t)
    BY <1>1
  <2> QED
    BY <1>1, <1>2, <2>1, <2>2
<1> QED
  BY <1>3, <1>4, <1>5 DEF t

(* A sort keeps the networks, and what holds between any two of them.      *)
LEMMA RearrangedMembers ==
  ASSUME NEW s \in Seq(BiContiguous), NEW t \in Rearranged(s)
  PROVE  Members(t) = Members(s)
<1> DEFINE X == DOMAIN s
<1>1. \E p \in {q \in [X -> X] : \A j \in X : \E i \in X : q[i] = j} : t = [i \in X |-> s[p[i]]]
  BY Zenon DEF Rearranged
<1> HIDE DEF X
<1>2. PICK p \in [X -> X] : (\A j \in X : \E i \in X : p[i] = j) /\ t = [i \in X |-> s[p[i]]]
  BY <1>1, Zenon
<1>3. DOMAIN t = X /\ \A i \in X : t[i] = s[p[i]] /\ p[i] \in X
  BY <1>2
<1>4. ASSUME NEW x \in Members(t) PROVE x \in Members(s)
  BY <1>3 DEF Members, X
<1>5. ASSUME NEW x \in Members(s) PROVE x \in Members(t)
  <2>1. PICK j \in X : x = s[j]
    BY DEF Members, X
  <2>2. PICK i \in X : p[i] = j
    BY <1>2
  <2> QED
    BY <1>3, <2>1, <2>2 DEF Members
<1> QED
  BY <1>4, <1>5

-----------------------------------------------------------------------------
(* The rows of a level                                                     *)

(* The same low network.                                                   *)
SameLow(a, b) == Low(a.addr) = Low(b.addr) /\ Low(a.mask) = Low(b.mask)

(* Rows of the same low networks.                                          *)
Twins(A, B) ==
  /\ \A a \in A : \E b \in B : SameLow(a, b)
  /\ \A b \in B : \E a \in A : SameLow(a, b)

(* The row of S at one high address.                                       *)
RowIn(S, p, h) == S \cap InRow(HighMask(p), h)

(* No two buddy rows of the level are equal.                               *)
Unmatched(S, p) ==
  \A h \in Word :
    W - p \notin h /\ RowIn(S, p, h) # {} => ~Twins(RowIn(S, p, h), RowIn(S, p, h \cup {W - p}))

(* The first has the lower address in the low half.                        *)
LowBefore == {c \in Couples : Lt(Low(c[1].addr), Low(c[2].addr))}

(* Ascending rows of the same low networks are equal, entry by entry.      *)
LEMMA TwinsAreEqual ==
  ASSUME NEW u \in Seq(BiContiguous), NEW v \in Seq(BiContiguous),
         Chained(u, LowBefore), Chained(v, LowBefore), Twins(Members(u), Members(v))
  PROVE  EqualLowRows(u, v)
<1> DEFINE a == Len(u)
           b == Len(v)
           M == {m \in (1 .. a) \X (1 .. b) : SameLow(u[m[1]], v[m[2]])}
<1>1. a \in Nat /\ b \in Nat /\ DOMAIN u = 1 .. a
  BY LenProperties
<1>2. /\ \A x : x \in Members(u) <=> \E i \in 1 .. a : x = u[i]
      /\ \A x : x \in Members(v) <=> \E i \in 1 .. b : x = v[i]
  BY MembersAre
<1>3. \A i \in 1 .. a : \A j \in 1 .. b : <<i, j>> \in M <=> SameLow(u[i], v[j])
  OBVIOUS
<1>4. ASSUME NEW i \in 1 .. a PROVE \E j \in 1 .. b : SameLow(u[i], v[j])
  <2>1. u[i] \in Members(u)
    BY <1>2
  <2>2. PICK y \in Members(v) : SameLow(u[i], y)
    BY <2>1 DEF Twins
  <2> QED
    BY <1>2, <2>2
<1>5. ASSUME NEW j \in 1 .. b PROVE \E i \in 1 .. a : SameLow(u[i], v[j])
  <2>1. v[j] \in Members(v)
    BY <1>2
  <2>2. PICK y \in Members(u) : SameLow(y, v[j])
    BY <2>1 DEF Twins
  <2> QED
    BY <1>2, <2>2
<1>6. /\ \A h, i \in 1 .. a : h < i => Lt(Low(u[h].addr), Low(u[i].addr))
      /\ \A h, i \in 1 .. b : h < i => Lt(Low(v[h].addr), Low(v[i].addr))
  BY DEF Chained, LowBefore
<1>7. /\ \A i \in 1 .. a : Low(u[i].addr) \in Word
      /\ \A i \in 1 .. b : Low(v[i].addr) \in Word
  BY ElementOfSeq, NetHalves
<1> HIDE DEF a, b
<1>8. ASSUME NEW h \in 1 .. a, NEW i \in 1 .. a, NEW j \in 1 .. b, NEW k \in 1 .. b,
             SameLow(u[h], v[j]), SameLow(u[i], v[k])
      PROVE  h < i <=> j < k
  <2> DEFINE x == Low(u[h].addr)
             y == Low(u[i].addr)
  <2>1. x = Low(v[j].addr) /\ y = Low(v[k].addr)
    BY <1>8 DEF SameLow
  <2>2. x \in Word /\ y \in Word
    BY <1>7
  <2>3. (h < i => Lt(x, y)) /\ (i < h => Lt(y, x)) /\ (h = i => x = y)
    BY <1>6
  <2>4. (j < k => Lt(x, y)) /\ (k < j => Lt(y, x)) /\ (j = k => x = y)
    BY <1>6, <2>1
  <2> HIDE DEF x, y
  <2>5. Lt(x, y) => ~Lt(y, x) /\ x # y
    BY <2>2, LtAsymmetric
  <2>6. Lt(y, x) => ~Lt(x, y) /\ x # y
    BY <2>2, LtAsymmetric
  <2>7. (h < i \/ i < h \/ h = i) /\ (j < k \/ k < j \/ j = k)
    OBVIOUS
  <2>8. ~(h < i /\ i < h) /\ ~(j < k /\ k < j)
    OBVIOUS
  <2> QED
    BY <2>3, <2>4, <2>5, <2>6, <2>7, <2>8
<1>9. M \in SUBSET ((1 .. a) \X (1 .. b))
  OBVIOUS
<1> HIDE DEF M
<1>10. a = b /\ \A i \in 1 .. a : <<i, i>> \in M
  <2>1. \A i \in 1 .. a : \E j \in 1 .. b : <<i, j>> \in M
    BY <1>3, <1>4
  <2>2. \A j \in 1 .. b : \E i \in 1 .. a : <<i, j>> \in M
    BY <1>3, <1>5
  <2>3. \A h, i \in 1 .. a : \A j, k \in 1 .. b :
          <<h, j>> \in M /\ <<i, k>> \in M => (h < i <=> j < k)
    BY <1>3, <1>8
  <2> QED
    BY <1>1, <1>9, <2>1, <2>2, <2>3, MatchedBothWays
<1>11. \A i \in 1 .. a : SameLow(u[i], v[i])
  BY <1>3, <1>10
<1> QED
  BY <1>1, <1>10, <1>11 DEF EqualLowRows, SameLow, a, b

(* A row in order and without containment ascends by its low addresses.    *)
LEMMA RowAscends ==
  ASSUME NEW hm \in Word, NEW ha, NEW row \in Seq(InRow(hm, ha)),
         Chained(row, NotAfter), Chained(row, Separate(Word))
  PROVE  Chained(row, LowBefore)
<1>1. ASSUME NEW x \in InRow(hm, ha), NEW y \in InRow(hm, ha),
             <<x, y>> \in NotAfter, <<x, y>> \in Separate(Word)
      PROVE  <<x, y>> \in LowBefore
  <2>1. /\ x \in BiContiguous /\ y \in BiContiguous
        /\ High(x.mask) = hm /\ High(y.mask) = hm /\ High(x.addr) = High(y.addr)
        /\ x.addr \in Word /\ y.addr \in Word
        /\ x.addr \subseteq x.mask /\ y.addr \subseteq y.mask
    BY ClassFields DEF InRow
  <2>2. ~Lt(Low(y.addr), Low(x.addr)) /\ Low(x.addr) \in Word /\ Low(y.addr) \in Word
    BY <1>1, <2>1, RowOrder, LtLow, NetHalves
  <2>3. ~Contains(x, y) /\ ~Contains(y, x)
    BY <1>1, <2>1 DEF Separate
  <2>4. Low(x.addr) # Low(y.addr)
    <3> SUFFICES ASSUME Low(x.addr) = Low(y.addr) PROVE FALSE
      OBVIOUS
    <3>1. x.addr = y.addr
      BY <2>1, HalvesOf
    <3>2. CASE x.mask \subseteq y.mask
      BY <2>1, <2>3, <3>1, <3>2 DEF Contains
    <3>3. CASE y.mask \subseteq x.mask
      BY <2>1, <2>3, <3>1, <3>3 DEF Contains
    <3> QED
      BY <3>2, <3>3, RowMasks
  <2>5. Lt(Low(x.addr), Low(y.addr))
    BY <2>2, <2>4, LtTotal
  <2> QED
    BY <2>1, <2>5 DEF LowBefore, Couples
<1> SUFFICES ASSUME NEW i \in 1 .. Len(row), NEW j \in 1 .. Len(row), i < j
             PROVE  <<row[i], row[j]>> \in LowBefore
  BY DEF Chained
<1>2. row[i] \in InRow(hm, ha) /\ row[j] \in InRow(hm, ha)
  BY ElementOfSeq
<1>3. <<row[i], row[j]>> \in NotAfter /\ <<row[i], row[j]>> \in Separate(Word)
  BY DEF Chained
<1> QED
  BY <1>1, <1>2, <1>3

(* A level in order, parted after its first row.                           *)
FirstOf(hm, s, ha, lower, rest) ==
  /\ ha \in Word /\ lower # <<>> /\ lower \in Seq(InRow(hm, ha)) /\ lower[1] = s[1]
  /\ Len(lower) = FirstRow(s)
  /\ rest \in Seq(AtLevel(hm)) /\ Len(rest) < Len(s)
  /\ Members(s) = Members(lower) \cup Members(rest)
  /\ Members(lower) \subseteq InRow(hm, ha) /\ Members(rest) \subseteq AtLevel(hm)
  /\ \A n \in Members(rest) : Lt(ha, High(n.addr))
  /\ rest # <<>> => \A n \in Members(rest) : ~Lt(High(n.addr), High(rest[1].addr))

LEMMA FirstRowParts ==
  ASSUME NEW hm, NEW s \in Seq(AtLevel(hm)), s # <<>>, Chained(s, NotAfter)
  PROVE  LET lower == SubSeq(s, 1, FirstRow(s))
             rest == SubSeq(s, FirstRow(s) + 1, Len(s))
         IN  /\ FirstOf(hm, s, High(s[1].addr), lower, rest)
             /\ \A R : Chained(s, R) => Chained(lower, R) /\ Chained(rest, R)
<1> DEFINE l == FirstRow(s)
           ha == High(s[1].addr)
           lower == SubSeq(s, 1, l)
           rest == SubSeq(s, l + 1, Len(s))
           Q == AtLevel(hm)
<1>1. /\ l \in 1 .. Len(s) /\ Len(s) \in Nat
      /\ \A i \in 1 .. l : High(s[i].addr) = ha
      /\ l < Len(s) => High(s[l + 1].addr) # ha
  BY FirstRowIs
<1> HIDE DEF l
<1>2. l \in 0 .. Len(s) /\ 1 \in 1 .. l /\ 1 \in 1 .. Len(s)
  BY <1>1
<1>3. /\ lower \in Seq(Q) /\ Len(lower) = l /\ \A i \in 1 .. l : lower[i] = s[i]
      /\ rest \in Seq(Q) /\ Len(rest) = Len(s) - l
      /\ \A i \in 1 .. (Len(s) - l) : rest[i] = s[l + i]
  <2> HIDE DEF Q
  <2> QED
    BY <1>2, RowAndRest DEF Q
<1>4. \A i \in 1 .. Len(s) : s[i] \in Q /\ s[i] \in BiContiguous /\ High(s[i].addr) \in Word
  <2>1. \A i \in 1 .. Len(s) : s[i] \in Q
    BY ElementOfSeq
  <2>2. Q \subseteq BiContiguous
    BY DEF AtLevel
  <2> HIDE DEF Q
  <2> QED
    BY <2>1, <2>2, NetHalves
<1>5. \A i \in 1 .. l : lower[i] \in InRow(hm, ha)
  <2> SUFFICES ASSUME NEW i \in 1 .. l PROVE s[i] \in InRow(hm, ha)
    BY <1>3
  <2>1. i \in 1 .. Len(s)
    BY <1>1
  <2>2. s[i] \in Q /\ High(s[i].addr) = ha
    BY <1>1, <1>4, <2>1
  <2> QED
    BY <2>2 DEF AtLevel, InRow
<1>6. \A i, j \in 1 .. Len(s) : i < j => ~Lt(High(s[j].addr), High(s[i].addr))
  <2> SUFFICES ASSUME NEW i \in 1 .. Len(s), NEW j \in 1 .. Len(s), i < j
               PROVE  ~Lt(High(s[j].addr), High(s[i].addr))
    OBVIOUS
  <2>1. <<s[i], s[j]>> \in NotAfter /\ s[i] \in Q /\ s[j] \in Q
    BY <1>4 DEF Chained
  <2> QED
    BY <2>1, LevelRows
<1> HIDE DEF lower, rest
<1>7. lower \in Seq(InRow(hm, ha)) /\ lower # <<>> /\ lower[1] = s[1] /\ Len(lower) = FirstRow(s)
  <2>1. lower \in Seq(InRow(hm, ha))
    <3>1. Len(lower) \in Nat /\ \A i \in 1 .. Len(lower) : lower[i] \in InRow(hm, ha)
      BY <1>1, <1>3, <1>5
    <3>2. lower = [i \in 1 .. Len(lower) |-> lower[i]]
      BY <1>3, LenProperties
    <3> DEFINE R == InRow(hm, ha)
    <3> HIDE DEF R
    <3>3. [i \in 1 .. Len(lower) |-> lower[i]] \in Seq(R)
      BY <3>1 DEF R
    <3> QED
      BY <3>2, <3>3 DEF R
  <2>2. Len(lower) # 0
    BY <1>1, <1>3
  <2> QED
    BY <1>2, <1>3, <2>1, <2>2, EmptySeq DEF l
<1>8. /\ \A x : x \in Members(s) <=> \E i \in 1 .. Len(s) : x = s[i]
      /\ \A x : x \in Members(lower) <=> \E i \in 1 .. l : x = s[i]
      /\ \A x : x \in Members(rest) <=> \E i \in 1 .. (Len(s) - l) : x = s[l + i]
  <2>1. \A x : x \in Members(s) <=> \E i \in 1 .. Len(s) : x = s[i]
    BY MembersAre
  <2>2. \A x : x \in Members(lower) <=> \E i \in 1 .. Len(lower) : x = lower[i]
    BY <1>3, MembersAre
  <2>3. \A x : x \in Members(rest) <=> \E i \in 1 .. Len(rest) : x = rest[i]
    BY <1>3, MembersAre
  <2>4. Len(lower) = l /\ Len(rest) = Len(s) - l
    BY <1>3
  <2>5. \A x : x \in Members(lower) <=> \E i \in 1 .. l : x = s[i]
    <3>1. \A x : x \in Members(lower) <=> \E i \in 1 .. l : x = lower[i]
      BY <2>2, <2>4
    <3> QED
      BY <1>3, <3>1
  <2>6. \A x : x \in Members(rest) <=> \E i \in 1 .. (Len(s) - l) : x = s[l + i]
    BY <2>3, <2>4, <1>3
  <2> QED
    BY <2>1, <2>5, <2>6
<1>9. Members(s) = Members(lower) \cup Members(rest)
  <2>1. ASSUME NEW i \in 1 .. Len(s) PROVE i \in 1 .. l \/ (i - l \in 1 .. (Len(s) - l) /\ l + (i - l) = i)
    BY <1>1
  <2>2. (\A i \in 1 .. l : i \in 1 .. Len(s)) /\ \A i \in 1 .. (Len(s) - l) : l + i \in 1 .. Len(s)
    BY <1>1
  <2>3. ASSUME NEW x \in Members(s) PROVE x \in Members(lower) \/ x \in Members(rest)
    <3>1. PICK i \in 1 .. Len(s) : x = s[i]
      BY <1>8
    <3> QED
      BY <1>8, <2>1, <3>1
  <2>4. ASSUME NEW x, x \in Members(lower) \/ x \in Members(rest) PROVE x \in Members(s)
    BY <1>8, <2>2, <2>4
  <2> QED
    BY <2>3, <2>4
<1>10. Members(lower) \subseteq InRow(hm, ha) /\ Members(rest) \subseteq Q
  BY <1>3, <1>7, MembersAre
<1>11. ASSUME NEW i \in 1 .. (Len(s) - l)
       PROVE  /\ l + i \in 1 .. Len(s) /\ l + 1 \in 1 .. Len(s)
              /\ ~Lt(High(s[l + i].addr), High(s[l + 1].addr))
              /\ Lt(ha, High(s[l + i].addr))
  <2>1. l + i \in 1 .. Len(s) /\ l + 1 \in 1 .. Len(s) /\ l < Len(s) /\ 1 < l + 1 /\ (i = 1 \/ l + 1 < l + i)
    BY <1>1
  <2> DEFINE b == High(s[l + 1].addr)
             c == High(s[l + i].addr)
  <2>2. b \in Word /\ c \in Word /\ ha \in Word
    BY <1>2, <1>4, <2>1
  <2>3. ~Lt(b, ha) /\ b # ha
    BY <1>1, <1>2, <1>6, <2>1
  <2>4. ~Lt(c, b)
    <3>1. CASE i = 1
      <4>1. c = b
        BY <3>1
      <4> HIDE DEF b, c
      <4> QED
        BY <2>2, <4>1, LtAsymmetric
    <3>2. CASE l + 1 < l + i
      BY <1>6, <2>1, <3>2
    <3> QED
      BY <2>1, <3>1, <3>2
  <2> HIDE DEF b, c, ha
  <2>5. Lt(ha, b)
    BY <2>2, <2>3, LtTotal
  <2>6. b = c \/ Lt(b, c)
    BY <2>2, <2>4, LtTotal
  <2>7. Lt(ha, c)
    BY <2>2, <2>5, <2>6, LtTransitive
  <2> QED
    BY <2>1, <2>4, <2>7 DEF b, c
<1>12. \A n \in Members(rest) : Lt(ha, High(n.addr))
  BY <1>8, <1>11
<1>13. ASSUME rest # <<>> PROVE \A n \in Members(rest) : ~Lt(High(n.addr), High(rest[1].addr))
  BY <1>3, <1>13, EmptySeq, <1>1, <1>8, <1>11
<1>14. ASSUME NEW R, Chained(s, R) PROVE Chained(lower, R) /\ Chained(rest, R)
  <2>1. \A i, j \in 1 .. Len(s) : i < j => <<s[i], s[j]>> \in R
    BY <1>14 DEF Chained
  <2>2. ASSUME NEW i \in 1 .. Len(lower), NEW j \in 1 .. Len(lower), i < j
        PROVE  <<lower[i], lower[j]>> \in R
    BY <1>1, <1>3, <2>1, <2>2
  <2>3. ASSUME NEW i \in 1 .. Len(rest), NEW j \in 1 .. Len(rest), i < j
        PROVE  <<rest[i], rest[j]>> \in R
    <3>1. l + i \in 1 .. Len(s) /\ l + j \in 1 .. Len(s) /\ l + i < l + j
      BY <1>1, <1>3, <2>3
    <3> QED
      BY <1>3, <2>1, <3>1
  <2> QED
    BY <2>2, <2>3 DEF Chained
<1>15. ha \in Word /\ Len(rest) < Len(s)
  BY <1>1, <1>2, <1>3, <1>4
<1>16. FirstOf(hm, s, ha, lower, rest)
  BY <1>3, <1>7, <1>9, <1>10, <1>12, <1>13, <1>15, Zenon DEF FirstOf, Q
<1> QED
  BY <1>14, <1>16 DEF lower, rest, l, ha

(* The rows of a level, after its first.                                   *)
LEMMA RowsOfLevel ==
  ASSUME NEW p \in 1 .. HighW, NEW s, NEW ha, NEW lower, NEW rest,
         FirstOf(HighMask(p), s, ha, lower, rest)
  PROVE  /\ RowIn(Members(s), p, ha) = Members(lower) /\ Members(lower) # {}
         /\ RowIn(Members(rest), p, ha) = {}
         /\ \A h : h # ha => RowIn(Members(s), p, h) = RowIn(Members(rest), p, h)
<1> DEFINE m == HighMask(p)
           A == Members(lower)
           B == Members(rest)
<1>1. /\ ha \in Word /\ Members(s) = A \cup B /\ A \subseteq InRow(m, ha)
      /\ \A n \in B : Lt(ha, High(n.addr))
      /\ lower # <<>> /\ lower \in Seq(InRow(m, ha))
  BY DEF FirstOf
<1>2. A # {}
  <2>1. lower[1] \in A
    BY <1>1, MembersAre
  <2> QED
    BY <2>1
<1> HIDE DEF A, B, m
<1>3. \A n \in B : n \notin InRow(m, ha)
  <2> SUFFICES ASSUME NEW n \in B, n \in InRow(m, ha) PROVE FALSE
    OBVIOUS
  <2>1. High(n.addr) = ha /\ Lt(ha, High(n.addr))
    BY <1>1 DEF InRow
  <2> QED
    BY <1>1, <2>1, LtAsymmetric
<1>4. \A h : h # ha => \A n \in A : n \notin InRow(m, h)
  BY <1>1 DEF InRow
<1>5. (A \cup B) \cap InRow(m, ha) = A /\ B \cap InRow(m, ha) = {}
  BY <1>1, <1>3
<1>6. \A h : h # ha => (A \cup B) \cap InRow(m, h) = B \cap InRow(m, h)
  <2> SUFFICES ASSUME NEW h, h # ha PROVE (A \cup B) \cap InRow(m, h) = B \cap InRow(m, h)
    OBVIOUS
  <2>1. \A n \in A : n \notin InRow(m, h)
    BY <1>4
  <2> QED
    BY <2>1
<1>7. Members(s) = A \cup B
  BY <1>1
<1> QED
  BY <1>2, <1>5, <1>6, <1>7, Zenon DEF RowIn, A, B, m

(* No high address lies between those of two buddy rows.                   *)
LEMMA NothingBetween ==
  ASSUME NEW p \in 1 .. HighW, NEW a \in Word, NEW z \in Word,
         a \subseteq HighMask(p), z \subseteq HighMask(p), W - p \notin a,
         Lt(a, z), ~Lt(a \cup {W - p}, z)
  PROVE  z = a \cup {W - p}
<1> DEFINE b == W - p
           c == a \cup {b}
<1>1. /\ b \in Bits /\ b \in Int /\ c \in Word
      /\ \A i \in a : i \in Int /\ b <= i /\ i # b
      /\ \A i \in z : i \in Int /\ b <= i
  <2>1. b \in Bits /\ b \in Int /\ \A i \in HighMask(p) : i \in Int /\ b <= i
    <3>1. b \in Bits /\ b \in Int
      BY LevelFields
    <3>2. \A i \in HighMask(p) : i \in Bits /\ i >= b
      BY DEF HighMask
    <3>3. \A i \in Bits : i \in Int
      BY DEF Bits
    <3> HIDE DEF b
    <3> QED
      BY <3>1, <3>2, <3>3
  <2>2. c \in Word
    BY <2>1 DEF Word
  <2> QED
    BY <2>1, <2>2
<1>2. b \notin a /\ Lt(a, z) /\ ~Lt(c, z)
  OBVIOUS
<1> HIDE DEF b
<1> SUFFICES ASSUME z # c PROVE FALSE
  BY DEF b
<1>3. PICK i \in z \ a : \A j \in a \ z : j < i
  BY <1>2 DEF Lt
<1>4. Lt(z, c)
  BY <1>1, <1>2, LtTotal
<1>5. PICK k \in c \ z : \A j \in z \ c : j < k
  BY <1>4 DEF Lt
<1>6. CASE i = b
  <2>1. k \in a \ z
    BY <1>3, <1>5, <1>6
  <2>2. k < b
    BY <1>3, <1>6, <2>1
  <2> QED
    BY <1>1, <2>1, <2>2
<1>7. CASE i # b
  <2>1. i \in z \ c
    BY <1>3, <1>7
  <2>2. i < k /\ b <= i /\ i \in Int
    BY <1>1, <1>5, <2>1
  <2>3. k \in a \ z
    <3>1. k # b
      BY <1>1, <2>2
    <3> QED
      BY <1>5, <3>1
  <2>4. k < i /\ k \in Int
    BY <1>1, <1>3, <2>3
  <2> QED
    BY <2>2, <2>4
<1> QED
  BY <1>6, <1>7

(* The first row of a level and the one after it are merged just when they *)
(* are buddies and equal.                                                  *)
LEMMA BuddyFollowsIs ==
  ASSUME NEW p \in 1 .. HighW, NEW s \in Seq(AtLevel(HighMask(p))), s # <<>>,
         Chained(s, NotAfter), Chained(s, Separate(Word)), NEW ha, ha = High(s[1].addr)
  PROVE  BuddyFollows(s, p) <=>
           /\ W - p \notin ha
           /\ Twins(RowIn(Members(s), p, ha), RowIn(Members(s), p, ha \cup {W - p}))
<1> DEFINE m == HighMask(p)
           b == W - p
           lower == SubSeq(s, 1, FirstRow(s))
           rest == SubSeq(s, FirstRow(s) + 1, Len(s))
           next == SubSeq(rest, 1, FirstRow(rest))
           more == SubSeq(rest, FirstRow(rest) + 1, Len(rest))
           z == High(rest[1].addr)
           A == RowIn(Members(s), p, ha)
           B == RowIn(Members(s), p, ha \cup {b})
<1>0. b \in Bits /\ b \in Int /\ b >= LowW /\ m \in Word
  BY LevelFields
<1>1. BuddyFollows(s, p) <=>
        /\ rest # <<>> /\ b \notin lower[1].addr
        /\ High(rest[1].addr) = High(lower[1].addr) \cup {b}
        /\ EqualLowRows(lower, next)
  BY Zenon DEF BuddyFollows
<1>2. /\ FirstOf(m, s, ha, lower, rest)
      /\ Chained(lower, NotAfter) /\ Chained(rest, NotAfter)
      /\ Chained(lower, Separate(Word)) /\ Chained(rest, Separate(Word))
  BY FirstRowParts
<1> HIDE DEF lower, rest, m
<1>3. /\ ha \in Word /\ lower # <<>> /\ lower \in Seq(InRow(m, ha)) /\ lower[1] = s[1]
      /\ rest \in Seq(AtLevel(m)) /\ Members(rest) \subseteq AtLevel(m)
      /\ \A n \in Members(rest) : Lt(ha, High(n.addr))
      /\ rest # <<>> => \A n \in Members(rest) : ~Lt(High(n.addr), High(rest[1].addr))
  BY <1>2 DEF FirstOf
<1>4. A = Members(lower) /\ (ha \cup {b} # ha => B = RowIn(Members(rest), p, ha \cup {b}))
  BY <1>2, RowsOfLevel DEF m
<1>5. lower[1] \in A /\ lower[1] \in BiContiguous /\ High(lower[1].addr) = ha
  <2>1. lower[1] \in Members(lower) /\ Members(lower) \subseteq InRow(m, ha)
    BY <1>3, MembersAre
  <2> QED
    BY <1>4, <2>1 DEF InRow
<1>6. b \in lower[1].addr <=> b \in ha
  BY <1>0, <1>5 DEF High
<1>7. ASSUME rest # <<>>
      PROVE  /\ next \in Seq(InRow(m, z)) /\ RowIn(Members(rest), p, z) = Members(next)
             /\ Chained(next, NotAfter) /\ Chained(next, Separate(Word))
             /\ rest[1] \in Members(rest)
  <2>1. FirstOf(m, rest, z, next, more) /\ Chained(next, NotAfter) /\ Chained(next, Separate(Word))
    BY <1>2, <1>3, <1>7, FirstRowParts
  <2>2. next \in Seq(InRow(m, z))
    BY <2>1 DEF FirstOf
  <2>3. RowIn(Members(rest), p, z) = Members(next)
    <3> HIDE DEF z, next, more
    <3> QED
      BY <2>1, RowsOfLevel DEF m
  <2>4. rest[1] \in Members(rest)
    BY <1>3, <1>7, MembersAre
  <2> QED
    BY <2>1, <2>2, <2>3, <2>4
<1>8. InRow(m, ha) \subseteq BiContiguous /\ InRow(m, z) \subseteq BiContiguous
  BY DEF InRow
<1> HIDE DEF A, B, b, next, z
<1>9. ASSUME BuddyFollows(s, p) PROVE b \notin ha /\ Twins(A, B)
  <2>1. rest # <<>> /\ b \notin ha /\ z = ha \cup {b} /\ EqualLowRows(lower, next)
    BY <1>1, <1>5, <1>6, <1>9 DEF z
  <2>2. B = Members(next)
    BY <1>4, <1>7, <2>1
  <2>3. Len(lower) = Len(next) /\ \A i \in 1 .. Len(lower) : SameLow(lower[i], next[i])
    <3>1. DOMAIN lower = 1 .. Len(lower)
      BY <1>3, LenProperties
    <3> QED
      BY <2>1, <3>1 DEF EqualLowRows, SameLow
  <2>4. /\ \A x : x \in A <=> \E i \in 1 .. Len(lower) : x = lower[i]
        /\ \A x : x \in B <=> \E i \in 1 .. Len(lower) : x = next[i]
    BY <1>3, MembersAre, <1>7, <2>1, <2>3, <1>4, <2>2
  <2>5. Twins(A, B)
    BY <2>3, <2>4 DEF Twins
  <2> QED
    BY <2>1, <2>5
<1>10. ASSUME b \notin ha, Twins(A, B) PROVE BuddyFollows(s, p)
  <2>1. B = RowIn(Members(rest), p, ha \cup {b})
    BY <1>4, <1>10
  <2>2. PICK n \in B : TRUE
    BY <1>5, <1>10 DEF Twins
  <2>3. n \in Members(rest) /\ High(n.addr) = ha \cup {b}
    BY <2>1, <2>2 DEF RowIn, InRow
  <2>4. rest # <<>>
    <3>1. \A x : x \in Members(rest) <=> \E i \in 1 .. Len(rest) : x = rest[i]
      BY <1>3, MembersAre
    <3>2. PICK i \in 1 .. Len(rest) : n = rest[i]
      BY <2>3, <3>1
    <3>3. Len(rest) # 0
      BY <3>2
    <3> QED
      BY <1>3, <3>3, EmptySeq
  <2>5. z = ha \cup {b}
    <3>1. rest[1] \in AtLevel(m) /\ s[1] \in AtLevel(m)
      <4>1. rest[1] \in Members(rest)
        BY <1>7, <2>4
      <4>2. lower[1] \in AtLevel(m)
        <5>1. lower[1] \in InRow(m, ha)
          BY <1>3, <1>4, <1>5, MembersAre
        <5> QED
          BY <5>1 DEF InRow, AtLevel
      <4> QED
        BY <1>3, <4>1, <4>2
    <3>2. \A x \in AtLevel(m) : High(x.addr) \subseteq m /\ High(x.addr) \in Word
      <4> SUFFICES ASSUME NEW x \in AtLevel(m) PROVE High(x.addr) \subseteq m /\ High(x.addr) \in Word
        OBVIOUS
      <4>1. x \in BiContiguous /\ High(x.mask) = m
        BY DEF AtLevel
      <4>2. x.addr \subseteq x.mask
        BY <4>1, ClassFields
      <4> QED
        BY <4>1, <4>2, NetHalves DEF High
    <3>3. z \in Word /\ z \subseteq m /\ ha \subseteq m
      BY <3>1, <3>2 DEF z
    <3>4. Lt(ha, z) /\ ~Lt(ha \cup {b}, z)
      <4>1. rest[1] \in Members(rest)
        BY <1>7, <2>4
      <4> QED
        BY <1>3, <2>3, <2>4, <4>1 DEF z
    <3> QED
      BY <1>3, <1>10, <3>3, <3>4, NothingBetween DEF m, b
  <2>6. B = Members(next)
    BY <1>7, <2>1, <2>4, <2>5
  <2>7. Chained(lower, LowBefore)
    BY <1>0, <1>2, <1>3, RowAscends
  <2>8. Chained(next, LowBefore)
    BY <1>0, <1>7, <2>4, RowAscends
  <2>9. lower \in Seq(BiContiguous) /\ next \in Seq(BiContiguous)
    BY <1>3, <1>7, <1>8, <2>4, SeqMonotonic
  <2>10. EqualLowRows(lower, next)
    BY <1>4, <1>10, <2>6, <2>7, <2>8, <2>9, TwinsAreEqual
  <2> QED
    BY <1>1, <1>5, <1>6, <1>10, <2>4, <2>5, <2>10 DEF z
<1>11. BuddyFollows(s, p) <=> b \notin ha /\ Twins(A, B)
  BY <1>9, <1>10
<1> QED
  BY <1>11 DEF A, B, b

-----------------------------------------------------------------------------
(* The merge of buddy rows leaves none to merge                            *)

(* Every row of T is one of S, whole.                                      *)
WholeRows(T, S, p) == \A h : RowIn(T, p, h) = {} \/ RowIn(T, p, h) = RowIn(S, p, h)

(* A first row that stays, before what the merge makes of the others.      *)
LEMMA RowStays ==
  ASSUME NEW p \in 1 .. HighW, NEW S, NEW L, NEW R, NEW G, NEW ha \in Word,
         RowIn(S, p, ha) = L, L # {}, RowIn(R, p, ha) = {},
         \A h : h # ha => RowIn(S, p, h) = RowIn(R, p, h),
         \A n \in R : Lt(ha, High(n.addr)),
         WholeRows(G, R, p), Unmatched(G, p),
         W - p \notin ha => ~Twins(L, RowIn(S, p, ha \cup {W - p}))
  PROVE  WholeRows(L \cup G, S, p) /\ Unmatched(L \cup G, p)
<1> DEFINE T == L \cup G
           b == W - p
<1>0. b \in Bits
  BY LevelFields
<1>1. RowIn(G, p, ha) = {}
  BY DEF WholeRows
<1>2. L \subseteq InRow(HighMask(p), ha)
  BY DEF RowIn
<1>3. RowIn(T, p, ha) = L
  BY <1>1, <1>2 DEF RowIn
<1>4. ASSUME NEW h, h # ha PROVE RowIn(T, p, h) = RowIn(G, p, h)
  <2>1. \A n \in L : n \notin InRow(HighMask(p), h)
    BY <1>2, <1>4 DEF InRow
  <2> QED
    BY <2>1 DEF RowIn
<1> HIDE DEF T, b
<1>5. ASSUME NEW h PROVE RowIn(T, p, h) = {} \/ RowIn(T, p, h) = RowIn(S, p, h)
  <2>1. CASE h = ha
    BY <1>3, <2>1
  <2>2. CASE h # ha
    <3>1. RowIn(T, p, h) = RowIn(G, p, h) /\ RowIn(S, p, h) = RowIn(R, p, h)
      BY <1>4, <2>2
    <3> QED
      BY <3>1 DEF WholeRows
  <2> QED
    BY <2>1, <2>2
<1>6. ASSUME NEW h \in Word, b \notin h, RowIn(T, p, h) # {}
      PROVE  ~Twins(RowIn(T, p, h), RowIn(T, p, h \cup {b}))
  <2> DEFINE k == h \cup {b}
  <2>0. k # h
    BY <1>6
  <2>1. CASE h = ha
    <3>1. RowIn(T, p, k) = {} \/ RowIn(T, p, k) = RowIn(S, p, k)
      BY <1>5
    <3>2. ~Twins(L, RowIn(S, p, k))
      BY <1>6, <2>1 DEF b
    <3>3. ~Twins(L, {})
      BY DEF Twins
    <3> HIDE DEF k
    <3>4. ~Twins(RowIn(T, p, h), RowIn(T, p, k))
      BY <1>3, <2>1, <3>1, <3>2, <3>3, Zenon
    <3> QED
      BY <3>4 DEF k
  <2>2. CASE h # ha /\ k # ha
    <3>1. RowIn(T, p, h) = RowIn(G, p, h)
      BY <1>4, <2>2
    <3>2. RowIn(T, p, k) = RowIn(G, p, k)
      BY <1>4, <2>2
    <3>3. RowIn(G, p, h) # {} => ~Twins(RowIn(G, p, h), RowIn(G, p, k))
      BY <1>6 DEF Unmatched, b
    <3> HIDE DEF k
    <3>4. ~Twins(RowIn(T, p, h), RowIn(T, p, k))
      BY <1>6, <3>1, <3>2, <3>3, Zenon
    <3> QED
      BY <3>4 DEF k
  <2>3. CASE k = ha
    <3>1. RowIn(T, p, h) = RowIn(G, p, h)
      BY <1>4, <2>0, <2>3
    <3>2. RowIn(G, p, h) = RowIn(R, p, h)
      BY <1>6, <3>1 DEF WholeRows
    <3>3. RowIn(R, p, h) # {}
      BY <1>6, <3>1, <3>2
    <3>4. PICK n \in RowIn(R, p, h) : TRUE
      BY <3>3
    <3>5. Lt(k, h)
      BY <2>3, <3>4 DEF RowIn, InRow
    <3>6. ~Lt(k, h)
      BY DEF Lt
    <3> QED
      BY <3>5, <3>6
  <2> QED
    BY <2>1, <2>2, <2>3
<1>7. WholeRows(T, S, p) /\ Unmatched(T, p)
  BY <1>5, <1>6 DEF WholeRows, Unmatched, b
<1> QED
  BY <1>7 DEF T

(* Without the first row the others remain unmatched.                      *)
LEMMA RestUnmatched ==
  ASSUME NEW p, NEW S, NEW R, NEW ha, RowIn(R, p, ha) = {},
         \A h : h # ha => RowIn(S, p, h) = RowIn(R, p, h),
         Unmatched(S, p)
  PROVE  Unmatched(R, p)
<1> DEFINE b == W - p
<1> HIDE DEF b
<1>1. ASSUME NEW h \in Word, b \notin h, RowIn(R, p, h) # {}
      PROVE  ~Twins(RowIn(R, p, h), RowIn(R, p, h \cup {b}))
  <2> DEFINE k == h \cup {b}
  <2>1. h # ha
    BY <1>1
  <2>2. RowIn(S, p, h) = RowIn(R, p, h)
    BY <2>1
  <2>3. RowIn(S, p, h) # {} => ~Twins(RowIn(S, p, h), RowIn(S, p, k))
    BY <1>1 DEF Unmatched, b
  <2> HIDE DEF k
  <2>4. CASE k = ha
    BY <1>1, <2>4 DEF Twins, k
  <2>5. CASE k # ha
    BY <2>5, <1>1, <2>2, <2>3 DEF k
  <2> QED
    BY <2>4, <2>5
<1> QED
  BY <1>1 DEF Unmatched, b

(* What is not of the level changes no row of it.                          *)
LEMMA OtherLevels ==
  ASSUME NEW p, NEW X, NEW G, NEW T,
         \A n : n \in T <=> n \in X \/ n \in G, \A n \in X : High(n.mask) # HighMask(p)
  PROVE  /\ \A h : RowIn(T, p, h) = RowIn(G, p, h)
         /\ Unmatched(G, p) => Unmatched(T, p)
<1>1. ASSUME NEW h PROVE RowIn(T, p, h) = RowIn(G, p, h)
  <2>1. \A n \in X : n \notin InRow(HighMask(p), h)
    BY DEF InRow
  <2> QED
    BY <2>1 DEF RowIn
<1>2. ASSUME Unmatched(G, p) PROVE Unmatched(T, p)
  <2> SUFFICES ASSUME NEW h \in Word, W - p \notin h, RowIn(T, p, h) # {}
               PROVE  ~Twins(RowIn(T, p, h), RowIn(T, p, h \cup {W - p}))
    BY DEF Unmatched
  <2>1. RowIn(T, p, h) = RowIn(G, p, h)
    BY <1>1
  <2>2. RowIn(T, p, h \cup {W - p}) = RowIn(G, p, h \cup {W - p})
    BY <1>1
  <2>3. RowIn(G, p, h) # {} => ~Twins(RowIn(G, p, h), RowIn(G, p, h \cup {W - p}))
    BY <1>2 DEF Unmatched
  <2> QED
    BY <2>1, <2>2, <2>3, Zenon
<1> QED
  BY <1>1, <1>2

(* An unmatched level depends on its networks alone.                       *)
LEMMA SameLevel ==
  ASSUME NEW p, NEW S \in SUBSET BiContiguous, NEW T \in SUBSET BiContiguous,
         \A n \in AtLevel(HighMask(p)) : n \in S <=> n \in T, Unmatched(S, p)
  PROVE  Unmatched(T, p)
<1>1. ASSUME NEW h PROVE RowIn(T, p, h) = RowIn(S, p, h)
  BY DEF InRow, AtLevel, RowIn
<1> SUFFICES ASSUME NEW h \in Word, W - p \notin h, RowIn(T, p, h) # {}
             PROVE  ~Twins(RowIn(T, p, h), RowIn(T, p, h \cup {W - p}))
  BY DEF Unmatched
<1>2. RowIn(T, p, h) = RowIn(S, p, h)
  BY <1>1
<1>3. RowIn(T, p, h \cup {W - p}) = RowIn(S, p, h \cup {W - p})
  BY <1>1
<1>4. RowIn(S, p, h) # {} => ~Twins(RowIn(S, p, h), RowIn(S, p, h \cup {W - p}))
  BY DEF Unmatched
<1> QED
  BY <1>2, <1>3, <1>4, Zenon

(* What follows two buddy rows of a level is whole rows of it.             *)
LEMMA AfterBuddies ==
  ASSUME NEW p \in 1 .. HighW, NEW s \in Seq(AtLevel(HighMask(p))), s # <<>>,
         Chained(s, NotAfter), BuddyFollows(s, p)
  PROVE  WholeRows(Members(After(s, p)), Members(s), p)
<1> DEFINE m == HighMask(p)
           l == FirstRow(s)
           lower == SubSeq(s, 1, l)
           rest == SubSeq(s, l + 1, Len(s))
           k == FirstRow(rest)
           next == SubSeq(rest, 1, k)
           more == SubSeq(rest, k + 1, Len(rest))
           last == SubSeq(s, 2 * l + 1, Len(s))
           ha == High(s[1].addr)
           z == High(rest[1].addr)
<1>1. rest # <<>> /\ Len(lower) = Len(next) /\ After(s, p) = last
  BY Zenon DEF BuddyFollows, EqualLowRows, After
<1>2. FirstOf(m, s, ha, lower, rest) /\ Chained(rest, NotAfter)
  BY FirstRowParts
<1>3. l \in 1 .. Len(s) /\ 2 * l \in 1 .. Len(s) /\ Len(s) \in Nat
  BY BuddyIs
<1>4. rest \in Seq(AtLevel(m)) /\ Len(lower) = l
  BY <1>2 DEF FirstOf
<1>5. FirstOf(m, rest, z, next, more)
  <2> HIDE DEF rest
  <2> QED
    BY <1>1, <1>2, <1>4, FirstRowParts
<1>6. k = l
  BY <1>1, <1>4, <1>5 DEF FirstOf
<1>7. last = more
  <2> HIDE DEF l, k, m
  <2>1. l \in 0 .. Len(s) /\ 2 * l \in 0 .. Len(s)
    BY <1>3
  <2>2. /\ rest \in Seq(AtLevel(m)) /\ Len(rest) = Len(s) - l
        /\ \A i \in 1 .. (Len(s) - l) : rest[i] = s[l + i]
    BY <2>1, RowAndRest DEF m
  <2> DEFINE q == 2 * l
  <2>3. /\ SubSeq(s, q + 1, Len(s)) \in Seq(AtLevel(m)) /\ Len(SubSeq(s, q + 1, Len(s))) = Len(s) - q
        /\ \A i \in 1 .. (Len(s) - q) : SubSeq(s, q + 1, Len(s))[i] = s[q + i]
    <3>1. q \in 0 .. Len(s)
      BY <2>1
    <3> HIDE DEF q
    <3> QED
      BY <3>1, RowAndRest DEF m
  <2> HIDE DEF rest
  <2>4. /\ more \in Seq(AtLevel(m)) /\ Len(more) = Len(rest) - l
        /\ \A i \in 1 .. (Len(rest) - l) : more[i] = rest[l + i]
    <3>1. l \in 0 .. Len(rest)
      BY <1>3, <2>2
    <3> QED
      BY <1>6, <2>2, <3>1, RowAndRest
  <2> HIDE DEF last, more
  <2>5. ASSUME NEW i \in 1 .. (Len(rest) - l) PROVE l + i \in 1 .. (Len(s) - l) /\ l + (l + i) = q + i
    <3>1. Len(rest) = Len(s) - l /\ l \in 1 .. Len(s) /\ Len(s) \in Nat
      BY <1>3, <2>2
    <3>2. l + i \in 1 .. (Len(s) - l)
      BY <3>1
    <3>3. i \in Int /\ l \in Int
      BY <3>1
    <3>4. l + (l + i) = 2 * l + i
      BY ONLY <3>3
    <3>5. l + (l + i) = q + i
      BY <3>4
    <3> HIDE DEF q
    <3> QED
      BY <3>2, <3>5
  <2>6. last \in Seq(AtLevel(m)) /\ Len(last) = Len(more) /\ Len(more) = Len(rest) - l
    <3>1. last \in Seq(AtLevel(m)) /\ Len(last) = Len(s) - q
      BY <2>3 DEF last
    <3>2. Len(more) = Len(rest) - l /\ Len(rest) = Len(s) - l
      BY <2>2, <2>4
    <3>3. Len(s) - q = (Len(s) - l) - l
      BY <1>3
    <3> HIDE DEF q
    <3> QED
      BY <3>1, <3>2, <3>3, Zenon
  <2>7. \A i \in 1 .. Len(last) : last[i] = more[i]
    <3> SUFFICES ASSUME NEW i \in 1 .. Len(last) PROVE last[i] = more[i]
      OBVIOUS
    <3>1. i \in 1 .. (Len(rest) - l) /\ i \in 1 .. (Len(s) - q)
      BY <1>3, <2>2, <2>6
    <3>2. last[i] = s[q + i]
      BY <2>3, <3>1 DEF last
    <3>3. more[i] = s[l + (l + i)]
      BY <2>2, <2>4, <2>5, <3>1
    <3> QED
      BY <2>5, <3>1, <3>2, <3>3
  <2> DEFINE Q == AtLevel(m)
  <2> HIDE DEF Q
  <2>8. last \in Seq(Q) /\ more \in Seq(Q)
    BY <2>4, <2>6 DEF Q
  <2> QED
    BY <2>6, <2>7, <2>8, SeqEqual
<1> HIDE DEF lower, rest, next, more, last, ha, z
<1>8. /\ RowIn(Members(rest), p, ha) = {}
      /\ \A h : h # ha => RowIn(Members(s), p, h) = RowIn(Members(rest), p, h)
  BY <1>2, RowsOfLevel
<1>9. /\ RowIn(Members(more), p, z) = {}
      /\ \A h : h # z => RowIn(Members(rest), p, h) = RowIn(Members(more), p, h)
  BY <1>5, RowsOfLevel
<1>10. WholeRows(Members(more), Members(s), p)
  BY <1>8, <1>9 DEF WholeRows
<1> QED
  BY <1>1, <1>7, <1>10, Zenon

(* A sequence is its parts, put together.                                  *)
LEMMA SplitIs ==
  ASSUME NEW S, NEW s \in Seq(S), NEW k \in 0 .. Len(s)
  PROVE  SubSeq(s, 1, k) \o SubSeq(s, k + 1, Len(s)) = s
<1> DEFINE a == SubSeq(s, 1, k)
           b == SubSeq(s, k + 1, Len(s))
           c == a \o b
<1>1. /\ a \in Seq(S) /\ Len(a) = k /\ \A i \in 1 .. k : a[i] = s[i]
      /\ b \in Seq(S) /\ Len(b) = Len(s) - k /\ \A i \in 1 .. (Len(s) - k) : b[i] = s[k + i]
  BY RowAndRest
<1>2. Len(s) \in Nat /\ k \in Nat
  BY LenProperties
<1> HIDE DEF a, b
<1>3. /\ c \in Seq(S) /\ Len(c) = Len(a) + Len(b)
      /\ \A i \in 1 .. Len(a) : c[i] = a[i]
      /\ \A i \in 1 .. Len(b) : c[Len(a) + i] = b[i]
  BY <1>1, BothAre
<1> HIDE DEF c
<1>4. Len(c) = Len(s)
  BY <1>1, <1>2, <1>3
<1>5. ASSUME NEW i \in 1 .. Len(c) PROVE c[i] = s[i]
  <2>1. CASE i <= k
    <3>1. i \in 1 .. k
      BY <1>2, <2>1
    <3> QED
      BY <1>1, <1>3, <3>1
  <2>2. CASE ~(i <= k)
    <3>1. i - k \in 1 .. (Len(s) - k) /\ k + (i - k) = i
      BY <1>2, <1>4, <2>2
    <3>2. c[k + (i - k)] = s[k + (i - k)]
      BY <1>1, <1>3, <3>1
    <3> QED
      BY <3>1, <3>2
  <2> QED
    BY <2>1, <2>2
<1>6. c = s
  BY <1>3, <1>4, <1>5, SeqEqual
<1> QED
  BY <1>6 DEF a, b, c

(* The merge leaves whole rows of the level, no two of them buddies and    *)
(* equal; and where there were no such rows it changes nothing.            *)
LEMMA HighBuddiesUnmatch ==
  ASSUME NEW p \in 1 .. HighW, NEW rows \in Seq(AtLevel(HighMask(p))),
         Chained(rows, NotAfter), Chained(rows, Separate(Word))
  PROVE  /\ Unmatched(Members(MergeHighBuddies(rows, p)), p)
         /\ Unmatched(Members(rows), p) => MergeHighBuddies(rows, p) = rows
<1> DEFINE m == HighMask(p)
           w == HighMask(p - 1)
           Q == AtLevel(m)
           P == Q \cup AtLevel(w)
           D == {s \in Seq(Q) : Chained(s, NotAfter) /\ Chained(s, Separate(Word))}
           size == [s \in D |-> Len(s)]
           Fine(s, t) ==
             /\ WholeRows(Members(t), Members(s), p) /\ Unmatched(Members(t), p)
             /\ Unmatched(Members(s), p) => t = s
<1>0. Q \subseteq BiContiguous /\ m # w
  <2>1. m \in Word /\ w \in Word /\ Lt(w, m)
    BY LevelFields
  <2>2. m # w
    BY <2>1, LtAsymmetric
  <2> HIDE DEF m, w
  <2> QED
    BY <2>1, <2>2 DEF AtLevel
<1>1. PICK f : Merges(p, f) /\ \A r \in Seq(BiContiguous) : MergeHighBuddies(r, p) = f[r]
  BY HighBuddiesUnfold
<1> DEFINE good == {s \in D : Fine(s, f[s])}
<1>2. size \in [D -> Nat]
  BY LenProperties
<1>3. ASSUME NEW s \in D, \A e \in D : size[e] < size[s] => e \in good PROVE s \in good
  <2>0. s \in Seq(Q) /\ Chained(s, NotAfter) /\ Chained(s, Separate(Word))
    OBVIOUS
  <2>1. s \in Seq(BiContiguous)
    <3> HIDE DEF Q
    <3> QED
      BY <1>0, <2>0, SeqMonotonic
  <2>2. f[s] = IF s = <<>> THEN <<>> ELSE RowOf(s, p) \o f[After(s, p)]
    BY <1>1, <2>1 DEF Merges
  <2>3. CASE s = <<>>
    <3>1. f[s] = <<>>
      BY <2>2, <2>3
    <3>2. \A h : RowIn(Members(<<>>), p, h) = {}
      BY DEF RowIn, Members
    <3>3. WholeRows(Members(<<>>), Members(s), p) /\ Unmatched(Members(<<>>), p)
      BY <3>2, Zenon DEF WholeRows, Unmatched
    <3>4. Fine(s, f[s])
      BY <2>3, <3>1, <3>3, Zenon
    <3> QED
      BY <3>4
  <2>4. CASE s # <<>>
    <3> DEFINE a == After(s, p)
               x == RowOf(s, p)
               g == f[a]
               l == FirstRow(s)
               t == x \o g
               lower == SubSeq(s, 1, l)
               rest == SubSeq(s, l + 1, Len(s))
               ha == High(s[1].addr)
    <3>1. l \in 1 .. Len(s) /\ Len(s) \in Nat
      BY <2>0, <2>4, FirstRowIs
    <3>2. PICK q \in l .. Len(s) : \E S :
             /\ a = SubSeq(s, q + 1, Len(s))
             /\ x \in Seq(S) /\ Len(x) = l
             /\ BuddyFollows(s, p) => \A i \in 1 .. l : High(x[i].mask) = w
      BY <2>1, <2>4, RowOfIs
    <3>3. PICK S : /\ a = SubSeq(s, q + 1, Len(s))
                   /\ x \in Seq(S) /\ Len(x) = l
                   /\ BuddyFollows(s, p) => \A i \in 1 .. l : High(x[i].mask) = w
      BY <3>2
    <3>4. f[s] = t
      BY <2>2, <2>4
    <3>5. IF BuddyFollows(s, p) THEN TRUE ELSE x = lower /\ a = rest
      BY Zenon DEF RowOf, After
    <3>6. /\ FirstOf(m, s, ha, lower, rest)
          /\ \A R : Chained(s, R) => Chained(lower, R) /\ Chained(rest, R)
      BY <2>0, <2>4, FirstRowParts
    <3>7. BuddyFollows(s, p) => WholeRows(Members(a), Members(s), p)
      BY <2>0, <2>4, AfterBuddies
    <3>8. BuddyFollows(s, p) <=>
            /\ W - p \notin ha
            /\ Twins(RowIn(Members(s), p, ha), RowIn(Members(s), p, ha \cup {W - p}))
      <4>1. ha = High(s[1].addr)
        OBVIOUS
      <4> HIDE DEF ha
      <4> QED
        BY <2>0, <2>4, <4>1, BuddyFollowsIs
    <3> HIDE DEF l, x, ha
    <3>9. q \in 0 .. Len(s) /\ q \in Nat /\ l <= q
      BY <3>1
    <3>10. a \in Seq(Q) /\ Len(a) = Len(s) - q /\ \A i \in 1 .. (Len(s) - q) : a[i] = s[q + i]
      <4> HIDE DEF Q, a
      <4> QED
        BY <2>0, <3>3, <3>9, RowAndRest
    <3> HIDE DEF a
    <3>11. a \in D
      <4>1. ASSUME NEW R, Chained(s, R) PROVE Chained(a, R)
        <5>1. \A i, j \in 1 .. Len(s) : i < j => <<s[i], s[j]>> \in R
          BY <4>1 DEF Chained
        <5>2. ASSUME NEW i \in 1 .. Len(a), NEW j \in 1 .. Len(a), i < j
              PROVE  <<a[i], a[j]>> \in R
          <6>1. q + i \in 1 .. Len(s) /\ q + j \in 1 .. Len(s) /\ q + i < q + j
            BY <3>1, <3>9, <3>10, <5>2
          <6>2. a[i] = s[q + i] /\ a[j] = s[q + j]
            BY <3>10
          <6> QED
            BY <5>1, <6>1, <6>2
        <5> QED
          BY <5>2 DEF Chained
      <4> QED
        BY <2>0, <3>10, <4>1
    <3>12. a \in good
      <4>1. size[a] < size[s]
        BY <3>1, <3>9, <3>10, <3>11
      <4> HIDE DEF good, size, D
      <4> QED
        BY <1>3, <3>11, <4>1
    <3>13. Fine(a, g)
      BY <3>12
    <3>14. g \in Seq(P)
      <4>1. a \in Seq(BiContiguous)
        <5> HIDE DEF Q
        <5> QED
          BY <1>0, <3>10, SeqMonotonic
      <4>2. MergeHighBuddies(a, p) = g
        BY <1>1, <4>1
      <4>3. \A r \in Seq(AtLevel(HighMask(p))) :
              MergeHighBuddies(r, p) \in Seq(AtLevel(HighMask(p)) \cup AtLevel(HighMask(p - 1)))
        BY HighBuddiesAre
      <4> QED
        BY <3>10, <4>2, <4>3
    <3> HIDE DEF g, P
    <3>15. Members(t) = Members(x) \cup Members(g)
      <4>1. x \in Seq(S \cup P) /\ g \in Seq(S \cup P)
        <5>1. S \subseteq S \cup P /\ P \subseteq S \cup P
          OBVIOUS
        <5> QED
          BY <3>3, <3>14, <5>1, SeqMonotonic
      <4> QED
        BY <4>1, MembersOfBoth
    <3> DEFINE A == Members(lower)
               B == Members(rest)
               G == Members(g)
               T == Members(s)
    <3>16. /\ RowIn(T, p, ha) = A /\ A # {} /\ RowIn(B, p, ha) = {}
           /\ \A h : h # ha => RowIn(T, p, h) = RowIn(B, p, h)
           /\ ha \in Word /\ \A n \in B : Lt(ha, High(n.addr))
      <4> HIDE DEF lower, rest
      <4>1. ha \in Word /\ \A n \in B : Lt(ha, High(n.addr))
        BY <3>6 DEF FirstOf
      <4> QED
        BY <3>6, <4>1, RowsOfLevel
    <3>17. CASE BuddyFollows(s, p)
      <4>1. \A n \in Members(x) : High(n.mask) # m
        <5>1. \A n : n \in Members(x) <=> \E i \in 1 .. l : n = x[i]
          BY <3>3, MembersAre
        <5> HIDE DEF m, w
        <5> QED
          BY <1>0, <3>3, <3>17, <5>1
      <4>2. WholeRows(Members(a), T, p) /\ WholeRows(G, Members(a), p) /\ Unmatched(G, p)
        BY <3>7, <3>13, <3>17
      <4> HIDE DEF A, B, G, T, m, w
      <4>3. /\ \A h : RowIn(Members(x) \cup G, p, h) = RowIn(G, p, h)
            /\ Unmatched(Members(x) \cup G, p)
        <5> DEFINE X == Members(x)
        <5>1. \A n \in X : High(n.mask) # HighMask(p)
          BY <4>1 DEF m
        <5> HIDE DEF X
        <5>2. (\A h : RowIn(X \cup G, p, h) = RowIn(G, p, h)) /\ Unmatched(X \cup G, p)
          <6>1. Unmatched(G, p)
            BY <4>2
          <6> DEFINE Y == X \cup G
          <6>2. \A n : n \in Y <=> n \in X \/ n \in G
            OBVIOUS
          <6> HIDE DEF Y
          <6>3. (\A h : RowIn(Y, p, h) = RowIn(G, p, h)) /\ Unmatched(Y, p)
            <7>1. /\ \A h : RowIn(Y, p, h) = RowIn(G, p, h)
                  /\ Unmatched(G, p) => Unmatched(Y, p)
              BY ONLY <5>1, <6>2, OtherLevels
            <7> QED
              BY <6>1, <7>1
          <6> QED
            BY <6>3 DEF Y
        <5> QED
          BY <5>2 DEF X
      <4>4. WholeRows(Members(x) \cup G, T, p)
        BY <4>2, <4>3, Zenon DEF WholeRows
      <4>5. ~Unmatched(T, p)
        BY <3>8, <3>16, <3>17 DEF Unmatched, T
      <4>6. Members(t) = Members(x) \cup G
        BY <3>15 DEF G
      <4> HIDE DEF t
      <4>7. WholeRows(Members(t), T, p) /\ Unmatched(Members(t), p)
        BY <4>3, <4>4, <4>6, Zenon
      <4>8. Fine(s, t)
        BY <4>5, <4>7, Zenon DEF T
      <4>9. Fine(s, f[s])
        BY <3>4, <4>8, Zenon
      <4> QED
        BY <4>9
    <3>18. CASE ~BuddyFollows(s, p)
      <4>1. x = lower /\ a = rest
        BY <3>5, <3>18, Zenon
      <4>2. WholeRows(G, B, p) /\ Unmatched(G, p) /\ (Unmatched(B, p) => g = rest)
        BY <3>13, <4>1
      <4>3. lower \o rest = s
        <5>1. l \in 0 .. Len(s)
          BY <3>1
        <5> HIDE DEF Q
        <5> QED
          BY <2>0, <5>1, SplitIs
      <4>4. W - p \notin ha => ~Twins(A, RowIn(T, p, ha \cup {W - p}))
        BY <3>8, <3>16, <3>18
      <4> HIDE DEF lower, rest, A, B, G, T
      <4>5. WholeRows(A \cup G, T, p) /\ Unmatched(A \cup G, p)
        BY <3>16, <4>2, <4>4, RowStays
      <4>6. Members(t) = A \cup G
        BY <3>15, <4>1 DEF A, G
      <4>7. ASSUME Unmatched(T, p) PROVE t = s
        BY <3>16, <4>7, RestUnmatched, <4>2, <4>1, <4>3
      <4> HIDE DEF t
      <4>8. WholeRows(Members(t), T, p) /\ Unmatched(Members(t), p)
        BY <4>5, <4>6, Zenon
      <4>9. Fine(s, t)
        BY <4>7, <4>8, Zenon DEF T
      <4>10. Fine(s, f[s])
        BY <3>4, <4>9, Zenon
      <4> QED
        BY <4>10
    <3> QED
      BY <3>17, <3>18
  <2> QED
    BY <2>3, <2>4
<1>4. \A s \in D : s \in good
  <2> HIDE DEF D, size, good
  <2> QED
    BY <1>2, <1>3, InductOnSize
<1>5. rows \in D
  OBVIOUS
<1>6. rows \in good
  <2> HIDE DEF D, good
  <2> QED
    BY <1>4, <1>5
<1>7. MergeHighBuddies(rows, p) = f[rows]
  <2>1. rows \in Seq(BiContiguous)
    <3>1. rows \in Seq(Q)
      OBVIOUS
    <3> HIDE DEF Q
    <3> QED
      BY <1>0, <3>1, SeqMonotonic
  <2> QED
    BY <1>1, <2>1
<1>8. Fine(rows, f[rows])
  BY <1>6
<1> QED
  BY <1>7, <1>8, Zenon

-----------------------------------------------------------------------------
(* What a step does to the networks of a level                             *)

LEMMA JoinMembers ==
  ASSUME NEW a \in Seq(BiContiguous), NEW b \in Seq(BiContiguous), NEW c \in Seq(BiContiguous)
  PROVE  Members(a \o b \o c) = Members(a) \cup Members(b) \cup Members(c)
<1> DEFINE d == a \o b
<1>1. d \in Seq(BiContiguous)
  BY BothAre
<1>2. Members(d) = Members(a) \cup Members(b)
  BY MembersOfBoth
<1> HIDE DEF d
<1>3. Members(d \o c) = Members(d) \cup Members(c)
  BY <1>1, MembersOfBoth
<1> QED
  BY <1>2, <1>3, Zenon DEF d

(* The level's networks and the others, of a slice parted by a level.      *)
LEMMA PartedMembers ==
  ASSUME NEW s \in Seq(BiContiguous), NEW m \in Word, NEW from, NEW to, Parted(s, from, to, m)
  PROVE  /\ Members(s) = Members(SubSeq(s, 1, from - 1)) \cup Members(SubSeq(s, from, to - 1))
                           \cup Members(SubSeq(s, to, Len(s)))
         /\ \A n \in Members(SubSeq(s, 1, from - 1)) : High(n.mask) # m
         /\ \A n \in Members(SubSeq(s, from, to - 1)) : High(n.mask) = m
         /\ \A n \in Members(SubSeq(s, to, Len(s))) : High(n.mask) # m
<1> DEFINE a == SubSeq(s, 1, from - 1)
           b == SubSeq(s, from, to - 1)
           c == SubSeq(s, to, Len(s))
<1>1. from \in 1 .. (Len(s) + 1) /\ to \in from .. (Len(s) + 1) /\ Len(s) \in Nat
  BY LenProperties DEF Parted
<1>2. /\ a \in Seq(BiContiguous) /\ b \in Seq(BiContiguous) /\ c \in Seq(BiContiguous)
      /\ Len(a) = from - 1 /\ Len(b) = to - from /\ Len(c) = Len(s) + 1 - to
      /\ \A i \in 1 .. (from - 1) : a[i] = s[i]
      /\ \A i \in 1 .. (to - from) : b[i] = s[from - 1 + i]
      /\ \A i \in 1 .. (Len(s) + 1 - to) : c[i] = s[to - 1 + i]
      /\ s = a \o b \o c
  BY <1>1, PiecesAre
<1>3. \A x \in BiContiguous : HighKey[x] = High(x.mask) /\ HighKey[x] \in Word
  BY KeysAre
<1>4. \A i \in 1 .. Len(s) : s[i] \in BiContiguous
  BY ElementOfSeq
<1> HIDE DEF a, b, c
<1>5. Members(s) = Members(a) \cup Members(b) \cup Members(c)
  BY <1>2, JoinMembers
<1>6. ~Lt(m, m)
  BY LtAsymmetric
<1>7. ASSUME NEW n \in Members(a) PROVE High(n.mask) # m
  <2>1. PICK i \in 1 .. (from - 1) : n = a[i]
    BY <1>2, MembersAre
  <2>2. i \in 1 .. Len(s) /\ n = s[i] /\ Lt(HighKey[n], m)
    BY <1>1, <1>2, <2>1 DEF Parted
  <2> QED
    BY <1>3, <1>4, <1>6, <2>2
<1>8. ASSUME NEW n \in Members(b) PROVE High(n.mask) = m
  <2>1. PICK i \in 1 .. (to - from) : n = b[i]
    BY <1>2, MembersAre
  <2>2. from - 1 + i \in from .. (to - 1)
    BY <1>1
  <2>3. n = s[from - 1 + i]
    BY <1>2, <2>1
  <2>4. n \in AtLevel(m)
    BY <2>2, <2>3 DEF Parted
  <2> QED
    BY <2>4 DEF AtLevel
<1>9. ASSUME NEW n \in Members(c) PROVE High(n.mask) # m
  <2>1. PICK i \in 1 .. (Len(s) + 1 - to) : n = c[i]
    BY <1>2, MembersAre
  <2>2. to - 1 + i \in to .. Len(s) /\ to - 1 + i \in 1 .. Len(s)
    BY <1>1
  <2>3. n = s[to - 1 + i]
    BY <1>2, <2>1
  <2>4. Lt(m, HighKey[n])
    BY <2>2, <2>3 DEF Parted
  <2> QED
    BY <1>3, <1>4, <1>6, <2>2, <2>3, <2>4
<1> QED
  BY <1>5, <1>7, <1>8, <1>9 DEF a, b, c

(* The level rewritten, the others stay.                                   *)
LEMMA ReplacedMembers ==
  ASSUME NEW s \in Seq(BiContiguous), NEW m \in Word, NEW from, NEW to, Parted(s, from, to, m),
         NEW t \in Seq(BiContiguous)
  PROVE  \A n : n \in Members(Replaced(s, from, to, t)) <=>
                  n \in Members(t) \/ (n \in Members(s) /\ High(n.mask) # m)
<1> DEFINE a == SubSeq(s, 1, from - 1)
           b == SubSeq(s, from, to - 1)
           c == SubSeq(s, to, Len(s))
           r == a \o t \o c
<1>1. from \in 1 .. (Len(s) + 1) /\ to \in from .. (Len(s) + 1)
  BY DEF Parted
<1>2. a \in Seq(BiContiguous) /\ c \in Seq(BiContiguous)
  BY <1>1, PiecesAre
<1>3. /\ Members(s) = Members(a) \cup Members(b) \cup Members(c)
      /\ \A n \in Members(a) : High(n.mask) # m
      /\ \A n \in Members(b) : High(n.mask) = m
      /\ \A n \in Members(c) : High(n.mask) # m
  BY PartedMembers
<1> HIDE DEF a, b, c
<1>4. Members(r) = Members(a) \cup Members(t) \cup Members(c)
  BY <1>2, JoinMembers
<1> HIDE DEF r
<1>5. \A n : n \in Members(r) <=> n \in Members(t) \/ (n \in Members(s) /\ High(n.mask) # m)
  BY <1>3, <1>4
<1> QED
  BY <1>5, Zenon DEF Replaced, r, a, c

(* Levels are told apart by their masks.                                   *)
LEMMA LevelsDiffer ==
  ASSUME NEW p \in 0 .. HighW, NEW q \in 0 .. HighW, p < q
  PROVE  HighMask(p) # HighMask(q)
<1>1. W - q \in Bits /\ W - q >= W - q /\ ~(W - q >= W - p)
  BY WAssumption, WidthAssumption DEF Bits
<1>2. W - q \in HighMask(q) /\ W - q \notin HighMask(p)
  BY <1>1 DEF HighMask
<1> QED
  BY <1>2

(* A sort of the middle keeps the networks.                                *)
LEMMA MiddleMembers ==
  ASSUME NEW s \in Seq(BiContiguous), NEW from \in 1 .. (Len(s) + 1), NEW to \in from .. (Len(s) + 1),
         NEW t \in SortedByLevel(SubSeq(s, from, to - 1))
  PROVE  Members(SubSeq(s, 1, from - 1) \o t \o SubSeq(s, to, Len(s))) = Members(s)
<1> DEFINE a == SubSeq(s, 1, from - 1)
           b == SubSeq(s, from, to - 1)
           c == SubSeq(s, to, Len(s))
<1>1. a \in Seq(BiContiguous) /\ b \in Seq(BiContiguous) /\ c \in Seq(BiContiguous) /\ s = a \o b \o c
  BY PiecesAre
<1> HIDE DEF a, b, c
<1>2. t \in Rearranged(b)
  BY DEF SortedByLevel, b
<1>3. t \in Seq(BiContiguous) /\ Members(t) = Members(b)
  BY <1>1, <1>2, RearrangedIs, RearrangedMembers
<1>4. Members(a \o b \o c) = Members(a) \cup Members(b) \cup Members(c)
  BY <1>1, JoinMembers
<1>5. Members(a \o t \o c) = Members(a) \cup Members(t) \cup Members(c)
  BY <1>1, <1>3, JoinMembers
<1>6. Members(a \o t \o c) = Members(s)
  BY <1>1, <1>3, <1>4, <1>5, Zenon
<1> QED
  BY <1>6 DEF a, c

(* A lower level rewritten leaves a level as it was.                       *)
LEMMA LowRowsUnmatched ==
  ASSUME NEW s \in Seq(BiContiguous), NEW q \in 0 .. HighW, NEW from, NEW to,
         Parted(s, from, to, HighMask(q)), NEW t \in Seq(AtLevel(HighMask(q))),
         NEW p \in (q + 1) .. HighW, Unmatched(Members(s), p)
  PROVE  Unmatched(Members(Replaced(s, from, to, t)), p)
<1> DEFINE r == Replaced(s, from, to, t)
<1>1. HighMask(q) \in Word /\ p \in 0 .. HighW /\ q < p
  BY LevelMaskIs
<1>2. HighMask(q) # HighMask(p)
  BY <1>1, LevelsDiffer
<1>3. AtLevel(HighMask(q)) \subseteq BiContiguous
  BY DEF AtLevel
<1>4. t \in Seq(BiContiguous) /\ Members(t) \subseteq AtLevel(HighMask(q))
  BY <1>3, SeqMonotonic, MembersAre
<1>5. \A n : n \in Members(r) <=> n \in Members(t) \/ (n \in Members(s) /\ High(n.mask) # HighMask(q))
  BY <1>1, <1>4, ReplacedMembers
<1> HIDE DEF r
<1>6. Members(s) \subseteq BiContiguous /\ Members(t) \subseteq BiContiguous
  BY <1>4, MembersAre
<1>7. Members(r) \in SUBSET BiContiguous /\ Members(s) \in SUBSET BiContiguous
  BY <1>5, <1>6
<1>8. \A n \in AtLevel(HighMask(p)) : n \in Members(s) <=> n \in Members(r)
  BY <1>2, <1>4, <1>5 DEF AtLevel
<1>9. Unmatched(Members(r), p)
  BY <1>7, <1>8, SameLevel
<1> QED
  BY <1>9 DEF r

(* Of a slice in order, the rows of a level are apart.                     *)
LEMMA LevelIsNeat ==
  ASSUME NEW s \in Seq(BiContiguous), NEW m \in Word, Neat(s, From(m)), NEW from, NEW to,
         Parted(s, from, to, m), NEW rows, rows = SubSeq(s, from, to - 1)
  PROVE  /\ rows \in Seq(AtLevel(m)) /\ rows \in Seq(BiContiguous)
         /\ Chained(rows, NotAfter) /\ Chained(rows, Separate(Word))
<1>1. from \in 1 .. (Len(s) + 1) /\ to \in from .. (Len(s) + 1)
  BY DEF Parted
<1>2. rows \in Seq(AtLevel(m)) /\ rows \in Seq(BiContiguous)
  BY <1>1, LevelSlice, PiecesAre
<1>3. Chained(rows, NotAfter) /\ Chained(rows, Separate(From(m)))
  BY <1>1, PiecesChained DEF Neat
<1>4. \A x \in BiContiguous : HighKey[x] = High(x.mask) /\ HighKey[x] \in Word
  BY KeysAre
<1>5. \A i \in 1 .. Len(rows) : HighKey[rows[i]] \in Word => HighKey[rows[i]] \in From(m)
  <2>1. \A x \in AtLevel(m) : HighKey[x] = m
    BY <1>4 DEF AtLevel
  <2>2. \A i \in 1 .. Len(rows) : rows[i] \in AtLevel(m)
    BY <1>2, ElementOfSeq
  <2> QED
    BY <2>1, <2>2 DEF From, Le
<1>6. Chained(rows, Separate(Word))
  BY <1>2, <1>3, <1>5, LessSeparate
<1> QED
  BY <1>2, <1>3, <1>6

(* The merge of a level's buddy rows, in its place.                        *)
LEMMA HighBuddiesUnmatched ==
  ASSUME NEW s \in Seq(BiContiguous), NEW q \in 1 .. HighW, Neat(s, From(HighMask(q))),
         NEW from, NEW to, Parted(s, from, to, HighMask(q)),
         NEW rows, rows = MergeHighBuddies(SubSeq(s, from, to - 1), q),
         NEW next, next = Replaced(s, from, to, rows)
  PROVE  /\ Unmatched(Members(next), q)
         /\ \A p \in (q + 1) .. HighW : Unmatched(Members(s), p) => Unmatched(Members(next), p)
         /\ Unmatched(Members(s), q) => rows = SubSeq(s, from, to - 1)
<1> DEFINE m == HighMask(q)
           w == HighMask(q - 1)
           part == SubSeq(s, from, to - 1)
           P == AtLevel(m) \cup AtLevel(w)
<1>1. m \in Word /\ w \in Word /\ m # w
  <2>1. m \in Word /\ w \in Word /\ Lt(w, m)
    BY LevelFields
  <2> HIDE DEF m, w
  <2> QED
    BY <2>1, LtAsymmetric
<1>2. part \in Seq(AtLevel(m)) /\ Chained(part, NotAfter) /\ Chained(part, Separate(Word))
  <2> HIDE DEF part
  <2>1. part = SubSeq(s, from, to - 1)
    BY DEF part
  <2> QED
    BY <1>1, <2>1, LevelIsNeat
<1>3. \A n \in Members(part) : High(n.mask) = m
  BY <1>1, PartedMembers
<1>4. Members(s) \subseteq BiContiguous /\ Members(part) \subseteq Members(s)
  <2>1. Members(s) = Members(SubSeq(s, 1, from - 1)) \cup Members(part) \cup Members(SubSeq(s, to, Len(s)))
    BY <1>1, PartedMembers
  <2> HIDE DEF part
  <2> QED
    BY <2>1, MembersAre
<1>5. part \in Seq(AtLevel(HighMask(q))) /\ rows = MergeHighBuddies(part, q)
  BY <1>2
<1> HIDE DEF part
<1>6. Unmatched(Members(rows), q) /\ (Unmatched(Members(part), q) => rows = part)
  BY <1>2, <1>5, HighBuddiesUnmatch
<1>7. rows \in Seq(P)
  BY <1>5, HighBuddiesAre
<1>8. P \subseteq BiContiguous
  BY DEF AtLevel
<1>9. rows \in Seq(BiContiguous) /\ Members(rows) \subseteq P
  <2> HIDE DEF P
  <2> QED
    BY <1>7, <1>8, SeqMonotonic, MembersAre
<1>10. \A n : n \in Members(next) <=> n \in Members(rows) \/ (n \in Members(s) /\ High(n.mask) # m)
  BY <1>1, <1>9, ReplacedMembers
<1>11. Members(next) \in SUBSET BiContiguous /\ Members(rows) \in SUBSET BiContiguous
       /\ Members(part) \in SUBSET BiContiguous /\ Members(s) \in SUBSET BiContiguous
  <2> HIDE DEF P
  <2> QED
    BY <1>4, <1>8, <1>9, <1>10
<1>12. Unmatched(Members(next), q)
  <2>1. \A n \in AtLevel(HighMask(q)) : n \in Members(rows) <=> n \in Members(next)
    BY <1>10 DEF AtLevel
  <2> QED
    BY <1>6, <1>11, <2>1, SameLevel
<1>13. ASSUME NEW p \in (q + 1) .. HighW, Unmatched(Members(s), p) PROVE Unmatched(Members(next), p)
  <2>1. HighMask(p) # m /\ HighMask(p) # w
    <3>1. p \in 0 .. HighW /\ q \in 0 .. HighW /\ q - 1 \in 0 .. HighW /\ q < p /\ q - 1 < p
      <4>1. HighW \in Nat /\ q \in 1 .. HighW /\ p \in (q + 1) .. HighW
        BY WidthAssumption
      <4> QED
        BY ONLY <4>1
    <3> QED
      BY <3>1, LevelsDiffer
  <2> HIDE DEF m, w
  <2>2. \A n \in AtLevel(HighMask(p)) : n \in Members(s) <=> n \in Members(next)
    BY <1>9, <1>10, <2>1 DEF AtLevel
  <2> QED
    BY <1>11, <1>13, <2>2, SameLevel
<1>14. ASSUME Unmatched(Members(s), q) PROVE rows = part
  <2>1. \A n : n \in Members(s) <=> \/ n \in Members(SubSeq(s, 1, from - 1)) \/ n \in Members(part)
                                    \/ n \in Members(SubSeq(s, to, Len(s)))
    BY <1>1, PartedMembers DEF part
  <2>2. /\ \A n \in Members(SubSeq(s, 1, from - 1)) : High(n.mask) # m
        /\ \A n \in Members(SubSeq(s, to, Len(s))) : High(n.mask) # m
    BY <1>1, PartedMembers
  <2>3. \A n \in AtLevel(HighMask(q)) : n \in Members(s) <=> n \in Members(part)
    BY <1>3, <2>1, <2>2 DEF AtLevel
  <2>4. Unmatched(Members(part), q)
    BY <1>11, <1>14, <2>3, SameLevel
  <2> QED
    BY <1>6, <2>4
<1> QED
  BY <1>12, <1>13, <1>14 DEF part

-----------------------------------------------------------------------------
(* A slice in which nothing merges                                         *)

Loose(s) ==
  \A i, j \in 1 .. Len(s) : i # j => MergeByLowestMaskBit(s[i], s[j]) = {}

(* So is every run of such a slice.                                        *)
LEMMA LooseRun ==
  ASSUME NEW s, NEW t, Loose(s), NEW k \in Nat, Len(t) \in Nat, Len(s) \in Nat, k + Len(t) <= Len(s),
         \A i \in 1 .. Len(t) : t[i] = s[k + i]
  PROVE  Loose(t)
<1> SUFFICES ASSUME NEW i \in 1 .. Len(t), NEW j \in 1 .. Len(t), i # j
             PROVE  MergeByLowestMaskBit(t[i], t[j]) = {}
  BY DEF Loose
<1>1. k + i \in 1 .. Len(s) /\ k + j \in 1 .. Len(s) /\ k + i # k + j
  OBVIOUS
<1>2. MergeByLowestMaskBit(s[k + i], s[k + j]) = {}
  BY <1>1 DEF Loose
<1> QED
  BY <1>2

(* And every rearrangement.                                                *)
LEMMA LooseSort ==
  ASSUME NEW s \in Seq(BiContiguous), NEW t \in Rearranged(s), Loose(s)
  PROVE  Loose(t)
<1>1. t \in Seq(BiContiguous) /\ Len(t) = Len(s)
  BY RearrangedIs
<1>2. PICK q \in [1 .. Len(s) -> 1 .. Len(s)] :
        /\ \A i \in 1 .. Len(s) : t[i] = s[q[i]]
        /\ \A i, j \in 1 .. Len(s) : i # j => q[i] # q[j]
  BY RearrangedApart
<1> SUFFICES ASSUME NEW i \in 1 .. Len(s), NEW j \in 1 .. Len(s), i # j
             PROVE  MergeByLowestMaskBit(t[i], t[j]) = {}
  BY <1>1 DEF Loose
<1>3. q[i] \in 1 .. Len(s) /\ q[j] \in 1 .. Len(s) /\ q[i] # q[j]
  BY <1>2
<1>4. MergeByLowestMaskBit(s[q[i]], s[q[j]]) = {}
  BY <1>3 DEF Loose
<1> QED
  BY <1>2, <1>4

(* A row whose networks do not merge stays as it is.                       *)
LEMMA CanonicalRowStays ==
  \A row \in Seq(BiContiguous) : Loose(row) => CanonicalRow[row] = row
<1> DEFINE D == {row \in Seq(BiContiguous) : Loose(row)}
           size == [row \in D |-> Len(row)]
           good == {row \in D : CanonicalRow[row] = row}
<1>1. size \in [D -> Nat]
  BY LenProperties
<1>2. ASSUME NEW row \in D, \A e \in D : size[e] < size[row] => e \in good PROVE row \in good
  <2>0. row \in Seq(BiContiguous) /\ Loose(row)
    OBVIOUS
  <2>1. CanonicalRow[row] =
          IF row = <<>> THEN <<>>
          ELSE Place[<<CanonicalRow[SubSeq(row, 1, Len(row) - 1)], row[Len(row)]>>]
    BY <2>0, CanonicalRowUnfolds
  <2>2. CASE row = <<>>
    BY <2>1, <2>2
  <2>3. CASE row # <<>>
    <3> DEFINE l == Len(row)
               front == SubSeq(row, 1, l - 1)
               n == row[l]
    <3>1. /\ l \in Nat \ {0} /\ front \in Seq(BiContiguous) /\ Len(front) = l - 1 /\ n \in BiContiguous
      BY <2>0, <2>3, FrontIs
    <3>2. \A i \in 1 .. (l - 1) : front[i] = row[i]
      <4>1. l - 1 \in 0 .. l
        BY <3>1
      <4> QED
        BY <2>0, <4>1, RowAndRest
    <3> HIDE DEF l, n, front
    <3>3. Loose(front)
      <4>1. 0 \in Nat /\ Len(front) \in Nat /\ Len(row) \in Nat /\ 0 + Len(front) <= Len(row)
        BY <3>1 DEF l
      <4>2. \A i \in 1 .. Len(front) : front[i] = row[0 + i]
        BY <3>1, <3>2
      <4> QED
        BY <2>0, <4>1, <4>2, LooseRun
    <3>4. CanonicalRow[front] = front
      <4>1. front \in D /\ size[front] < size[row]
        BY <2>0, <3>1, <3>3 DEF l
      <4>2. front \in good
        <5> HIDE DEF D, size, good
        <5> QED
          BY <1>2, <4>1
      <4> QED
        BY <4>2
    <3>5. TopMerge(<<front, n>>) = {}
      <4>1. CASE front = <<>>
        BY <4>1 DEF TopMerge
      <4>2. CASE front # <<>>
        <5>1. l - 1 \in 1 .. (l - 1) /\ l - 1 \in 1 .. Len(row) /\ l \in 1 .. Len(row) /\ l - 1 # l
          <6>1. l - 1 # 0
            BY <3>1, <4>2, EmptySeq
          <6> QED
            BY <3>1, <6>1 DEF l
        <5>2. front[Len(front)] = row[l - 1]
          BY <3>1, <3>2, <5>1
        <5>3. MergeByLowestMaskBit(row[l - 1], row[l]) = {}
          BY <2>0, <5>1 DEF Loose
        <5> QED
          BY <5>2, <5>3 DEF TopMerge, n
      <4> QED
        BY <4>1, <4>2
    <3>6. Place[<<front, n>>] = Append(front, n)
      BY <3>1, <3>5, PlaceUnfolds DEF Pushes
    <3>7. Append(front, n) = row
      <4>1. /\ Append(front, n) \in Seq(BiContiguous) /\ Len(Append(front, n)) = l
            /\ \A i \in 1 .. (l - 1) : Append(front, n)[i] = row[i]
            /\ Append(front, n)[l] = n
        BY <3>1, AppendProperties, <3>2
      <4> DEFINE c == Append(front, n)
      <4> HIDE DEF c
      <4>2. \A i \in 1 .. l : i \in 1 .. (l - 1) \/ i = l
        BY <3>1
      <4>3. \A i \in 1 .. Len(c) : c[i] = row[i]
        BY <4>1, <4>2 DEF c, n
      <4>4. c = row
        BY <2>0, <4>1, <4>3, SeqEqual DEF c, l
      <4> QED
        BY <4>4 DEF c
    <3>8. CanonicalRow[row] = row
      BY <2>1, <2>3, <3>4, <3>6, <3>7, Zenon DEF front, n, l
    <3> QED
      BY <2>0, <3>8
  <2> QED
    BY <2>2, <2>3
<1>3. \A row \in D : row \in good
  <2> HIDE DEF D, size, good
  <2> QED
    BY <1>1, <1>2, InductOnSize
<1> QED
  BY <1>3

(* Nor does the reduction change a level of them.                          *)
LEMMA LowRowsStay ==
  \A s \in Seq(BiContiguous) : Loose(s) => AggregateLowRows[s] = s
<1> DEFINE D == {s \in Seq(BiContiguous) : Loose(s)}
           size == [s \in D |-> Len(s)]
           good == {s \in D : AggregateLowRows[s] = s}
<1>1. size \in [D -> Nat]
  BY LenProperties
<1>2. ASSUME NEW s \in D, \A e \in D : size[e] < size[s] => e \in good PROVE s \in good
  <2>0. s \in Seq(BiContiguous) /\ Loose(s) /\ Len(s) \in Nat
    BY LenProperties
  <2> DEFINE l == FirstRow(s)
             lower == SubSeq(s, 1, l)
             rest == SubSeq(s, l + 1, Len(s))
  <2>1. AggregateLowRows[s] = IF s = <<>> THEN <<>> ELSE CanonicalRow[lower] \o AggregateLowRows[rest]
    BY <2>0, LowRowsUnfolds
  <2>2. CASE s = <<>>
    BY <2>1, <2>2
  <2>3. CASE s # <<>>
    <3>1. l \in 1 .. Len(s)
      BY <2>0, <2>3, FirstRowIs
    <3> HIDE DEF l
    <3>2. l \in 0 .. Len(s)
      BY <2>0, <3>1
    <3>3. /\ lower \in Seq(BiContiguous) /\ Len(lower) = l /\ \A i \in 1 .. l : lower[i] = s[i]
          /\ rest \in Seq(BiContiguous) /\ Len(rest) = Len(s) - l
          /\ \A i \in 1 .. (Len(s) - l) : rest[i] = s[l + i]
      BY <2>0, <3>2, RowAndRest
    <3>4. lower \o rest = s
      BY <2>0, <3>2, SplitIs
    <3> HIDE DEF lower, rest
    <3>5. Loose(lower)
      <4>1. 0 \in Nat /\ Len(lower) \in Nat /\ 0 + Len(lower) <= Len(s)
        BY <2>0, <3>1, <3>3
      <4>2. \A i \in 1 .. Len(lower) : lower[i] = s[0 + i]
        BY <3>3
      <4> QED
        BY <2>0, <4>1, <4>2, LooseRun
    <3>6. Loose(rest)
      BY <2>0, <3>1, <3>3, LooseRun
    <3>7. CanonicalRow[lower] = lower
      BY <3>3, <3>5, CanonicalRowStays
    <3>8. AggregateLowRows[rest] = rest
      <4>1. rest \in D /\ size[rest] < size[s]
        BY <2>0, <3>1, <3>3, <3>6
      <4>2. rest \in good
        <5> HIDE DEF D, size, good
        <5> QED
          BY <1>2, <4>1
      <4> QED
        BY <4>2
    <3>9. AggregateLowRows[s] = s
      BY <2>1, <2>3, <3>4, <3>7, <3>8, Zenon
    <3> QED
      BY <2>0, <3>9
  <2> QED
    BY <2>2, <2>3
<1>3. \A s \in D : s \in good
  <2> HIDE DEF D, size, good
  <2> QED
    BY <1>1, <1>2, InductOnSize
<1> QED
  BY <1>3

(* The survivors of a chunk are the chunk when none was dropped: when      *)
(* there are as many, or when none is contained.                           *)
LEMMA SurvivorsStay ==
  ASSUME NEW Q, NEW chunk \in Seq(Q), NEW masks,
         \/ Len(Survivors(chunk, masks)) = Len(chunk)
         \/ \A j \in 1 .. Len(chunk) : ~IsContained(chunk[j], masks)
  PROVE  Survivors(chunk, masks) = chunk
<1> DEFINE r == Survivors(chunk, masks)
           n == Len(chunk)
<1>1. r \in Seq(Q) /\ \E p : Picks(p, r, chunk, n, masks)
  BY SurvivorsPicked
<1>2. Len(r) = n \/ \A j \in 1 .. n : ~IsContained(chunk[j], masks)
  OBVIOUS
<1>3. n \in Nat
  BY LenProperties
<1> HIDE DEF r, n
<1>4. PICK p : Picks(p, r, chunk, n, masks)
  BY <1>1
<1>5. Len(r) = n
  BY <1>2, <1>4 DEF Picks
<1>6. \A k \in 1 .. n : p[k] = k
  BY <1>3, <1>4, <1>5 DEF Picks
<1>7. \A k \in 1 .. n : r[k] = chunk[k]
  BY <1>4, <1>5, <1>6 DEF Picks
<1> QED
  BY <1>1, <1>5, <1>7, SeqEqual DEF r, n

(* Where nothing merges, nothing is dropped.                               *)
LEMMA NoneDropped ==
  ASSUME Sorted, shapes \subseteq Word, kept < Len(nets), Loose(nets),
         NEW chunk, chunk = SubSeq(nets, kept + 1, ChunkEnd - 1)
  PROVE  Survivors(chunk, AncestorMasks(nets[kept + 1].mask)) = chunk
<1> DEFINE m == nets[kept + 1].mask
           from == kept + 1
           to == ChunkEnd
           n == Len(nets)
<1>1. nets \in Seq(BiContiguous) /\ n \in Nat /\ kept \in Nat /\ kept < n
  BY LenProperties DEF Sorted
<1>2. to \in (kept + 2) .. (n + 1) /\ \A i \in from .. (to - 1) : nets[i].mask = m
  BY <1>1, ChunkIs
<1> HIDE DEF to
<1>3. from \in 1 .. (n + 1) /\ to \in from .. (n + 1) /\ from - 1 = kept
  BY <1>1, <1>2
<1>4. chunk \in Seq(BiContiguous) /\ Len(chunk) = to - from
      /\ \A i \in 1 .. (to - from) : chunk[i] = nets[from - 1 + i]
  <2> HIDE DEF from
  <2> DEFINE c == SubSeq(nets, from, to - 1)
  <2>1. chunk = c
    BY DEF from, to
  <2>2. c \in Seq(BiContiguous) /\ Len(c) = to - from /\ \A i \in 1 .. (to - from) : c[i] = nets[from - 1 + i]
    BY <1>1, <1>3, PiecesAre
  <2> HIDE DEF c
  <2> QED
    BY <2>1, <2>2
<1> HIDE DEF from, n, m
<1>5. \A i \in 1 .. (to - from) : from - 1 + i \in from .. (to - 1) /\ from - 1 + i \in 1 .. n
  BY <1>1, <1>3
<1>6. ASSUME NEW j \in 1 .. Len(chunk), IsContained(chunk[j], AncestorMasks(m)) PROVE FALSE
  <2> DEFINE k == from - 1 + j
  <2>1. k \in 1 .. n /\ k = kept + j /\ j >= 1 /\ chunk[j] = nets[k] /\ nets[k].mask = m
    <3>1. j \in 1 .. (to - from)
      BY <1>4
    <3>2. k \in from .. (to - 1) /\ k \in 1 .. n /\ chunk[j] = nets[k]
      BY <1>4, <1>5, <3>1
    <3>3. k = kept + j /\ j >= 1
      BY <1>1, <1>3, <3>1
    <3>4. nets[k].mask = m
      BY <1>2, <3>2
    <3> QED
      BY <3>2, <3>3, <3>4
  <2> HIDE DEF k
  <2>2. nets[k] \in BiContiguous
    BY <1>1, <2>1, ElementOfSeq DEF n
  <2>3. IsContained(nets[k], AncestorMasks(nets[k].mask))
    BY <1>6, <2>1
  <2>4. PICK i \in 1 .. kept : Addrs(nets[k]) \subseteq Addrs(nets[i])
    BY <2>2, <2>3, ContainedIsCovered
  <2>5. i \in 1 .. n /\ i # k
    BY <1>1, <2>1
  <2>6. nets[i] \in BiContiguous
    BY <1>1, <2>5, ElementOfSeq DEF n
  <2>7. Contains(nets[i], nets[k])
    <3>1. nets[i] \in Network /\ nets[k] \in Network
      BY <2>2, <2>6, ClassFields
    <3> QED
      BY <2>4, <3>1, ContainsIsInclusion
  <2>8. MergeByLowestMaskBit(nets[i], nets[k]) = {}
    BY <2>1, <2>5 DEF Loose, n
  <2> QED
    BY <2>2, <2>6, <2>7, <2>8, NotNested
<1>7. \A j \in 1 .. Len(chunk) : ~IsContained(chunk[j], AncestorMasks(m))
  BY <1>6
<1>8. Survivors(chunk, AncestorMasks(m)) = chunk
  BY <1>4, <1>7, SurvivorsStay
<1> QED
  BY <1>8, Zenon DEF m

(* One order for the same networks.                                        *)
LEMMA SameOrder ==
  ASSUME NEW s \in Seq(BiContiguous), NEW t \in Seq(BiContiguous),
         Chained(s, Earlier), Chained(t, Earlier), Members(s) = Members(t)
  PROVE  s = t
<1> DEFINE a == Len(s)
           b == Len(t)
           M == {m \in (1 .. a) \X (1 .. b) : s[m[1]] = t[m[2]]}
<1>1. a \in Nat /\ b \in Nat
  BY LenProperties
<1>2. /\ \A x : x \in Members(s) <=> \E i \in 1 .. a : x = s[i]
      /\ \A x : x \in Members(t) <=> \E i \in 1 .. b : x = t[i]
  BY MembersAre
<1>3. \A i \in 1 .. a : \A j \in 1 .. b : <<i, j>> \in M <=> s[i] = t[j]
  OBVIOUS
<1>4. \A i \in 1 .. a : \E j \in 1 .. b : s[i] = t[j]
  BY <1>2
<1>5. \A j \in 1 .. b : \E i \in 1 .. a : s[i] = t[j]
  BY <1>2
<1>6. /\ \A h, i \in 1 .. a : h < i => <<s[h], s[i]>> \in Earlier
      /\ \A h, i \in 1 .. b : h < i => <<t[h], t[i]>> \in Earlier
  BY DEF Chained
<1>7. ASSUME NEW x, NEW y, <<x, y>> \in Earlier PROVE <<y, x>> \notin Earlier /\ x # y
  <2>1. x \in BiContiguous /\ y \in BiContiguous
    BY <1>7 DEF Earlier, Couples
  <2>2. x.mask \in Word /\ y.mask \in Word /\ x.addr \in Word /\ y.addr \in Word
    BY <2>1, ClassFields
  <2>3. Lt(x.mask, y.mask) \/ (x.mask = y.mask /\ Lt(x.addr, y.addr))
    BY <1>7, <2>1, MaskOrder DEF Earlier
  <2>4. ~(Lt(y.mask, x.mask) \/ (y.mask = x.mask /\ Lt(y.addr, x.addr))) /\ x # y
    BY <2>2, <2>3, LtAsymmetric
  <2> QED
    BY <2>1, <2>4, MaskOrder DEF Earlier
<1>8. M \in SUBSET ((1 .. a) \X (1 .. b))
  OBVIOUS
<1> HIDE DEF a, b, M
<1>9. ASSUME NEW h \in 1 .. a, NEW i \in 1 .. a, NEW j \in 1 .. b, NEW k \in 1 .. b,
             s[h] = t[j], s[i] = t[k]
      PROVE  h < i <=> j < k
  <2> DEFINE x == s[h]
             y == s[i]
  <2>1. /\ h < i => <<x, y>> \in Earlier
        /\ i < h => <<y, x>> \in Earlier
        /\ h = i => x = y
    BY <1>6
  <2>2. /\ j < k => <<x, y>> \in Earlier
        /\ k < j => <<y, x>> \in Earlier
        /\ j = k => x = y
    BY <1>6, <1>9
  <2> HIDE DEF x, y
  <2>3. (h < i \/ i < h \/ h = i) /\ (j < k \/ k < j \/ j = k)
    OBVIOUS
  <2>4. ~(h < i /\ i < h) /\ ~(j < k /\ k < j)
    OBVIOUS
  <2> QED
    BY <1>7, <2>1, <2>2, <2>3, <2>4, Zenon
<1>10. a = b /\ \A i \in 1 .. a : <<i, i>> \in M
  <2>1. \A i \in 1 .. a : \E j \in 1 .. b : <<i, j>> \in M
    BY <1>3, <1>4
  <2>2. \A j \in 1 .. b : \E i \in 1 .. a : <<i, j>> \in M
    BY <1>3, <1>5
  <2>3. \A h, i \in 1 .. a : \A j, k \in 1 .. b :
          <<h, j>> \in M /\ <<i, k>> \in M => (h < i <=> j < k)
    BY <1>3, <1>9
  <2> QED
    BY <1>1, <1>8, <2>1, <2>2, <2>3, MatchedBothWays
<1>11. \A i \in 1 .. a : s[i] = t[i]
  BY <1>3, <1>10
<1> QED
  BY <1>10, <1>11, SeqEqual DEF a, b

-----------------------------------------------------------------------------
(* What is left when nothing is to be done                                 *)

(* A high mask that is not empty is a level.                               *)
LEMMA LevelOf ==
  ASSUME NEW n \in BiContiguous, High(n.mask) # {}
  PROVE  \E p \in 1 .. HighW : High(n.mask) = HighMask(p) /\ LowestSetBit(High(n.mask)) = {W - p}
<1> DEFINE hm == High(n.mask)
<1>1. n.mask \in Word /\ n.mask \subseteq Bits /\ hm \subseteq n.mask /\ \A i \in hm : i >= LowW
  BY ClassFields DEF Word, High
<1>2. Bits \subseteq Nat /\ W \in Nat /\ LowW \in Nat /\ HighW \in Nat /\ W = HighW + LowW
      /\ \A i \in Bits : i <= W - 1
  BY WAssumption, WidthAssumption DEF Bits
<1> HIDE DEF hm
<1>3. hm \subseteq Nat /\ hm # {}
  BY <1>1, <1>2 DEF hm
<1>4. PICK b \in hm : \A i \in hm : b <= i
  BY <1>3, LeastNatural
<1> DEFINE p == W - b
<1>5. b \in Nat /\ b \in n.mask /\ b >= LowW /\ b <= W - 1
  BY <1>1, <1>2, <1>4
<1>6. p \in 1 .. HighW /\ W - p = b
  BY <1>2, <1>5
<1>7. \A i \in Bits : b < i => i \in n.mask /\ i >= LowW
  <2> SUFFICES ASSUME NEW i \in Bits, b < i PROVE i \in n.mask /\ i >= LowW
    OBVIOUS
  <2>1. i \in n.mask
    BY <1>5, RunUp
  <2> QED
    BY <1>2, <1>5, <2>1
<1>8. \A i \in Bits : i \in hm <=> i >= b
  <2>1. \A i \in n.mask : i >= LowW => i \in hm
    BY DEF hm, High
  <2>2. ASSUME NEW i \in Bits, i >= b PROVE i \in hm
    <3>1. i = b \/ b < i
      BY <1>2, <1>5, <2>2
    <3> QED
      BY <1>4, <1>7, <2>1, <3>1
  <2>3. ASSUME NEW i \in Bits, i \in hm PROVE i >= b
    <3>1. b <= i
      BY <1>4, <2>3
    <3> QED
      BY <3>1
  <2> QED
    BY <2>2, <2>3
<1>9. hm = HighMask(p)
  BY <1>1, <1>6, <1>8 DEF HighMask
<1>10. LowestSetBit(hm) = {b}
  <2>1. \A i : i \in LowestSetBit(hm) <=> i \in hm /\ \A j \in hm : i <= j
    BY DEF LowestSetBit
  <2>2. ASSUME NEW i \in hm, \A j \in hm : i <= j PROVE i = b
    <3>1. i <= b /\ b <= i /\ i \in Nat
      BY <1>3, <1>4, <2>2
    <3> QED
      BY <1>5, <3>1
  <2> QED
    BY <1>4, <2>1, <2>2
<1> QED
  BY <1>6, <1>9, <1>10 DEF hm

(* Buddies share their row, or are rows of one network each.               *)
LEMMA BuddiesOf ==
  ASSUME NEW x \in BiContiguous, NEW y \in BiContiguous, IsAdjacentByLowestMaskBit(x, y)
  PROVE  \/ High(x.addr) = High(y.addr)
         \/ /\ Low(x.mask) = {}
            /\ \E p \in 1 .. HighW : High(x.mask) = HighMask(p) /\ Xor(x.addr, y.addr) = {W - p}
<1>1. x.mask = y.mask /\ x.mask # {} /\ Xor(x.addr, y.addr) = LowestSetBit(x.mask)
  BY DEF IsAdjacentByLowestMaskBit
<1>2. x.mask \in Word /\ High(x.mask) \cup Low(x.mask) = x.mask /\ x.addr \in Word /\ y.addr \in Word
  BY ClassFields, HalvesOf
<1>3. CASE Low(x.mask) = {}
  <2>1. High(x.mask) = x.mask
    BY <1>2, <1>3
  <2> QED
    BY <1>1, <1>3, <2>1, LevelOf
<1>4. CASE Low(x.mask) # {}
  <2>1. PICK k \in Low(x.mask) : TRUE
    BY <1>4
  <2>2. k \in x.mask /\ k < LowW /\ k \in Int /\ LowW \in Int
    BY <1>2, <2>1, WAssumption, WidthAssumption DEF Low, Word, Bits
  <2>3. \A i \in Xor(x.addr, y.addr) : i <= k
    BY <1>1, <2>2 DEF LowestSetBit
  <2>4. \A i \in x.addr \cup y.addr : i \in Int
    BY <1>2 DEF Word, Bits
  <2>5. \A i : i \in x.addr /\ i >= LowW <=> i \in y.addr /\ i >= LowW
    BY <2>2, <2>3, <2>4 DEF Xor
  <2> QED
    BY <2>5 DEF High
<1> QED
  BY <1>3, <1>4

(* A network of an empty low mask contains its row.                        *)
LEMMA HostRow ==
  ASSUME NEW x \in BiContiguous, NEW n \in BiContiguous, Low(x.mask) = {},
         High(n.mask) = High(x.mask), High(n.addr) = High(x.addr)
  PROVE  Contains(x, n)
<1>1. /\ x.addr \subseteq x.mask /\ n.addr \subseteq n.mask
      /\ x.mask \in Word /\ n.mask \in Word /\ x.addr \in Word /\ n.addr \in Word
  BY ClassFields
<1>2. x.mask = High(x.mask)
  <2>1. High(x.mask) \cup Low(x.mask) = x.mask
    BY <1>1, HalvesOf
  <2> QED
    BY <2>1
<1>3. x.addr = High(x.addr)
  BY <1>1, <1>2 DEF High
<1>4. n.mask \cap High(n.mask) = High(n.mask) /\ n.addr \cap High(n.mask) = High(n.addr)
  BY <1>1 DEF High
<1> QED
  BY <1>2, <1>3, <1>4 DEF Contains

(* In an unmatched level no two networks of empty low masks are buddies.   *)
LEMMA NoHostBuddies ==
  ASSUME NEW s \in Seq(BiContiguous), \A i, j \in 1 .. Len(s) : i # j => ~Contains(s[i], s[j]),
         NEW p \in 1 .. HighW, Unmatched(Members(s), p),
         NEW x \in Members(s), NEW y \in Members(s), x.mask = y.mask,
         Low(x.mask) = {}, High(x.mask) = HighMask(p), W - p \notin x.addr, y.addr = x.addr \cup {W - p}
  PROVE  FALSE
<1> DEFINE S == Members(s)
           b == W - p
           h == High(x.addr)
           k == High(y.addr)
<1>1. b \in Bits /\ b \in Int /\ b >= LowW
  BY LevelFields
<1>2. S \subseteq BiContiguous /\ \A n : n \in S <=> \E i \in 1 .. Len(s) : n = s[i]
  BY MembersAre
<1>3. \A m, n \in S : Contains(m, n) => m = n
  BY <1>2
<1>4. x \in BiContiguous /\ y \in BiContiguous /\ x \in S /\ y \in S
  BY <1>2
<1> HIDE DEF S, b
<1>5. k = h \cup {b} /\ b \notin h
  BY <1>1 DEF High, b
<1>6. \A n : n \in RowIn(S, p, h) <=> n \in S /\ High(n.mask) = HighMask(p) /\ High(n.addr) = h
  BY <1>2 DEF RowIn, InRow
<1>7. \A n : n \in RowIn(S, p, k) <=> n \in S /\ High(n.mask) = HighMask(p) /\ High(n.addr) = k
  BY <1>2 DEF RowIn, InRow
<1>8. \A n : n \in RowIn(S, p, h) <=> n = x
  <2>1. ASSUME NEW n \in RowIn(S, p, h) PROVE n = x
    BY <1>2, <1>6, <2>1, <1>4, HostRow, <1>3
  <2> QED
    BY <1>4, <1>6, <2>1
<1>9. \A n : n \in RowIn(S, p, k) <=> n = y
  <2>1. ASSUME NEW n \in RowIn(S, p, k) PROVE n = y
    BY <1>2, <1>7, <2>1, <1>4, HostRow, <1>3
  <2> QED
    BY <1>4, <1>7, <2>1
<1>10. SameLow(x, y)
  <2>1. Low(x.addr) = Low(y.addr)
    <3>1. b \in Int /\ ~(b < LowW)
      BY <1>1, WidthAssumption
    <3> QED
      BY <3>1 DEF Low, b
  <2> QED
    BY <2>1 DEF SameLow
<1>11. Twins(RowIn(S, p, h), RowIn(S, p, k)) /\ RowIn(S, p, h) # {}
  <2> DEFINE A == RowIn(S, p, h)
             B == RowIn(S, p, k)
  <2>1. (\A n : n \in A <=> n = x) /\ (\A n : n \in B <=> n = y)
    BY <1>8, <1>9
  <2> HIDE DEF A, B
  <2>2. Twins(A, B) /\ A # {}
    BY <1>10, <2>1 DEF Twins
  <2> QED
    BY <2>2 DEF A, B
<1>12. h \in Word
  BY <1>4, NetHalves
<1> HIDE DEF h, k
<1>13. ~Twins(RowIn(S, p, h), RowIn(S, p, h \cup {b}))
  BY <1>5, <1>11, <1>12 DEF Unmatched, S, b
<1> QED
  BY <1>5, <1>11, <1>13, Zenon

(* Networks apart do not merge.                                            *)
LEMMA NoMerge ==
  ASSUME NEW x \in BiContiguous, NEW y \in BiContiguous, ~Contains(x, y), ~Contains(y, x),
         ~IsAdjacentByLowestMaskBit(x, y)
  PROVE  MergeByLowestMaskBit(x, y) = {}
<1>1. x # y
  <2>1. x.addr \cap x.mask = x.addr /\ x.mask \cap x.mask = x.mask
    BY ClassFields
  <2> QED
    BY <2>1 DEF Contains
<1>2. CASE x.mask = y.mask
  <2> DEFINE u == [addr |-> x.addr \cap y.addr, mask |-> ClearLowestSetBit(x.mask)]
  <2>1. MergeByLowestMaskBit(x, y) = Only(IsAdjacentByLowestMaskBit(x, y), u)
    BY <1>1, <1>2 DEF MergeByLowestMaskBit
  <2> HIDE DEF u
  <2> QED
    BY <2>1 DEF Only
<1>3. CASE x.mask # y.mask
  <2>1. MergeByLowestMaskBit(x, y) = Only(Contains(y, x), y)
    BY <1>1, <1>3 DEF MergeByLowestMaskBit
  <2> QED
    BY <2>1 DEF Only
<1> QED
  BY <1>2, <1>3

(* Without containment, row mates to merge and equal buddy rows, nothing   *)
(* merges.                                                                 *)
LEMMA ApartIsLoose ==
  ASSUME NEW s \in Seq(BiContiguous), Chained(s, Separate(Word)),
         \A i, j \in 1 .. Len(s) : i # j => ~Contains(s[i], s[j]),
         \A p \in 1 .. HighW : Unmatched(Members(s), p)
  PROVE  Loose(s)
<1> SUFFICES ASSUME NEW i \in 1 .. Len(s), NEW j \in 1 .. Len(s), i # j,
                    IsAdjacentByLowestMaskBit(s[i], s[j])
             PROVE  FALSE
  <2>1. ASSUME NEW i \in 1 .. Len(s), NEW j \in 1 .. Len(s), i # j
        PROVE  MergeByLowestMaskBit(s[i], s[j]) = {}
    BY ElementOfSeq, <2>1, NoMerge
  <2> QED
    BY <2>1 DEF Loose
<1> DEFINE x == s[i]
           y == s[j]
<1>1. x \in BiContiguous /\ y \in BiContiguous /\ x \in Members(s) /\ y \in Members(s)
  BY ElementOfSeq, MembersAre
<1>2. x.mask = y.mask /\ High(x.mask) \in Word
  BY <1>1, NetHalves DEF IsAdjacentByLowestMaskBit
<1>3. High(x.addr) # High(y.addr)
  <2> SUFFICES ASSUME High(x.addr) = High(y.addr) PROVE FALSE
    OBVIOUS
  <2>1. i < j \/ j < i
    OBVIOUS
  <2>2. <<x, y>> \in Separate(Word) \/ <<y, x>> \in Separate(Word)
    BY <2>1 DEF Chained
  <2>3. IsAdjacentByLowestMaskBit(x, y) /\ IsAdjacentByLowestMaskBit(y, x)
    BY BuddiesEither
  <2> HIDE DEF x, y
  <2> QED
    BY <1>2, <2>2, <2>3 DEF Separate
<1> HIDE DEF x, y
<1>4. IsAdjacentByLowestMaskBit(x, y)
  BY DEF x, y
<1>5. Low(x.mask) = {} /\ \E p \in 1 .. HighW : High(x.mask) = HighMask(p) /\ Xor(x.addr, y.addr) = {W - p}
  BY <1>1, <1>3, <1>4, BuddiesOf
<1>6. PICK p \in 1 .. HighW : High(x.mask) = HighMask(p) /\ Xor(x.addr, y.addr) = {W - p}
  BY <1>5
<1>7. CASE W - p \notin x.addr /\ y.addr = x.addr \cup {W - p}
  BY <1>1, <1>2, <1>5, <1>6, <1>7, NoHostBuddies
<1>8. CASE W - p \notin y.addr /\ x.addr = y.addr \cup {W - p}
  BY <1>1, <1>2, <1>5, <1>6, <1>8, NoHostBuddies
<1> QED
  BY <1>6, <1>7, <1>8, OneBitApart

(* Rows of the same low networks, as the result is read.                   *)
LEMMA EqualSetsAreTwins ==
  ASSUME NEW s \in Seq(BiContiguous), NEW p, NEW a, NEW c,
         LowSet(s, <<HighMask(p), a>>) = LowSet(s, <<HighMask(p), c>>)
  PROVE  Twins(RowIn(Members(s), p, a), RowIn(Members(s), p, c))
<1> DEFINE m == HighMask(p)
           A == LowSet(s, <<m, a>>)
           C == LowSet(s, <<m, c>>)
           X == RowIn(Members(s), p, a)
           Y == RowIn(Members(s), p, c)
<1>1. DOMAIN s = 1 .. Len(s) /\ \A i \in 1 .. Len(s) : s[i] \in BiContiguous
  BY ElementOfSeq, LenProperties
<1>2. ASSUME NEW h
      PROVE  /\ \A n : n \in RowIn(Members(s), p, h) <=>
                         \E i \in 1 .. Len(s) : n = s[i] /\ High(n.mask) = m /\ High(n.addr) = h
             /\ \A u : u \in LowSet(s, <<m, h>>) <=>
                         \E i \in 1 .. Len(s) : /\ u = <<Low(s[i].addr), Low(s[i].mask)>>
                                                /\ High(s[i].mask) = m /\ High(s[i].addr) = h
  <2>1. \A n : n \in Members(s) <=> \E i \in 1 .. Len(s) : n = s[i]
    BY MembersAre
  <2> HIDE DEF m
  <2>2. \A n : n \in RowIn(Members(s), p, h) <=>
                 \E i \in 1 .. Len(s) : n = s[i] /\ High(n.mask) = m /\ High(n.addr) = h
    BY <1>1, <2>1 DEF RowIn, InRow, m
  <2>3. LowSet(s, <<m, h>>) = {<<Low(s[i].addr), Low(s[i].mask)>> : i \in Row(s, m, h)}
    BY Zenon DEF LowSet
  <2>4. \A i : i \in Row(s, m, h) <=> i \in 1 .. Len(s) /\ High(s[i].mask) = m /\ High(s[i].addr) = h
    BY <1>1 DEF Row
  <2>5. \A u : u \in LowSet(s, <<m, h>>) <=>
                 \E i \in 1 .. Len(s) : /\ u = <<Low(s[i].addr), Low(s[i].mask)>>
                                        /\ High(s[i].mask) = m /\ High(s[i].addr) = h
    BY <2>3, <2>4
  <2> QED
    BY <2>2, <2>5
<1>3. A = C
  OBVIOUS
<1>4. ASSUME NEW g, NEW h, LowSet(s, <<m, g>>) = LowSet(s, <<m, h>>), NEW x \in RowIn(Members(s), p, g)
      PROVE  \E y \in RowIn(Members(s), p, h) : SameLow(x, y)
  <2> DEFINE u == <<Low(x.addr), Low(x.mask)>>
  <2>1. u \in LowSet(s, <<m, g>>)
    <3>1. PICK i \in 1 .. Len(s) : x = s[i] /\ High(x.mask) = m /\ High(x.addr) = g
      BY <1>2
    <3>2. u = <<Low(s[i].addr), Low(s[i].mask)>> /\ High(s[i].mask) = m /\ High(s[i].addr) = g
      BY <3>1
    <3> HIDE DEF u, m
    <3> QED
      BY <1>2, <3>2, Zenon
  <2>2. u \in LowSet(s, <<m, h>>)
    BY <1>4, <2>1, Zenon
  <2>3. PICK i \in 1 .. Len(s) : /\ u = <<Low(s[i].addr), Low(s[i].mask)>>
                                 /\ High(s[i].mask) = m /\ High(s[i].addr) = h
    <3> HIDE DEF u, m
    <3> QED
      BY <1>2, <2>2, Zenon
  <2>4. SameLow(x, s[i])
    BY <2>3 DEF SameLow
  <2>5. s[i] \in RowIn(Members(s), p, h)
    <3> HIDE DEF m
    <3> QED
      BY <1>2, <2>3, Zenon
  <2> QED
    BY <2>4, <2>5
<1>5. \A x \in X : \E y \in Y : SameLow(x, y)
  <2> HIDE DEF m
  <2> QED
    BY <1>3, <1>4
<1>6. \A y \in Y : \E x \in X : SameLow(y, x)
  <2> HIDE DEF m
  <2> QED
    BY <1>3, <1>4
<1>7. \A x, y : SameLow(x, y) <=> SameLow(y, x)
  BY DEF SameLow
<1> HIDE DEF X, Y
<1>8. Twins(X, Y)
  BY <1>5, <1>6, <1>7 DEF Twins
<1> QED
  BY <1>8 DEF X, Y

LEMMA NoEqualBuddies ==
  ASSUME NEW s \in Seq(BiContiguous), \A p \in 1 .. HighW : Unmatched(Members(s), p)
  PROVE  EqualBuddies(s) = {}
<1>0. DOMAIN s = 1 .. Len(s) /\ \A i \in 1 .. Len(s) : s[i] \in BiContiguous
  BY ElementOfSeq, LenProperties
<1>1. ASSUME NEW i \in 1 .. Len(s), NEW j \in 1 .. Len(s), NEW p \in 1 .. HighW,
             NEW a, NEW c, a = High(s[i].addr), c = High(s[j].addr),
             High(s[i].mask) = HighMask(p), High(s[j].mask) = HighMask(p),
             LowSet(s, <<HighMask(p), a>>) = LowSet(s, <<HighMask(p), c>>),
             W - p \notin a, c = a \cup {W - p}
      PROVE  FALSE
  <2>1. Twins(RowIn(Members(s), p, a), RowIn(Members(s), p, c))
    BY <1>1, EqualSetsAreTwins
  <2>2. s[i] \in RowIn(Members(s), p, a)
    <3>1. s[i] \in Members(s) /\ s[i] \in BiContiguous
      BY <1>0, MembersAre
    <3> QED
      BY <1>1, <3>1 DEF RowIn, InRow
  <2>3. a \in Word
    BY <1>0, <1>1, NetHalves
  <2>4. RowIn(Members(s), p, a) # {} => ~Twins(RowIn(Members(s), p, a), RowIn(Members(s), p, a \cup {W - p}))
    BY <1>1, <2>3 DEF Unmatched
  <2>5. RowIn(Members(s), p, a) # {}
    BY <2>2
  <2> QED
    BY <1>1, <2>1, <2>4, <2>5, Zenon
<1> SUFFICES ASSUME NEW k \in EqualBuddies(s) PROVE FALSE
  OBVIOUS
<1>2. /\ k[1] \in RowKeys(s) /\ k[2] \in RowKeys(s) /\ k[1][1] = k[2][1] /\ k[1] # k[2]
      /\ Xor(k[1][2], k[2][2]) = LowestSetBit(k[1][1])
      /\ LowSet(s, k[1]) = LowSet(s, k[2])
  BY DEF EqualBuddies
<1>3. PICK i \in 1 .. Len(s) : k[1] = <<High(s[i].mask), High(s[i].addr)>>
  BY <1>0, <1>2, Zenon DEF RowKeys
<1>4. PICK j \in 1 .. Len(s) : k[2] = <<High(s[j].mask), High(s[j].addr)>>
  BY <1>0, <1>2, Zenon DEF RowKeys
<1> DEFINE hm == High(s[i].mask)
           a == High(s[i].addr)
           c == High(s[j].addr)
<1>5. /\ k[1] = <<hm, a>> /\ k[2] = <<hm, c>> /\ High(s[j].mask) = hm /\ a # c
      /\ Xor(a, c) = LowestSetBit(hm)
  <2>1. k[1][1] = hm /\ k[1][2] = a /\ k[2][1] = High(s[j].mask) /\ k[2][2] = c
    BY <1>3, <1>4
  <2> HIDE DEF hm, a, c
  <2>2. k[2] = <<hm, c>> /\ k[1] = <<hm, a>>
    BY <1>2, <1>3, <1>4, <2>1, Zenon DEF hm, a, c
  <2>3. a # c
    BY <1>2, <2>2, Zenon
  <2> QED
    BY <1>2, <2>1, <2>2, <2>3, Zenon
<1>6. hm # {}
  <2> SUFFICES ASSUME hm = {} PROVE FALSE
    OBVIOUS
  <2>1. Xor(a, c) = {}
    <3>1. LowestSetBit({}) = {}
      BY DEF LowestSetBit
    <3> HIDE DEF hm, a, c
    <3> QED
      BY <1>5, <3>1, Zenon
  <2> HIDE DEF a, c
  <2> QED
    BY <1>5, <2>1 DEF Xor
<1>7. PICK p \in 1 .. HighW : hm = HighMask(p) /\ LowestSetBit(hm) = {W - p}
  BY <1>0, <1>6, LevelOf
<1>8. LowSet(s, <<HighMask(p), a>>) = LowSet(s, <<HighMask(p), c>>)
  <2> HIDE DEF hm, a, c
  <2> QED
    BY <1>2, <1>5, <1>7, Zenon
<1>9. Xor(a, c) = {W - p}
  <2> HIDE DEF hm, a, c
  <2> QED
    BY <1>5, <1>7, Zenon
<1>10. (W - p \notin a /\ c = a \cup {W - p}) \/ (W - p \notin c /\ a = c \cup {W - p})
  <2> DEFINE b == W - p
  <2>1. Xor(a, c) = {b}
    BY <1>9, Zenon
  <2> HIDE DEF hm, a, c, b
  <2>2. (b \notin a /\ c = a \cup {b}) \/ (b \notin c /\ a = c \cup {b})
    BY <2>1, OneBitApart, Zenon
  <2> QED
    BY <2>2, Zenon DEF b
<1>11. hm = HighMask(p) /\ High(s[j].mask) = HighMask(p)
  BY <1>5, <1>7, Zenon
<1>12. CASE W - p \notin a /\ c = a \cup {W - p}
  <2> HIDE DEF hm
  <2> QED
    BY <1>1, <1>8, <1>11, <1>12, Zenon DEF hm
<1>13. CASE W - p \notin c /\ a = c \cup {W - p}
  <2> HIDE DEF hm
  <2> QED
    BY <1>1, <1>8, <1>11, <1>13, Zenon DEF hm
<1> QED
  BY <1>10, <1>12, <1>13

(* One network alone is in no need of anything.                            *)
LEMMA OneIsUnmatched ==
  ASSUME NEW s \in Seq(BiContiguous), Len(s) <= 1
  PROVE  \A p \in 1 .. HighW : Unmatched(Members(s), p)
<1> SUFFICES ASSUME NEW p \in 1 .. HighW, NEW h \in Word, W - p \notin h,
                    RowIn(Members(s), p, h) # {},
                    Twins(RowIn(Members(s), p, h), RowIn(Members(s), p, h \cup {W - p}))
             PROVE  FALSE
  BY DEF Unmatched
<1>1. PICK x \in RowIn(Members(s), p, h) : TRUE
  OBVIOUS
<1>2. PICK y \in RowIn(Members(s), p, h \cup {W - p}) : TRUE
  BY <1>1 DEF Twins
<1>3. x \in Members(s) /\ y \in Members(s) /\ High(x.addr) = h /\ High(y.addr) = h \cup {W - p}
  BY <1>1, <1>2 DEF RowIn, InRow
<1>4. x = y
  <2>1. PICK i \in 1 .. Len(s) : x = s[i]
    BY <1>3, MembersAre
  <2>2. PICK j \in 1 .. Len(s) : y = s[j]
    BY <1>3, MembersAre
  <2>3. i = 1 /\ j = 1
    BY <2>1, <2>2, LenProperties
  <2> QED
    BY <2>1, <2>2, <2>3
<1> QED
  BY <1>3, <1>4

-----------------------------------------------------------------------------
(* The invariant of the calls                                              *)

(* The levels above q have no equal buddy rows.                            *)
SweptTo(s, q) == \A p \in (q + 1) .. HighW : Unmatched(Members(s), p)

(* What a call returns.                                                    *)
Closed(s) == Chained(s, Earlier) /\ Loose(s) /\ SweptTo(s, 0)

(* The second call rearranges what the first returned, no more.            *)
Rearranges == Closed(input) /\ Loose(nets) /\ SweptTo(nets, 0) /\ Members(nets) = Members(input)

RInv ==
  /\ SInv
  /\ pc \in {"low", "high"} => SweptTo(nets, level)
  /\ pc = "contain" => SweptTo(nets, 0)
  /\ pc = "probe" => Len(nets) <= swept /\ (Len(nets) = swept => SweptTo(nets, 0))
  /\ pc = "done" => Closed(nets)
  /\ calls = 2 => Rearranges
  /\ calls = 2 /\ pc \in {"call", "done"} => nets = input

LEMMA RFacts ==
  ASSUME RInv
  PROVE  /\ SInv /\ UInv /\ TypeOK
         /\ nets \in Seq(BiContiguous) /\ Len(nets) \in Nat /\ input \in Seq(BiContiguous)
         /\ swept \in Nat
<1>1. SInv /\ UInv
  BY DEF RInv, SInv
<1>2. TypeOK
  BY <1>1 DEF UInv
<1>3. nets \in Seq(BiContiguous) /\ Len(nets) \in Nat /\ input \in Seq(BiContiguous) /\ Len(input) \in Nat
  BY <1>1, UFacts, LenProperties
<1>4. swept \in Nat
  BY <1>2, <1>3 DEF TypeOK
<1> QED
  BY <1>1, <1>2, <1>3, <1>4

(* A sort, or nothing at all, keeps what the second call relies on.        *)
LEMMA RearrangesStill ==
  ASSUME RInv, calls = 2, UNCHANGED input, nets' \in Rearranged(nets) \cup {nets}
  PROVE  Rearranges'
<1>1. Rearranges /\ nets \in Seq(BiContiguous)
  BY RFacts DEF RInv
<1>2. Members(nets') = Members(nets) /\ Loose(nets')
  <2>1. CASE nets' = nets
    BY <1>1, <2>1 DEF Rearranges
  <2>2. CASE nets' \in Rearranged(nets)
    BY <1>1, <2>2, RearrangedMembers, LooseSort DEF Rearranges
  <2> QED
    BY <2>1, <2>2
<1>3. SweptTo(nets', 0)
  BY <1>1, <1>2, Zenon DEF Rearranges, SweptTo
<1>4. Closed(input') /\ Members(nets') = Members(input')
  BY <1>1, <1>2, Zenon DEF Rearranges
<1> QED
  BY <1>2, <1>3, <1>4 DEF Rearranges

(* A round begins by sorting.                                              *)
LEMMA RSweep ==
  ASSUME RInv, nets' \in SortedByLevel(nets), level' = HighW, pc' = "low",
         UNCHANGED <<input, block, shapes, kept, swept, calls>>
  PROVE  RInv'
<1>1. SInv'
  BY RFacts, SSweep
<1>2. SweptTo(nets', level')
  <2>1. \A p \in (HighW + 1) .. HighW : FALSE
    BY WidthAssumption
  <2> QED
    BY <2>1 DEF SweptTo
<1>3. calls' = 2 => Rearranges'
  BY RearrangesStill DEF SortedByLevel
<1> QED
  BY <1>1, <1>2, <1>3 DEF RInv

(* The rows of a level reduced.                                            *)
LEMMA RLow ==
  ASSUME RInv, LowRows
  PROVE  RInv'
<1> DEFINE m == HighMask(level)
           from == LowerBoundHighMask(nets, Len(nets) + 1, m)
           to == UpperBoundHighMask(nets, Len(nets) + 1, m)
           part == SubSeq(nets, from, to - 1)
           rows == AggregateLowRows[part]
           r == Replaced(nets, from, to, rows)
<1>1. nets' = r
  BY Zenon DEF LowRows, Splice, Replaced
<1>2. /\ pc = "low" /\ pc' = (IF level = 0 THEN "contain" ELSE "high") /\ level' = level
      /\ UNCHANGED <<input, calls>>
  BY DEF LowRows
<1>3. /\ SInv /\ level \in 0 .. HighW /\ HighAscends(nets) /\ nets \in Seq(BiContiguous)
      /\ SweptTo(nets, level)
  BY <1>2, RFacts DEF RInv, UInv, TypeOK
<1>4. SInv'
  BY <1>3, SLow
<1>5. m \in Word
  BY <1>3, LevelMaskIs
<1> HIDE DEF m
<1>6. Parted(nets, from, to, m)
  BY <1>3, <1>5, LevelIsParted
<1> HIDE DEF from, to
<1>7. /\ from \in 1 .. (Len(nets) + 1) /\ to \in from .. (Len(nets) + 1) /\ Len(nets) \in Nat
      /\ part \in Seq(AtLevel(m))
  BY <1>3, <1>6, LevelSlice, LenProperties DEF Parted
<1>8. /\ part \in Seq(BiContiguous) /\ Len(part) = to - from
      /\ \A i \in 1 .. (to - from) : part[i] = nets[from - 1 + i]
      /\ nets = Replaced(nets, from, to, part)
  BY <1>3, <1>7, PiecesAre DEF Replaced
<1> HIDE DEF part
<1>9. rows \in Seq(AtLevel(m))
  BY <1>7, LowRowsAre
<1>10. SweptTo(nets', level)
  <2> SUFFICES ASSUME NEW p \in (level + 1) .. HighW PROVE Unmatched(Members(nets'), p)
    BY DEF SweptTo
  <2>1. Unmatched(Members(nets), p)
    BY <1>3 DEF SweptTo
  <2> HIDE DEF rows
  <2>2. Unmatched(Members(Replaced(nets, from, to, rows)), p)
    BY <1>3, <1>6, <1>9, <2>1, LowRowsUnmatched DEF m
  <2> QED
    BY <1>1, <2>2, Zenon
<1>11. calls = 2 => nets' = nets
  <2> SUFFICES ASSUME calls = 2 PROVE r = nets
    BY <1>1
  <2>1. Loose(nets)
    BY DEF RInv, Rearranges
  <2>2. Loose(part)
    <3>1. from - 1 \in Nat /\ Len(part) \in Nat /\ from - 1 + Len(part) <= Len(nets)
      BY <1>7, <1>8
    <3> QED
      BY <1>7, <1>8, <2>1, <3>1, LooseRun
  <2>3. rows = part
    BY <1>8, <2>2, LowRowsStay
  <2> HIDE DEF rows
  <2> QED
    BY <1>8, <2>3, Zenon
<1>12. calls' = 2 => Rearranges'
  BY <1>2, <1>11, RearrangesStill
<1>13. pc' \in {"low", "high"} => SweptTo(nets', level')
  BY <1>2, <1>10
<1>14. pc' = "contain" => SweptTo(nets', 0)
  BY <1>2, <1>10
<1>15. pc' \in {"contain", "high"}
  BY <1>2
<1> HIDE DEF r
<1> QED
  BY <1>4, <1>12, <1>13, <1>14, <1>15 DEF RInv

(* Buddy rows merged, and what moved sorted again.                         *)
LEMMA RHigh ==
  ASSUME RInv, HighBuddies
  PROVE  RInv'
<1> DEFINE from == block[1]
           to == block[2]
           part == SubSeq(nets, from, to - 1)
           rows == MergeHighBuddies(part, level)
           next == Replaced(nets, from, to, rows)
           back == LowerBoundHighMask(next, from, HighMask(level - 1))
           end == from + Len(rows)
           New(t) == SubSeq(next, 1, back - 1) \o t \o SubSeq(next, end, Len(next))
<1>1. \/ end < to /\ \E t \in SortedByLevel(SubSeq(next, back, end - 1)) : nets' = New(t)
      \/ end = to /\ nets' = next
  BY Zenon DEF HighBuddies, Splice, Replaced
<1>2. pc = "high" /\ level' = level - 1 /\ pc' = "low" /\ UNCHANGED <<input, calls>>
  BY DEF HighBuddies
<1>3. /\ nets \in Seq(BiContiguous) /\ HighAscends(nets) /\ level \in 1 .. HighW /\ SInv
      /\ Parted(nets, from, to, HighMask(level)) /\ Neat(nets, From(HighMask(level)))
      /\ SweptTo(nets, level)
  BY <1>2, RFacts DEF RInv, SInv, UInv
<1>4. SInv'
  BY <1>3, SHigh
<1>5. end = to => next = nets
  BY <1>3, HighBuddiesKeep
<1>6. /\ next \in Seq(BiContiguous)
      /\ back \in 1 .. (Len(next) + 1) /\ end \in back .. (Len(next) + 1)
  <2>1. InPieces(nets, to, HighMask(level), HighMask(level - 1), rows, next, back, end)
    BY <1>3, HighBuddiesPieces
  <2> HIDE DEF from, to, rows, next, back, end
  <2> QED
    BY <2>1, Zenon DEF InPieces, Kept
<1>7. /\ Unmatched(Members(next), level)
      /\ \A p \in (level + 1) .. HighW : Unmatched(Members(nets), p) => Unmatched(Members(next), p)
      /\ Unmatched(Members(nets), level) => rows = part
  BY <1>3, HighBuddiesUnmatched
<1>8. Len(part) = to - from /\ from \in Nat /\ to \in Nat
  <2>1. from \in 1 .. (Len(nets) + 1) /\ to \in from .. (Len(nets) + 1) /\ Len(nets) \in Nat
    BY <1>3, LenProperties DEF Parted
  <2>2. Len(part) = to - from
    <3> HIDE DEF from, to
    <3> QED
      BY <1>3, <2>1, PiecesAre
  <2> QED
    BY <2>1, <2>2
<1> HIDE DEF from, to, part, rows, next, back
<1>9. Members(nets') = Members(next)
  <2>1. \A t \in SortedByLevel(SubSeq(next, back, end - 1)) : Members(New(t)) = Members(next)
    <3> HIDE DEF end
    <3> QED
      BY <1>6, MiddleMembers
  <2> HIDE DEF end, New
  <2> QED
    BY <1>1, <2>1
<1>10. SweptTo(nets', level')
  <2> SUFFICES ASSUME NEW p \in (level' + 1) .. HighW PROVE Unmatched(Members(nets'), p)
    BY DEF SweptTo
  <2>1. p = level \/ p \in (level + 1) .. HighW
    BY <1>2, <1>3, WidthAssumption
  <2>2. Unmatched(Members(next), p)
    <3>1. CASE p = level
      BY <1>7, <3>1
    <3>2. CASE p \in (level + 1) .. HighW
      BY <1>3, <1>7, <3>2 DEF SweptTo
    <3> QED
      BY <2>1, <3>1, <3>2
  <2> QED
    BY <1>9, <2>2, Zenon
<1>11. calls = 2 => nets' = nets
  <2> SUFFICES ASSUME calls = 2 PROVE nets' = nets
    OBVIOUS
  <2>1. SweptTo(nets, 0) /\ level \in (0 + 1) .. HighW
    BY <1>3 DEF RInv, Rearranges
  <2>2. Unmatched(Members(nets), level)
    BY <2>1 DEF SweptTo
  <2>3. rows = part
    BY <1>7, <2>2
  <2>4. end = to
    <3>1. Len(rows) = to - from
      BY <1>8, <2>3
    <3> QED
      BY <1>8, <3>1
  <2>5. ~(end < to)
    BY <1>8, <2>4
  <2> HIDE DEF end, New
  <2> QED
    BY <1>1, <1>5, <2>4, <2>5
<1>12. calls' = 2 => Rearranges'
  BY <1>2, <1>11, RearrangesStill
<1> HIDE DEF end, New
<1> QED
  BY <1>2, <1>4, <1>10, <1>12 DEF RInv

(* The sort by mask.                                                       *)
LEMMA RContain ==
  ASSUME RInv, BeginContainment
  PROVE  RInv'
<1>1. /\ nets' \in (IF Len(nets) <= 1 THEN {nets} ELSE SortedByMask(nets))
      /\ swept' = Len(nets) /\ pc' = "probe" /\ pc = "contain" /\ UNCHANGED <<input, calls>>
  BY DEF BeginContainment
<1>2. SInv /\ SweptTo(nets, 0) /\ nets \in Seq(BiContiguous) /\ Len(nets) \in Nat
  BY <1>1, RFacts DEF RInv
<1>3. SInv'
  BY <1>2, SContain
<1>4. nets' \in Rearranged(nets) \cup {nets}
  BY <1>1 DEF SortedByMask
<1>5. Members(nets') = Members(nets) /\ Len(nets') = Len(nets)
  <2>1. CASE nets' = nets
    BY <2>1
  <2>2. CASE nets' \in Rearranged(nets)
    BY <1>2, <2>2, RearrangedMembers, RearrangedIs
  <2> QED
    BY <1>4, <2>1, <2>2
<1>6. SweptTo(nets', 0)
  BY <1>2, <1>5, Zenon DEF SweptTo
<1>7. Len(nets') <= swept'
  BY <1>1, <1>2, <1>5
<1>8. calls' = 2 => Rearranges'
  BY <1>1, <1>4, RearrangesStill
<1> QED
  BY <1>1, <1>3, <1>6, <1>7, <1>8 DEF RInv

(* A chunk probed: when nothing is dropped the slice is as it was.         *)
LEMMA RProbe ==
  ASSUME RInv, ProbeChunk
  PROVE  RInv'
<1> DEFINE from == kept + 1
           to == ChunkEnd
           chunk == SubSeq(nets, from, to - 1)
           masks == AncestorMasks(nets[kept + 1].mask)
           t == Survivors(chunk, masks)
           r == Replaced(nets, from, to, t)
<1>1. nets' = r
  BY Zenon DEF ProbeChunk, Splice, Replaced
<1>2. pc = "probe" /\ kept < Len(nets) /\ UNCHANGED <<input, swept, calls, pc>>
  BY DEF ProbeChunk
<1>3. /\ SInv /\ nets \in Seq(BiContiguous) /\ Len(nets) \in Nat /\ swept \in Nat
      /\ Len(nets) <= swept /\ (Len(nets) = swept => SweptTo(nets, 0))
  BY <1>2, RFacts DEF RInv
<1>4. SInv'
  BY <1>3, SProbe
<1>5. Sorted /\ shapes \subseteq Word
  <2>1. /\ MaskAscends(nets) /\ kept <= Len(nets) /\ kept \in 0 .. Len(input) /\ shapes \subseteq Word
        /\ Len(input) \in Nat
    BY <1>2, RFacts, LenProperties DEF SInv, UInv, TypeOK
  <2>2. kept \in 0 .. Len(nets)
    BY <1>3, <2>1
  <2> QED
    BY <1>3, <2>1, <2>2 DEF Sorted
<1>6. kept \in Nat /\ to \in (kept + 2) .. (Len(nets) + 1)
  <2>1. kept \in Nat
    BY <1>5, <1>3 DEF Sorted
  <2> QED
    BY <1>2, <1>3, <2>1, ChunkIs
<1> HIDE DEF to
<1>7. from \in 1 .. (Len(nets) + 1) /\ to \in from .. (Len(nets) + 1)
  BY <1>2, <1>3, <1>6
<1>8. /\ chunk \in Seq(BiContiguous) /\ Len(chunk) = to - from
      /\ SubSeq(nets, 1, from - 1) \in Seq(BiContiguous) /\ Len(SubSeq(nets, 1, from - 1)) = from - 1
      /\ SubSeq(nets, to, Len(nets)) \in Seq(BiContiguous)
      /\ Len(SubSeq(nets, to, Len(nets))) = Len(nets) + 1 - to
      /\ nets = SubSeq(nets, 1, from - 1) \o chunk \o SubSeq(nets, to, Len(nets))
  <2> HIDE DEF from
  <2> QED
    BY <1>3, <1>7, PiecesAre
<1>9. t = chunk => nets' = nets
  <2> HIDE DEF chunk, t, from
  <2> QED
    BY <1>1, <1>8, Zenon DEF Replaced
<1>10. Loose(nets) => t = chunk
  <2> DEFINE c == SubSeq(nets, kept + 1, ChunkEnd - 1)
  <2>1. chunk = c
    BY DEF to
  <2> HIDE DEF c
  <2>2. c = SubSeq(nets, kept + 1, ChunkEnd - 1)
    BY DEF c
  <2>3. Loose(nets) => Survivors(c, masks) = c
    BY <1>2, <1>5, <2>2, NoneDropped
  <2> HIDE DEF chunk, masks
  <2> QED
    BY <2>1, <2>3, Zenon
<1>11. t \in Seq(BiContiguous) /\ Len(t) <= Len(chunk) /\ (Len(t) = Len(chunk) => t = chunk)
  <2> HIDE DEF chunk, masks
  <2> QED
    BY <1>8, SurvivorsAre, SurvivorsStay
<1>12. Len(nets') = (from - 1) + Len(t) + (Len(nets) + 1 - to) /\ Len(t) \in Nat
  <2> DEFINE a == SubSeq(nets, 1, from - 1)
             c == SubSeq(nets, to, Len(nets))
  <2>1. nets' = a \o t \o c
    BY <1>1, Zenon DEF Replaced
  <2> HIDE DEF a, c, t, chunk, from
  <2>2. Len(a \o t \o c) = Len(a) + Len(t) + Len(c)
    BY <1>8, <1>11, JoinIs DEF a, c
  <2>3. Len(a) = from - 1 /\ Len(c) = Len(nets) + 1 - to
    BY <1>8 DEF a, c
  <2> QED
    BY <1>11, <2>1, <2>2, <2>3, LenProperties
<1> HIDE DEF t, chunk, masks
<1>13. /\ Len(nets') <= Len(nets)
       /\ Len(nets') = Len(nets) => nets' = nets
  <2>1. Len(nets') = (from - 1) + Len(t) + (Len(nets) + 1 - to)
    BY <1>12
  <2>2. /\ Len(t) \in Nat /\ Len(t) <= to - from /\ Len(nets) \in Nat /\ from \in Nat /\ to \in Nat
        /\ (Len(t) = to - from => nets' = nets)
    BY <1>3, <1>6, <1>7, <1>8, <1>9, <1>11, <1>12
  <2> HIDE DEF from, r
  <2> QED
    BY <2>1, <2>2
<1>14. Len(nets') <= swept' /\ (Len(nets') = swept' => SweptTo(nets', 0))
  <2>1. Len(nets') <= Len(nets) /\ Len(nets') \in Nat
    BY <1>13, <1>4, UFacts, <1>12, <1>8, <1>3, <1>6
  <2>2. swept' = swept
    BY <1>2
  <2> HIDE DEF r
  <2>3. Len(nets') <= swept'
    BY <1>3, <2>1, <2>2
  <2>4. ASSUME Len(nets') = swept' PROVE SweptTo(nets', 0)
    BY <1>3, <2>1, <2>2, <2>4, <1>13
  <2> QED
    BY <2>3, <2>4
<1>15. calls = 2 => nets' = nets
  BY <1>9, <1>10 DEF RInv, Rearranges
<1>16. calls' = 2 => Rearranges'
  BY <1>2, <1>15, RearrangesStill
<1> HIDE DEF r
<1> QED
  BY <1>2, <1>4, <1>14, <1>16 DEF RInv

(* Nothing was dropped: the slice is what the sweep left.                  *)
LEMMA RReturn ==
  ASSUME RInv, Return
  PROVE  RInv'
<1>1. /\ pc = "probe" /\ pc' = "done" /\ kept = Len(nets) /\ kept = swept
      /\ UNCHANGED <<input, nets, level, block, shapes, kept, swept, calls>>
  BY DEF Return
<1>2. /\ SInv /\ nets \in Seq(BiContiguous) /\ SweptTo(nets, 0) /\ input \in Seq(BiContiguous)
      /\ Probed(nets, kept, shapes)
  <2>1. SInv /\ nets \in Seq(BiContiguous) /\ input \in Seq(BiContiguous)
    BY RFacts
  <2>2. Len(nets) = swept
    BY <1>1
  <2>3. SweptTo(nets, 0)
    BY <1>1, <2>2 DEF RInv
  <2>4. Probed(nets, kept, shapes)
    BY <1>1, <2>1 DEF SInv
  <2> QED
    BY <2>1, <2>3, <2>4
<1>3. SInv'
  <2>1. [Next]_vars
    BY DEF Next
  <2> QED
    BY <1>2, <2>1, SStep
<1>4. Closed(nets)
  <2>1. \A p \in 1 .. HighW : Unmatched(Members(nets), p)
    <3>1. 0 + 1 = 1
      OBVIOUS
    <3> QED
      BY <1>2, <3>1 DEF SweptTo
  <2>2. /\ Chained(nets, Earlier) /\ Chained(nets, Separate(Word))
        /\ \A i, j \in 1 .. Len(nets) : i # j => ~Contains(nets[i], nets[j])
    BY <1>1, <1>2 DEF Probed
  <2>3. Loose(nets)
    BY <1>2, <2>1, <2>2, ApartIsLoose
  <2> QED
    BY <1>2, <2>2, <2>3 DEF Closed
<1>5. Closed(nets')
  BY <1>1, <1>4, Zenon
<1>6. ASSUME calls = 2 PROVE nets = input
  <2>1. Closed(input) /\ Members(nets) = Members(input)
    BY <1>6 DEF RInv, Rearranges
  <2> QED
    BY <1>2, <1>4, <2>1, SameOrder DEF Closed
<1>7. calls' = 2 => Rearranges' /\ nets' = input'
  <2>1. ASSUME calls = 2 PROVE Rearranges'
    BY <1>1, <2>1, RearrangesStill
  <2> QED
    BY <1>1, <1>6, <2>1
<1> QED
  BY <1>1, <1>3, <1>5, <1>7 DEF RInv

(* One network at most is returned as it is.                               *)
LEMMA RShort ==
  ASSUME RInv, ReturnShort
  PROVE  RInv'
<1>1. /\ pc = "call" /\ pc' = "done" /\ Len(nets) <= 1
      /\ UNCHANGED <<input, nets, level, block, shapes, swept, calls>>
  BY DEF ReturnShort
<1>2. SInv /\ nets \in Seq(BiContiguous) /\ Len(nets) \in Nat
  BY RFacts
<1>3. SInv'
  <2>1. [Next]_vars
    BY DEF Next
  <2> QED
    BY <1>2, <2>1, SStep
<1>4. Closed(nets)
  <2>1. \A i, j \in 1 .. Len(nets) : i = j
    BY <1>1, <1>2
  <2>2. \A i, j \in 1 .. Len(nets) : ~(i < j)
    BY <2>1
  <2>3. Chained(nets, Earlier) /\ Loose(nets)
    BY <2>1, <2>2 DEF Chained, Loose
  <2>4. \A p \in 1 .. HighW : Unmatched(Members(nets), p)
    BY <1>1, <1>2, OneIsUnmatched
  <2>5. 0 + 1 = 1
    OBVIOUS
  <2>6. SweptTo(nets, 0)
    BY <2>4, <2>5 DEF SweptTo
  <2> QED
    BY <2>3, <2>6 DEF Closed
<1>5. Closed(nets')
  BY <1>1, <1>4, Zenon
<1>6. calls' = 2 => Rearranges' /\ nets' = input'
  <2>1. ASSUME calls = 2 PROVE Rearranges' /\ nets = input
    <3>1. Rearranges'
      BY <1>1, <2>1, RearrangesStill
    <3>2. nets = input
      BY <1>1, <2>1 DEF RInv
    <3> QED
      BY <3>1, <3>2
  <2> QED
    BY <1>1, <2>1
<1> QED
  BY <1>1, <1>3, <1>5, <1>6 DEF RInv

(* The result is passed in again.                                          *)
LEMMA RAgain ==
  ASSUME RInv, CallAgain
  PROVE  RInv'
<1>1. /\ pc = "done" /\ calls = 1 /\ input' = nets /\ nets' = nets /\ calls' = 2 /\ pc' = "call"
  BY DEF CallAgain
<1>2. SInv /\ Closed(nets)
  BY <1>1, RFacts DEF RInv
<1>3. SInv'
  <2>1. [Next]_vars
    BY DEF Next
  <2> QED
    BY <1>2, <2>1, SStep
<1>4. Closed(input') /\ Closed(nets') /\ Members(nets') = Members(input')
  BY <1>1, <1>2, Zenon
<1>5. Rearranges'
  BY <1>4 DEF Rearranges, Closed
<1> QED
  BY <1>1, <1>3, <1>5 DEF RInv

(* Every step keeps the invariant.                                         *)
LEMMA RStep == RInv /\ [Next]_vars => RInv'
<1> SUFFICES ASSUME RInv, [Next]_vars PROVE RInv'
  OBVIOUS
<1>1. CASE ReturnShort
  BY <1>1, RShort
<1>2. CASE BeginSweep
  BY <1>2, RSweep DEF BeginSweep
<1>3. CASE LowRows
  BY <1>3, RLow
<1>4. CASE HighBuddies
  BY <1>4, RHigh
<1>5. CASE BeginContainment
  BY <1>5, RContain
<1>6. CASE ProbeChunk
  BY <1>6, RProbe
<1>7. CASE Return
  BY <1>7, RReturn
<1>8. CASE Repeat
  BY <1>8, RSweep DEF Repeat
<1>9. CASE CallAgain
  BY <1>9, RAgain
<1>10. CASE UNCHANGED vars
  <2>1. SInv'
    BY RFacts, SStep
  <2>2. UNCHANGED <<input, nets, level, swept, calls, pc>>
    BY <1>10 DEF vars
  <2>3. calls = 2 => Rearranges'
    BY <2>2, RearrangesStill
  <2>4. /\ SweptTo(nets, level) => SweptTo(nets', level')
        /\ SweptTo(nets, 0) => SweptTo(nets', 0)
        /\ Closed(nets) => Closed(nets')
    BY <2>2, Zenon
  <2> QED
    BY <2>1, <2>2, <2>3, <2>4 DEF RInv
<1> QED
  BY <1>1, <1>2, <1>3, <1>4, <1>5, <1>6, <1>7, <1>8, <1>9, <1>10 DEF Next

(* What the function returns is closed under its three rewrites after one  *)
(* call: no network of the result contains another, no two are buddies by  *)
(* their lowest mask bit, no two buddy rows are equal, and it is in (mask, *)
(* address) order; the second call returns the slice it is given           *)
(* (aggregate.go:203).                                                     *)
THEOREM ResultIsClosed == Spec => []ResultClosed
<1>1. ASSUME RInv PROVE ResultClosed
  <2> SUFFICES ASSUME pc = "done"
               PROVE  /\ NoneMerge(nets) /\ EqualBuddies(nets) = {} /\ IsSorted(nets, MaskAddressKey)
                      /\ calls = 2 => nets = input
    BY DEF ResultClosed
  <2>1. /\ nets \in Seq(BiContiguous) /\ DOMAIN nets = 1 .. Len(nets)
        /\ Closed(nets) /\ (calls = 2 => nets = input)
    BY <1>1, RFacts, LenProperties DEF RInv
  <2>2. NoneMerge(nets)
    BY <2>1 DEF NoneMerge, Closed, Loose
  <2>3. EqualBuddies(nets) = {}
    BY <2>1, NoEqualBuddies DEF Closed, SweptTo
  <2>4. \A i, j \in DOMAIN nets : i < j => KeyBefore(MaskAddressKey(nets[i]), MaskAddressKey(nets[j]))
    BY <2>1 DEF Closed, Chained, Earlier
  <2>5. IsSorted(nets, MaskAddressKey)
    BY <2>4 DEF IsSorted
  <2> QED
    BY <2>1, <2>2, <2>3, <2>5
<1>2. Init => RInv
  <2>1. ASSUME Init PROVE pc = "call" /\ calls = 1
    BY <2>1 DEF Init
  <2>2. ASSUME Init PROVE SInv
    BY <2>1, <2>2, UInit DEF SInv
  <2> QED
    BY <2>1, <2>2 DEF RInv
<1> QED
  BY <1>1, <1>2, RStep, PTL DEF Spec
=============================================================================
