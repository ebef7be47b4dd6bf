--------------------------- MODULE SequenceLemmas ---------------------------
(***************************************************************************)
(* Lemmas about the sequence operators of the models.  The induction over  *)
(* the length of a sequence is InductionUpto, for a set of indices.        *)
(***************************************************************************)
EXTENDS SeqKeep, SequencesExt, SequenceTheorems, WellFoundedInduction, TLAPS

\* What Append does to the set of the entries.
LEMMA AppendSet ==
    ASSUME NEW T, NEW q \in Seq(T), NEW e \in T
    PROVE  ToSet(Append(q, e)) = ToSet(q) \cup {e}
<1>1. Len(q) \in Nat /\ DOMAIN q = 1..Len(q) /\ DOMAIN Append(q, e) = 1..(Len(q) + 1)
  OBVIOUS
<1>2. \A x : x \in ToSet(Append(q, e)) <=> x \in ToSet(q) \cup {e}
  <2>1. ASSUME NEW i \in 1..(Len(q) + 1)
        PROVE  Append(q, e)[i] = IF i = Len(q) + 1 THEN e ELSE q[i]
    BY <1>1
  <2>2. \A i \in 1..(Len(q) + 1) : i = Len(q) + 1 \/ i \in 1..Len(q)
    BY <1>1
  <2>3. Len(q) + 1 \in 1..(Len(q) + 1) /\ \A i \in 1..Len(q) : i \in 1..(Len(q) + 1) /\ i # Len(q) + 1
    BY <1>1
  <2> QED
    BY <1>1, <2>1, <2>2, <2>3 DEF ToSet
<1> QED
  BY <1>2

LEMMA PrependSet ==
    ASSUME NEW T, NEW q \in Seq(T), NEW e \in T
    PROVE  <<e>> \o q \in Seq(T) /\ ToSet(<<e>> \o q) = {e} \cup ToSet(q)
<1> DEFINE r == <<e>> \o q
<1>1. /\ Len(q) \in Nat /\ DOMAIN q = 1..Len(q) /\ DOMAIN r = 1..(Len(q) + 1)
      /\ \A i \in 1..Len(q) : q[i] \in T
  OBVIOUS
<1>2. r \in Seq(T)
  OBVIOUS
<1>3. ASSUME NEW i \in 1..(Len(q) + 1)
      PROVE  r[i] = IF i = 1 THEN e ELSE q[i - 1]
  BY <1>1
<1> HIDE DEF r
<1>4. \A x : x \in ToSet(r) <=> x \in {e} \cup ToSet(q)
  <2>1. \A i \in 1..(Len(q) + 1) : i = 1 \/ i - 1 \in 1..Len(q)
    BY <1>1
  <2>2. ASSUME NEW x \in ToSet(q) PROVE x \in ToSet(r)
    <3>1. PICK i \in 1..Len(q) : x = q[i]
      BY <1>1 DEF ToSet
    <3>2. i + 1 \in 1..(Len(q) + 1) /\ i + 1 # 1 /\ (i + 1) - 1 = i
      BY <1>1
    <3> QED
      BY <1>1, <1>3, <3>1, <3>2 DEF ToSet
  <2>3. 1 \in 1..(Len(q) + 1)
    BY <1>1
  <2>4. e \in ToSet(r)
    BY <1>1, <1>3, <2>3 DEF ToSet
  <2>5. ASSUME NEW x \in ToSet(r) PROVE x \in {e} \cup ToSet(q)
    BY <1>1, <1>3, <2>1 DEF ToSet
  <2> QED
    BY <2>2, <2>4, <2>5
<1>5. ToSet(r) = {e} \cup ToSet(q)
  BY <1>4
<1> QED
  BY <1>2, <1>5 DEF r

\* A sequence is what is before an entry, the entry, and what is behind it.
LEMMA SliceSet ==
    ASSUME NEW T, NEW q \in Seq(T), NEW k \in 1..Len(q)
    PROVE  /\ q[k] \in T /\ SubSeq(q, k + 1, Len(q)) \in Seq(T)
           /\ ToSet(q) = ToSet(SubSeq(q, 1, k - 1)) \cup {q[k]} \cup ToSet(SubSeq(q, k + 1, Len(q)))
<1> DEFINE f == SubSeq(q, 1, k - 1)
           b == SubSeq(q, k + 1, Len(q))
<1>1. Len(q) \in Nat /\ k \in Int /\ DOMAIN q = 1..Len(q) /\ \A i \in 1..Len(q) : q[i] \in T
  OBVIOUS
<1>2. f \in Seq(T) /\ Len(f) = k - 1 /\ \A i \in 1..(k - 1) : f[i] = q[i]
  BY <1>1, SubSeqProperties
<1>3. b \in Seq(T) /\ Len(b) = Len(q) - k /\ \A i \in 1..(Len(q) - k) : b[i] = q[k + i]
  <2>1. k + 1 \in Int /\ Len(q) \in Int /\ \A i \in (k + 1)..Len(q) : q[i] \in T
    BY <1>1
  <2>2. /\ b \in Seq(T)
        /\ Len(b) = IF k + 1 <= Len(q) THEN Len(q) - (k + 1) + 1 ELSE 0
        /\ \A i \in 1..(Len(q) - (k + 1) + 1) : b[i] = q[(k + 1) + i - 1]
    BY <2>1, SubSeqProperties
  <2>3. \A i \in 1..(Len(q) - k) : i \in 1..(Len(q) - (k + 1) + 1) /\ (k + 1) + i - 1 = k + i
    BY <1>1
  <2> HIDE DEF f, b
  <2>4. Len(b) = Len(q) - k
    <3>1. k <= Len(q) /\ k \in Nat /\ Len(q) \in Nat
      BY <1>1
    <3>5. \A x, y \in Nat : x <= y => x = y \/ x + 1 <= y
      OBVIOUS
    <3>2. k = Len(q) \/ k + 1 <= Len(q)
      BY <3>1, <3>5
    <3>3. CASE k + 1 <= Len(q)
      <4>1. Len(b) = Len(q) - (k + 1) + 1
        BY <2>2, <3>3
      <4> QED
        BY <1>1, <3>1, <4>1
    <3>4. CASE k = Len(q)
      <4>1. ~(k + 1 <= Len(q))
        BY <1>1, <3>1, <3>4
      <4>2. Len(b) = 0
        BY <2>2, <4>1, Zenon
      <4> QED
        BY <1>1, <3>1, <3>4, <4>2
    <3> QED
      BY <3>2, <3>3, <3>4
  <2>5. ASSUME NEW i \in 1..(Len(q) - k) PROVE b[i] = q[k + i]
    BY <2>2, <2>3
  <2> QED
    BY <2>2, <2>4, <2>5
<1> HIDE DEF f, b
<1>4. DOMAIN f = 1..(k - 1) /\ DOMAIN b = 1..(Len(q) - k)
  BY <1>2, <1>3
<1>5. \A i \in 1..Len(q) : i \in 1..(k - 1) \/ i = k \/ (i - k \in 1..(Len(q) - k) /\ k + (i - k) = i)
  BY <1>1
<1>6. /\ \A i \in 1..(k - 1) : i \in 1..Len(q)
      /\ \A i \in 1..(Len(q) - k) : k + i \in 1..Len(q)
  BY <1>1
<1>7. ASSUME NEW x \in ToSet(q) PROVE x \in ToSet(f) \cup {q[k]} \cup ToSet(b)
  <2>1. PICK i \in 1..Len(q) : x = q[i]
    BY <1>1 DEF ToSet
  <2>2. CASE i \in 1..(k - 1)
    BY <1>2, <1>4, <2>1, <2>2 DEF ToSet
  <2>3. CASE i - k \in 1..(Len(q) - k) /\ k + (i - k) = i
    BY <1>3, <1>4, <2>1, <2>3 DEF ToSet
  <2> QED
    BY <1>5, <2>1, <2>2, <2>3
<1>8. ASSUME NEW x \in ToSet(f) \cup {q[k]} \cup ToSet(b) PROVE x \in ToSet(q)
  <2>1. CASE x \in ToSet(f)
    BY <1>1, <1>2, <1>4, <1>6, <2>1 DEF ToSet
  <2>2. CASE x \in ToSet(b)
    BY <1>1, <1>3, <1>4, <1>6, <2>2 DEF ToSet
  <2>3. CASE x = q[k]
    BY <1>1, <2>3 DEF ToSet
  <2> QED
    BY <2>1, <2>2, <2>3
<1>9. ToSet(q) = ToSet(f) \cup {q[k]} \cup ToSet(b)
  BY <1>7, <1>8
<1> QED
  BY <1>1, <1>3, <1>9 DEF f, b

\* A sequence is its head and its tail.
LEMMA HeadTailSet ==
    ASSUME NEW T, NEW q \in Seq(T), q # <<>>
    PROVE  /\ Head(q) \in T /\ Tail(q) \in Seq(T)
           /\ ToSet(q) = {Head(q)} \cup ToSet(Tail(q))
           /\ IsInjective(q) => IsInjective(Tail(q)) /\ Head(q) \notin ToSet(Tail(q))
<1> DEFINE r == Tail(q)
<1>1. /\ Len(q) \in Nat /\ Len(q) >= 1 /\ DOMAIN q = 1..Len(q) /\ Head(q) = q[1]
      /\ r \in Seq(T) /\ DOMAIN r = 1..(Len(q) - 1) /\ \A k \in 1..Len(q) : q[k] \in T
  OBVIOUS
<1>2. \A k \in 1..(Len(q) - 1) : r[k] = q[k + 1]
  BY <1>1
<1> HIDE DEF r
<1>3. 1 \in 1..Len(q) /\ \A k \in 1..Len(q) : k = 1 \/ (k - 1 \in 1..(Len(q) - 1) /\ (k - 1) + 1 = k)
  BY <1>1
<1>4. \A k \in 1..(Len(q) - 1) : k + 1 \in 1..Len(q) /\ k + 1 # 1
  BY <1>1
<1>5. \A x : x \in ToSet(q) <=> x \in {q[1]} \cup ToSet(r)
  <2>1. ASSUME NEW x \in ToSet(q) PROVE x \in {q[1]} \cup ToSet(r)
    <3>1. PICK k \in 1..Len(q) : x = q[k]
      BY <1>1 DEF ToSet
    <3>2. CASE k # 1
      <4>1. x = r[k - 1] /\ k - 1 \in DOMAIN r
        BY <1>1, <1>2, <1>3, <3>1, <3>2
      <4> QED
        BY <4>1 DEF ToSet
    <3> QED
      BY <3>1, <3>2
  <2>2. ASSUME NEW x \in {q[1]} \cup ToSet(r) PROVE x \in ToSet(q)
    BY <1>1, <1>2, <1>3, <1>4 DEF ToSet
  <2> QED
    BY <2>1, <2>2
<1>6. ASSUME IsInjective(q) PROVE IsInjective(r) /\ q[1] \notin ToSet(r)
  <2>1. \A i, k \in 1..Len(q) : q[i] = q[k] => i = k
    BY <1>1, <1>6 DEF IsInjective
  <2>2. ASSUME NEW i \in 1..(Len(q) - 1), NEW k \in 1..(Len(q) - 1), r[i] = r[k] PROVE i = k
    <3>1. i + 1 = k + 1
      BY <1>2, <1>4, <2>1, <2>2
    <3> QED
      BY <3>1
  <2>3. IsInjective(r)
    BY <1>1, <2>2 DEF IsInjective
  <2>4. q[1] \notin ToSet(r)
    BY <1>1, <1>2, <1>3, <1>4, <2>1 DEF ToSet
  <2> QED
    BY <2>3, <2>4
<1>7. ToSet(q) = {q[1]} \cup ToSet(r)
  BY <1>5
<1>8. q[1] \in T
  BY <1>1, <1>3
<1> QED
  BY <1>1, <1>6, <1>7, <1>8 DEF r

\* The first k entries.
LEMMA PrefixSet ==
    ASSUME NEW T, NEW q \in Seq(T), NEW k \in 0..Len(q)
    PROVE  /\ SubSeq(q, 1, k) \in Seq(T) /\ ToSet(SubSeq(q, 1, k)) \subseteq ToSet(q)
           /\ IsInjective(q) => IsInjective(SubSeq(q, 1, k))
<1> DEFINE f == SubSeq(q, 1, k)
<1>1. Len(q) \in Nat /\ DOMAIN q = 1..Len(q) /\ \A i \in 1..Len(q) : q[i] \in T
  OBVIOUS
<1>2. f \in Seq(T) /\ Len(f) = k /\ \A i \in 1..k : f[i] = q[i]
  <2>1. \A i \in 1..k : q[i] \in T
    BY <1>1
  <2>2. f \in Seq(T) /\ Len(f) = (IF 1 <= k THEN k - 1 + 1 ELSE 0) /\ \A i \in 1..(k - 1 + 1) : f[i] = q[1 + i - 1]
    BY <1>1, <2>1, SubSeqProperties
  <2> HIDE DEF f
  <2>3. (IF 1 <= k THEN k - 1 + 1 ELSE 0) = k /\ k - 1 + 1 = k /\ \A i \in 1..k : 1 + i - 1 = i
    BY <1>1
  <2> QED
    BY <2>2, <2>3
<1>3. DOMAIN f = 1..k /\ \A i \in 1..k : i \in 1..Len(q)
  BY <1>1, <1>2
<1> HIDE DEF f
<1>4. ToSet(f) \subseteq ToSet(q)
  BY <1>1, <1>2, <1>3 DEF ToSet
<1>5. IsInjective(q) => IsInjective(f)
  BY <1>1, <1>2, <1>3 DEF IsInjective
<1> QED
  BY <1>2, <1>4, <1>5 DEF f

\* A set of natural numbers has a smallest member.
LEMMA SmallestMember ==
    ASSUME NEW B, B \subseteq Nat, B # {}
    PROVE  \E m \in B : \A k \in B : m <= k
<1> DEFINE R == OpToRel(<, Nat)
<1>1. IsWellFoundedOn(R, Nat)
  BY NatLessThanWellFounded
<1>2. \A k, m \in Nat : k < m => <<k, m>> \in R
  BY DEF OpToRel
<1> HIDE DEF R
<1>3. PICK m \in B : \A k \in B : <<k, m>> \notin R
  BY <1>1, WFMin
<1>4. ASSUME NEW k \in B PROVE m <= k
  <2>1. k \in Nat /\ m \in Nat
    OBVIOUS
  <2>2. ~(k < m)
    BY <1>2, <1>3, <2>1
  <2> QED
    BY <2>1, <2>2
<1> QED
  BY <1>4

\* Induction over 0..n, for the set of the numbers that have a property.
LEMMA InductionUpto ==
    ASSUME NEW n \in Nat, NEW B, 0 \in B, \A i \in 1..n : i - 1 \in B => i \in B
    PROVE  0..n \subseteq B
<1> DEFINE Bad == (0..n) \ B
<1>1. SUFFICES ASSUME Bad # {} PROVE FALSE
  OBVIOUS
<1>2. PICK m \in Bad : \A k \in Bad : m <= k
  <2>1. Bad \subseteq Nat
    OBVIOUS
  <2> HIDE DEF Bad
  <2> QED
    BY <1>1, <2>1, SmallestMember
<1>3. m \in 1..n /\ m - 1 \in 0..n /\ ~(m <= m - 1)
  OBVIOUS
<1>4. m - 1 \in B
  BY <1>2, <1>3
<1> QED
  BY <1>3, <1>4

\* g is the function on 0..n that starts with x0 and makes the steps.
Recursion(g, X, n, x0, step) ==
    /\ g \in [0..n -> X] /\ g[0] = x0
    /\ \A i \in 1..n : g[i] = step[i][g[i - 1]]

\* A recursion over 0..n whose steps stay in X defines a function into X.
LEMMA RecursionExists ==
    ASSUME NEW X, NEW n \in Nat, NEW x0 \in X, NEW step \in [1..n -> [X -> X]]
    PROVE  \E g : Recursion(g, X, n, x0, step)
<1> DEFINE Upto(m, g) == g[0] = x0 /\ \A i \in 1..m : g[i] = step[i][g[i - 1]]
           Good == {m \in 0..n : \E g \in [0..m -> X] : Upto(m, g)}
<1>1. 0 \in Good
  <2> DEFINE g == [i \in 0..0 |-> x0]
  <2>1. g \in [0..0 -> X] /\ Upto(0, g)
    OBVIOUS
  <2>2. 0 \in 0..n
    OBVIOUS
  <2> HIDE DEF g, Upto
  <2> QED
    BY <2>1, <2>2
<1>2. ASSUME NEW m \in 1..n, m - 1 \in Good PROVE m \in Good
  <2>1. PICK h \in [0..(m - 1) -> X] : Upto(m - 1, h)
    BY <1>2
  <2> DEFINE g == [i \in 0..m |-> IF i = m THEN step[m][h[m - 1]] ELSE h[i]]
  <2>2. h[m - 1] \in X
    BY <2>1
  <2>3. g \in [0..m -> X]
    BY <2>2
  <2>4. Upto(m, g)
    <3>1. g[0] = x0
      BY <2>1
    <3>2. ASSUME NEW i \in 1..m PROVE g[i] = step[i][g[i - 1]]
      <4>1. CASE i = m
        <5>1. m \in 0..m /\ m - 1 \in 0..m /\ m - 1 # m
          OBVIOUS
        <5>2. g[m] = step[m][h[m - 1]] /\ g[m - 1] = h[m - 1]
          BY <5>1
        <5> QED
          BY <4>1, <5>2
      <4>2. CASE i # m
        <5>1. i \in 1..(m - 1) /\ i \in 0..m /\ i - 1 \in 0..m /\ i - 1 # m
          BY <4>2
        <5> QED
          BY <2>1, <4>2, <5>1
      <4> QED
        BY <4>1, <4>2
    <3> QED
      BY <3>1, <3>2
  <2>5. m \in 0..n
    OBVIOUS
  <2> HIDE DEF g, Upto
  <2> QED
    BY <2>3, <2>4, <2>5
<1> HIDE DEF Good
<1>3. 0..n \subseteq Good
  BY <1>1, <1>2, InductionUpto
<1>4. n \in Good
  BY <1>3
<1> QED
  BY <1>4 DEF Recursion, Good

-----------------------------------------------------------------------------
(* Keep.                                                                   *)

\* g[i] is what the loop of Keep has gathered after i entries of q.
Gathers(g, T, q, S) ==
    /\ g \in [0..Len(q) -> Seq(T \cap S)] /\ g[0] = <<>>
    /\ \A i \in 1..Len(q) :
          g[i] = IF q[i] \in S THEN Append(g[i - 1], q[i]) ELSE g[i - 1]
    /\ Keep(q, S) = g[Len(q)]

LEMMA KeepSteps ==
    ASSUME NEW T, NEW q \in Seq(T), NEW S
    PROVE  \E g : Gathers(g, T, q, S)
<1> DEFINE len == Len(q)
           Out == Seq(T \cap S)
           adds == [i \in 1..len |-> [s \in Out |-> IF q[i] \in S THEN Append(s, q[i]) ELSE s]]
<1>1. len \in Nat /\ \A i \in 1..len : q[i] \in T
  OBVIOUS
<1>2. <<>> \in Out
  OBVIOUS
<1>3. adds \in [1..len -> [Out -> Out]]
  <2> SUFFICES ASSUME NEW i \in 1..len, NEW s \in Out
               PROVE  (IF q[i] \in S THEN Append(s, q[i]) ELSE s) \in Out
    OBVIOUS
  <2>1. q[i] \in S => Append(s, q[i]) \in Out
    BY <1>1, AppendProperties
  <2> QED
    BY <2>1
<1>4. \A i \in 1..len, s \in Out :
         adds[i][s] = IF q[i] \in S THEN Append(s, q[i]) ELSE s
  OBVIOUS
<1> HIDE DEF adds, Out, len
<1>5. PICK g \in [0..len -> Out] : g[0] = <<>> /\ \A i \in 1..len : g[i] = adds[i][g[i - 1]]
  <2>1. len \in Nat
    BY <1>1
  <2>2. PICK g : Recursion(g, Out, len, <<>>, adds)
    BY <1>2, <1>3, <2>1, RecursionExists
  <2> QED
    BY <2>2 DEF Recursion
<1>6. \A i \in 1..len : g[i] = IF q[i] \in S THEN Append(g[i - 1], q[i]) ELSE g[i - 1]
  <2> SUFFICES ASSUME NEW i \in 1..len
               PROVE  g[i] = IF q[i] \in S THEN Append(g[i - 1], q[i]) ELSE g[i - 1]
    OBVIOUS
  <2>1. g[i - 1] \in Out
    BY <1>1
  <2> QED
    BY <1>4, <1>5, <2>1
<1> DEFINE Rec(f) == f = [i \in 0..len |-> IF i = 0 THEN <<>>
                                        ELSE IF q[i] \in S THEN Append(f[i - 1], q[i])
                                        ELSE f[i - 1]]
           kept == CHOOSE f : Rec(f)
<1>7. Rec(g)
  <2>1. \A i \in 0..len : i # 0 => i \in 1..len
    BY <1>1
  <2> QED
    BY <1>5, <1>6, <2>1
<1>8. Rec(kept)
  BY <1>7
<1> HIDE DEF kept
<1>9. \A i \in 0..len : kept[i] = g[i]
  <2> DEFINE Same == {i \in 0..len : kept[i] = g[i]}
  <2>1. 0 \in Same
    BY <1>1, <1>5, <1>8
  <2>2. ASSUME NEW i \in 1..len, i - 1 \in Same PROVE i \in Same
    <3>1. i \in 0..len /\ i # 0 /\ kept[i - 1] = g[i - 1]
      BY <1>1, <2>2
    <3>2. kept[i] = IF q[i] \in S THEN Append(kept[i - 1], q[i]) ELSE kept[i - 1]
      BY <1>8, <3>1
    <3> QED
      BY <1>6, <3>1, <3>2
  <2> HIDE DEF Same
  <2>3. 0..len \subseteq Same
    BY <1>1, <2>1, <2>2, InductionUpto
  <2> QED
    BY <2>3 DEF Same
<1>10. Keep(q, S) = kept[len]
  BY DEF Keep, kept, len
<1>11. Keep(q, S) = g[len]
  BY <1>1, <1>9, <1>10
<1> QED
  BY <1>5, <1>6, <1>11 DEF Gathers, Out, len

LEMMA GatheredSet ==
    ASSUME NEW T, NEW q \in Seq(T), NEW S, NEW g, Gathers(g, T, q, S), NEW i \in 0..Len(q)
    PROVE  ToSet(g[i]) = {q[k] : k \in 1..i} \cap S
<1>1. Len(q) \in Nat /\ \A k \in 1..Len(q) : q[k] \in T
  OBVIOUS
<1> DEFINE Before(m) == {q[k] : k \in 1..m} \cap S
           Good == {m \in 0..Len(q) : ToSet(g[m]) = Before(m)}
<1>2. 0 \in Good
  BY <1>1 DEF Gathers, ToSet
<1>3. ASSUME NEW m \in 1..Len(q), m - 1 \in Good PROVE m \in Good
  <2>1. ToSet(g[m - 1]) = Before(m - 1) /\ m \in 0..Len(q) /\ m - 1 \in 0..Len(q)
    BY <1>1, <1>3
  <2>2. 1..m = (1..(m - 1)) \cup {m}
    OBVIOUS
  <2>3. Before(m) = Before(m - 1) \cup ({q[m]} \cap S)
    BY <2>2
  <2>4. g[m - 1] \in Seq(T \cap S) /\ q[m] \in T
    BY <1>1, <2>1 DEF Gathers
  <2> HIDE DEF Before
  <2>5. CASE q[m] \in S
    <3>1. g[m] = Append(g[m - 1], q[m])
      BY <2>5 DEF Gathers
    <3>2. ToSet(g[m]) = ToSet(g[m - 1]) \cup {q[m]}
      BY <2>4, <2>5, <3>1, AppendSet
    <3> QED
      BY <2>1, <2>3, <2>5, <3>2
  <2>6. CASE q[m] \notin S
    <3>1. g[m] = g[m - 1]
      BY <2>6 DEF Gathers
    <3> QED
      BY <2>1, <2>3, <2>6, <3>1
  <2> QED
    BY <2>5, <2>6
<1> HIDE DEF Good
<1>4. 0..Len(q) \subseteq Good
  BY <1>1, <1>2, <1>3, InductionUpto
<1> QED
  BY <1>4 DEF Good

\* The entries kept are those of q that are in S.
LEMMA KeepProperties ==
    ASSUME NEW T, NEW q \in Seq(T), NEW S
    PROVE  /\ Keep(q, S) \in Seq(T \cap S)
           /\ ToSet(Keep(q, S)) = ToSet(q) \cap S
<1>1. PICK g : Gathers(g, T, q, S)
  BY KeepSteps
<1>2. Len(q) \in Nat /\ DOMAIN q = 1..Len(q) /\ Len(q) \in 0..Len(q)
  OBVIOUS
<1>3. ToSet(g[Len(q)]) = {q[k] : k \in 1..Len(q)} \cap S
  BY <1>1, <1>2, GatheredSet
<1>4. {q[k] : k \in 1..Len(q)} = ToSet(q)
  BY <1>2 DEF ToSet
<1> QED
  BY <1>1, <1>2, <1>3, <1>4 DEF Gathers

\* What is kept when all entries are wanted.
LEMMA KeepAll ==
    ASSUME NEW T, NEW q \in Seq(T), NEW S, ToSet(q) \subseteq S
    PROVE  Keep(q, S) = q
<1>1. PICK g : Gathers(g, T, q, S)
  BY KeepSteps
<1>2. Len(q) \in Nat /\ DOMAIN q = 1..Len(q) /\ Len(q) \in 0..Len(q) /\ \A k \in 1..Len(q) : q[k] \in T
  OBVIOUS
<1>3. \A k \in 1..Len(q) : q[k] \in S
  BY <1>2 DEF ToSet
<1> DEFINE Prefix(s, m) == Len(s) = m /\ \A k \in 1..m : s[k] = q[k]
           Good == {m \in 0..Len(q) : Prefix(g[m], m)}
<1>4. 0 \in Good
  BY <1>1, <1>2 DEF Gathers
<1>5. ASSUME NEW m \in 1..Len(q), m - 1 \in Good PROVE m \in Good
  <2>1. m \in 0..Len(q) /\ m - 1 \in 0..Len(q) /\ Prefix(g[m - 1], m - 1) /\ q[m] \in T
    BY <1>2, <1>5
  <2>2. g[m - 1] \in Seq(T) /\ g[m] = Append(g[m - 1], q[m])
    <3>1. g[m - 1] \in Seq(T \cap S)
      BY <1>1, <2>1 DEF Gathers
    <3>2. g[m - 1] \in Seq(T)
      BY <3>1
    <3> QED
      BY <1>1, <1>3, <3>2 DEF Gathers
  <2> DEFINE s == g[m - 1]
             r == g[m]
  <2>3. s \in Seq(T) /\ r = Append(s, q[m]) /\ Len(s) = m - 1 /\ \A k \in 1..(m - 1) : s[k] = q[k]
    BY <2>1, <2>2
  <2> HIDE DEF s, r, Good
  <2>4. Len(r) = m /\ \A k \in 1..m : r[k] = IF k = m THEN q[m] ELSE s[k]
    <3>1. Len(r) = Len(s) + 1 /\ \A k \in 1..(Len(s) + 1) : r[k] = IF k = Len(s) + 1 THEN q[m] ELSE s[k]
      BY <2>1, <2>3
    <3>2. Len(s) + 1 = m
      BY <2>3
    <3> QED
      BY <3>1, <3>2
  <2>5. \A k \in 1..m : k = m \/ k \in 1..(m - 1)
    OBVIOUS
  <2>6. Prefix(r, m)
    BY <2>3, <2>4, <2>5
  <2> QED
    BY <2>1, <2>6 DEF r, Good
<1> HIDE DEF Good
<1>6. 0..Len(q) \subseteq Good
  BY <1>2, <1>4, <1>5, InductionUpto
<1> DEFINE r == g[Len(q)]
<1>7. r \in Seq(T) /\ Len(r) = Len(q) /\ \A k \in 1..Len(q) : r[k] = q[k]
  <2>1. r \in Seq(T \cap S)
    BY <1>1, <1>2 DEF Gathers
  <2>2. r \in Seq(T)
    BY <2>1
  <2>3. Prefix(r, Len(q))
    BY <1>2, <1>6 DEF Good
  <2> QED
    BY <2>2, <2>3
<1>8. Keep(q, S) = r
  BY <1>1 DEF Gathers
<1> HIDE DEF r
<1> QED
  BY <1>7, <1>8

LEMMA AppendOther ==
    ASSUME NEW T, NEW q \in Seq(T), IsInjective(q), NEW e \in T, e \notin ToSet(q)
    PROVE  IsInjective(Append(q, e))
<1>1. Len(q) \in Nat /\ DOMAIN q = 1..Len(q) /\ DOMAIN Append(q, e) = 1..(Len(q) + 1)
  OBVIOUS
<1>2. ASSUME NEW i \in 1..(Len(q) + 1)
      PROVE  /\ Append(q, e)[i] = IF i = Len(q) + 1 THEN e ELSE q[i]
             /\ i = Len(q) + 1 \/ i \in 1..Len(q)
  BY <1>1
<1>3. \A i \in 1..Len(q) : q[i] # e
  BY <1>1 DEF ToSet
<1>4. \A i, k \in 1..Len(q) : q[i] = q[k] => i = k
  BY <1>1 DEF IsInjective
<1>5. ASSUME NEW i \in 1..(Len(q) + 1), NEW k \in 1..(Len(q) + 1), Append(q, e)[i] = Append(q, e)[k]
      PROVE  i = k
  BY <1>2, <1>3, <1>4, <1>5
<1> DEFINE r == Append(q, e)
<1>6. DOMAIN r = 1..(Len(q) + 1) /\ \A i, k \in 1..(Len(q) + 1) : r[i] = r[k] => i = k
  BY <1>1, <1>5
<1> HIDE DEF r
<1>7. IsInjective(r)
  BY <1>6 DEF IsInjective
<1> QED
  BY <1>7 DEF r

\* What is kept of different entries is different.
LEMMA KeepInjective ==
    ASSUME NEW T, NEW q \in Seq(T), NEW S, IsInjective(q)
    PROVE  IsInjective(Keep(q, S))
<1>1. PICK g : Gathers(g, T, q, S)
  BY KeepSteps
<1>2. Len(q) \in Nat /\ DOMAIN q = 1..Len(q) /\ Len(q) \in 0..Len(q) /\ \A k \in 1..Len(q) : q[k] \in T
  OBVIOUS
<1> DEFINE Good == {m \in 0..Len(q) : IsInjective(g[m])}
<1>3. 0 \in Good
  BY <1>1, <1>2 DEF Gathers, IsInjective
<1>4. ASSUME NEW m \in 1..Len(q), m - 1 \in Good PROVE m \in Good
  <2>1. m \in 0..Len(q) /\ m - 1 \in 0..Len(q) /\ IsInjective(g[m - 1]) /\ q[m] \in T
    BY <1>2, <1>4
  <2>2. g[m - 1] \in Seq(T \cap S)
    BY <1>1, <2>1 DEF Gathers
  <2>3. ToSet(g[m - 1]) = {q[k] : k \in 1..(m - 1)} \cap S
    BY <1>1, <2>1, GatheredSet
  <2>4. q[m] \notin ToSet(g[m - 1])
    <3>1. \A k \in 1..(m - 1) : k \in 1..Len(q) /\ k # m
      BY <1>2
    <3> QED
      BY <1>2, <2>3, <3>1 DEF IsInjective
  <2>5. g[m] = IF q[m] \in S THEN Append(g[m - 1], q[m]) ELSE g[m - 1]
    BY <1>1 DEF Gathers
  <2>6. q[m] \in S => IsInjective(Append(g[m - 1], q[m]))
    <3>1. q[m] \in S => q[m] \in T \cap S
      BY <2>1
    <3> QED
      BY <2>1, <2>2, <2>4, <3>1, AppendOther
  <2> QED
    BY <2>1, <2>5, <2>6
<1> HIDE DEF Good
<1>5. 0..Len(q) \subseteq Good
  BY <1>2, <1>3, <1>4, InductionUpto
<1> QED
  BY <1>1, <1>2, <1>5 DEF Good, Gathers

-----------------------------------------------------------------------------
(* FlattenSeq.                                                             *)

\* off[i] is how many entries the first i sequences have.
IsOffsets(off, seqs) ==
    /\ off \in [0..Len(seqs) -> Nat] /\ off[0] = 0
    /\ \A i \in 1..Len(seqs) : off[i] = off[i - 1] + Len(seqs[i])

\* Entry k of sequence i is at off[i - 1] + k of the flat sequence.
Flattened(flat, off, seqs) ==
    /\ IsOffsets(off, seqs) /\ Len(flat) = off[Len(seqs)]
    /\ \A i \in 1..Len(seqs) : \A k \in 1..Len(seqs[i]) :
          off[i - 1] + k \in 1..Len(flat) /\ flat[off[i - 1] + k] = seqs[i][k]

LEMMA ConcatPlaces ==
    ASSUME NEW T, NEW s \in Seq(T), NEW t \in Seq(T), NEW both, both = s \o t
    PROVE  /\ Len(both) = Len(s) + Len(t) /\ Len(s) \in Nat /\ Len(t) \in Nat
           /\ \A x \in 1..Len(s) : both[x] = s[x]
           /\ \A x \in 1..Len(t) : both[Len(s) + x] = t[x]
OBVIOUS

LEMMA FlattenPlaces ==
    ASSUME NEW T, NEW seqs \in Seq(Seq(T))
    PROVE  FlattenSeq(seqs) \in Seq(T) /\ \E off : Flattened(FlattenSeq(seqs), off, seqs)
<1> DEFINE len == Len(seqs)
           adds == [i \in 1..len |-> [s \in Seq(T) |-> s \o seqs[i]]]
<1>1. len \in Nat /\ \A i \in 1..len : seqs[i] \in Seq(T)
  OBVIOUS
<1>2. adds \in [1..len -> [Seq(T) -> Seq(T)]]
  BY <1>1
<1>3. \A i \in 1..len, s \in Seq(T) : adds[i][s] = s \o seqs[i]
  OBVIOUS
<1>4. <<>> \in Seq(T)
  OBVIOUS
<1> HIDE DEF adds, len
<1>5. PICK g : g \in [0..len -> Seq(T)] /\ g[0] = <<>> /\ \A i \in 1..len : g[i] = adds[i][g[i - 1]]
  <2>1. len \in Nat
    BY <1>1
  <2>2. PICK g : Recursion(g, Seq(T), len, <<>>, adds)
    BY <1>2, <1>4, <2>1, RecursionExists
  <2> QED
    BY <2>2 DEF Recursion
<1>6. ASSUME NEW i \in 1..len
      PROVE  /\ i \in 0..len /\ i - 1 \in 0..len /\ g[i - 1] \in Seq(T) /\ seqs[i] \in Seq(T)
             /\ g[i] \in Seq(T) /\ g[i] = g[i - 1] \o seqs[i]
  <2>1. i \in 0..len /\ i - 1 \in 0..len
    BY <1>1
  <2>2. g[i - 1] \in Seq(T) /\ g[i] \in Seq(T)
    BY <1>5, <2>1
  <2> QED
    BY <1>1, <1>3, <1>5, <2>1, <2>2
<1>15. ASSUME 1 \in 1..len PROVE g[1] = seqs[1]
  <2>1. g[1] = g[1 - 1] \o seqs[1] /\ seqs[1] \in Seq(T)
    BY <1>6, <1>15
  <2>2. g[1 - 1] = <<>>
    BY <1>5
  <2>3. \A s \in Seq(T) : <<>> \o s = s
    OBVIOUS
  <2> QED
    BY <2>1, <2>2, <2>3
<1> DEFINE off == [i \in 0..len |-> Len(g[i])]
<1>7. IsOffsets(off, seqs)
  <2>1. off \in [0..len -> Nat] /\ off[0] = 0
    BY <1>1, <1>5
  <2>2. ASSUME NEW i \in 1..len PROVE off[i] = off[i - 1] + Len(seqs[i])
    <3>1. Len(g[i - 1] \o seqs[i]) = Len(g[i - 1]) + Len(seqs[i])
      BY <1>6
    <3> QED
      BY <1>6, <3>1
  <2> HIDE DEF off
  <2> QED
    BY <2>1, <2>2 DEF IsOffsets, len
<1> DEFINE Place(j, i, k) == off[i - 1] + k \in 1..Len(g[j]) /\ g[j][off[i - 1] + k] = seqs[i][k]
           Good == {j \in 0..len : \A i \in 1..j : \A k \in 1..Len(seqs[i]) : Place(j, i, k)}
<1>8. 0 \in Good
  BY <1>1
<1>9. ASSUME NEW j \in 1..len, j - 1 \in Good PROVE j \in Good
  <2> SUFFICES ASSUME NEW i \in 1..j, NEW k \in 1..Len(seqs[i]) PROVE Place(j, i, k)
    BY <1>6
  <2>1. i \in 1..len /\ i - 1 \in 0..len /\ off[i - 1] \in Nat /\ Len(seqs[i]) \in Nat /\ k \in Nat
    BY <1>1, <1>6
  <2>2. /\ Len(g[j]) = Len(g[j - 1]) + Len(seqs[j]) /\ Len(g[j - 1]) \in Nat /\ Len(seqs[j]) \in Nat
        /\ \A x \in 1..Len(g[j - 1]) : g[j][x] = g[j - 1][x]
        /\ \A x \in 1..Len(seqs[j]) : g[j][Len(g[j - 1]) + x] = seqs[j][x]
    <3>1. g[j - 1] \in Seq(T) /\ seqs[j] \in Seq(T) /\ g[j] = g[j - 1] \o seqs[j]
      BY <1>6
    <3> DEFINE s == g[j - 1]
               r == seqs[j]
               both == g[j]
    <3>2. s \in Seq(T) /\ r \in Seq(T) /\ both = s \o r
      BY <3>1
    <3> HIDE DEF off, Place, Good, s, r, both
    <3>3. /\ Len(both) = Len(s) + Len(r) /\ Len(s) \in Nat /\ Len(r) \in Nat
          /\ \A x \in 1..Len(s) : both[x] = s[x]
          /\ \A x \in 1..Len(r) : both[Len(s) + x] = r[x]
      BY <3>2, ConcatPlaces
    <3> QED
      BY <3>3 DEF s, r, both
  <2>3. CASE i = j
    <3>1. off[i - 1] = Len(g[j - 1])
      <4>1. off[i - 1] = Len(g[i - 1])
        BY <2>1
      <4> QED
        BY <2>3, <4>1
    <3>2. Len(g[j - 1]) + k \in 1..(Len(g[j - 1]) + Len(seqs[j]))
      <4>1. \A a, b, c \in Nat : c \in 1..b => a + c \in 1..(a + b)
        OBVIOUS
      <4>2. k \in 1..Len(seqs[j])
        BY <2>3
      <4> HIDE DEF off, Place, Good
      <4> QED
        BY <2>1, <2>2, <4>1, <4>2
    <3> HIDE DEF off
    <3> QED
      BY <2>2, <2>3, <3>1, <3>2
  <2>4. CASE i # j
    <3>1. i \in 1..(j - 1)
      BY <2>1, <2>4
    <3>2. Place(j - 1, i, k)
      BY <1>9, <3>1
    <3> DEFINE x == off[i - 1] + k
    <3>3. x \in 1..Len(g[j - 1]) /\ g[j - 1][x] = seqs[i][k]
      BY <3>2
    <3> HIDE DEF off, x
    <3>4. x \in 1..Len(g[j])
      <4>1. \A a, b, c \in Nat : c = a + b => \A y \in 1..a : y \in 1..c
        OBVIOUS
      <4>2. Len(g[j]) \in Nat
        BY <1>6
      <4> QED
        BY <2>2, <3>3, <4>1, <4>2
    <3>5. g[j][x] = seqs[i][k]
      BY <2>2, <3>3
    <3> QED
      BY <3>4, <3>5 DEF x
  <2> QED
    BY <2>3, <2>4
<1> HIDE DEF Good, off
<1>10. 0..len \subseteq Good
  BY <1>1, <1>8, <1>9, InductionUpto
<1>11. len \in Good
  BY <1>1, <1>10
<1>12. FlattenSeq(seqs) = g[len]
  <2>1. CASE len = 0
    <3>1. seqs = <<>>
      BY <2>1 DEF len
    <3> QED
      BY <1>5, <2>1, <3>1 DEF FlattenSeq
  <2>2. CASE len # 0
    <3> DEFINE Rec(f) == f = [i \in 1..len |-> IF i = 1 THEN seqs[i] ELSE f[i - 1] \o seqs[i]]
               h == [i \in 1..len |-> g[i]]
               flatten == CHOOSE f : Rec(f)
    <3>1. Rec(h)
      <4>1. ASSUME NEW i \in 1..len PROVE h[i] = IF i = 1 THEN seqs[i] ELSE h[i - 1] \o seqs[i]
        <5>1. CASE i = 1
          BY <1>15, <5>1
        <5>2. CASE i # 1
          <6>1. i - 1 \in 1..len
            BY <1>1, <5>2
          <6> QED
            BY <1>6, <5>2, <6>1
        <5> QED
          BY <5>1, <5>2
      <4> QED
        BY <4>1
    <3>2. Rec(flatten)
      BY <3>1
    <3> HIDE DEF flatten
    <3> DEFINE Same == {i \in 0..len : i # 0 => flatten[i] = g[i]}
    <3>3. 0 \in Same
      BY <1>1
    <3>4. ASSUME NEW i \in 1..len, i - 1 \in Same PROVE i \in Same
      <4>1. flatten[i] = IF i = 1 THEN seqs[i] ELSE flatten[i - 1] \o seqs[i]
        BY <3>2
      <4>2. CASE i = 1
        BY <1>6, <1>15, <4>1, <4>2
      <4>3. CASE i # 1
        <5>1. flatten[i - 1] = g[i - 1]
          BY <3>4, <4>3
        <5> QED
          BY <1>6, <4>1, <4>3, <5>1
      <4> QED
        BY <4>2, <4>3
    <3> HIDE DEF Same
    <3>5. 0..len \subseteq Same
      BY <1>1, <3>3, <3>4, InductionUpto
    <3>6. flatten[len] = g[len]
      BY <1>1, <2>2, <3>5 DEF Same
    <3>7. FlattenSeq(seqs) = flatten[len]
      BY <2>2 DEF FlattenSeq, flatten, len
    <3> QED
      BY <3>6, <3>7
  <2> QED
    BY <2>1, <2>2
<1>13. g[len] \in Seq(T) /\ Len(g[len]) = off[len]
  BY <1>1, <1>5 DEF off
<1>14. Flattened(g[len], off, seqs)
  BY <1>7, <1>11, <1>13 DEF Flattened, Good, len
<1> QED
  BY <1>12, <1>13, <1>14

\* One sequence, and two of them.
LEMMA FlattenShort ==
    ASSUME NEW T, NEW s \in Seq(T), NEW t \in Seq(T)
    PROVE  FlattenSeq(<<s>>) = s /\ FlattenSeq(<<s, t>>) = s \o t
<1>1. ASSUME NEW seqs \in Seq(Seq(T)) PROVE FlattenSeq(seqs) \in Seq(T) /\ \E off : Flattened(FlattenSeq(seqs), off, seqs)
  BY FlattenPlaces
<1>2. FlattenSeq(<<s>>) = s
  <2>0. <<s>> \in Seq(Seq(T))
    OBVIOUS
  <2> DEFINE flat == FlattenSeq(<<s>>)
  <2>1. PICK off : Flattened(flat, off, <<s>>)
    BY <1>1, <2>0
  <2>2. flat \in Seq(T)
    BY <1>1, <2>0
  <2> HIDE DEF flat
  <2>3. off[0] = 0 /\ off[1] = off[1 - 1] + Len(s) /\ Len(flat) = off[1]
    BY <2>1 DEF Flattened, IsOffsets
  <2>4. \A k \in 1..Len(s) : flat[off[1 - 1] + k] = s[k]
    BY <2>1 DEF Flattened
  <2>5. Len(flat) = Len(s) /\ \A k \in 1..Len(s) : flat[k] = s[k]
    BY <2>3, <2>4
  <2>6. flat = s
    BY <2>2, <2>5
  <2> QED
    BY <2>6 DEF flat
<1>3. FlattenSeq(<<s, t>>) = s \o t
  <2>0. <<s, t>> \in Seq(Seq(T))
    OBVIOUS
  <2> DEFINE flat == FlattenSeq(<<s, t>>)
  <2>1. PICK off : Flattened(flat, off, <<s, t>>)
    BY <1>1, <2>0
  <2>2. flat \in Seq(T)
    BY <1>1, <2>0
  <2> HIDE DEF flat
  <2>3. off[0] = 0 /\ off[1] = off[1 - 1] + Len(s) /\ off[2] = off[2 - 1] + Len(t) /\ Len(flat) = off[2]
    BY <2>1 DEF Flattened, IsOffsets
  <2>4. \A k \in 1..Len(s) : flat[off[1 - 1] + k] = s[k]
    BY <2>1 DEF Flattened
  <2>5. \A k \in 1..Len(t) : flat[off[2 - 1] + k] = t[k]
    BY <2>1 DEF Flattened
  <2>6. Len(flat) = Len(s) + Len(t) /\ \A k \in 1..Len(s) : flat[k] = s[k]
    BY <2>3, <2>4
  <2>7. \A k \in 1..Len(t) : flat[Len(s) + k] = t[k]
    BY <2>3, <2>5
  <2> DEFINE both == s \o t
  <2>8. /\ both \in Seq(T) /\ Len(both) = Len(s) + Len(t)
        /\ \A k \in 1..(Len(s) + Len(t)) : both[k] = IF k <= Len(s) THEN s[k] ELSE t[k - Len(s)]
    OBVIOUS
  <2> HIDE DEF both
  <2>9. \A k \in 1..(Len(s) + Len(t)) : flat[k] = both[k]
    <3> SUFFICES ASSUME NEW k \in 1..(Len(s) + Len(t)) PROVE flat[k] = both[k]
      OBVIOUS
    <3>1. CASE k <= Len(s)
      BY <2>6, <2>8, <3>1
    <3>2. CASE ~(k <= Len(s))
      <4>1. k - Len(s) \in 1..Len(t) /\ Len(s) + (k - Len(s)) = k
        BY <3>2
      <4> QED
        BY <2>7, <2>8, <3>2, <4>1
    <3> QED
      BY <3>1, <3>2
  <2>10. flat = both
    BY <2>2, <2>6, <2>8, <2>9
  <2> QED
    BY <2>10 DEF both, flat
<1> QED
  BY <1>2, <1>3

LEMMA ConcatShort ==
    ASSUME NEW T, NEW x \in T, NEW y \in T, NEW z \in T
    PROVE  <<x>> \o <<y, z>> = <<x, y, z>>
<1> DEFINE s == <<x>>
           t == <<y, z>>
           both == s \o t
           three == <<x, y, z>>
<1>1. /\ s \in Seq(T) /\ t \in Seq(T) /\ three \in Seq(T) /\ both \in Seq(T)
      /\ Len(s) = 1 /\ Len(t) = 2 /\ Len(three) = 3
      /\ s[1] = x /\ t[1] = y /\ t[2] = z /\ three[1] = x /\ three[2] = y /\ three[3] = z
  OBVIOUS
<1>2. both = s \o t
  OBVIOUS
<1> HIDE DEF s, t, both, three
<1>3. Len(both) = 3 /\ both[1] = x /\ both[2] = y /\ both[3] = z
  <2>1. /\ Len(both) = Len(s) + Len(t)
        /\ \A k \in 1..Len(s) : both[k] = s[k]
        /\ \A k \in 1..Len(t) : both[Len(s) + k] = t[k]
    <3>1. s \in Seq(T) /\ t \in Seq(T) /\ both = s \o t
      BY <1>1, <1>2
    <3> QED
      BY <3>1, ConcatPlaces
  <2>2. both[1] = s[1] /\ both[1 + 1] = t[1] /\ both[1 + 2] = t[2] /\ Len(both) = 3
    BY <1>1, <2>1
  <2> QED
    BY <1>1, <2>2
<1>4. \A k \in 1..3 : both[k] = three[k]
  <2>1. \A k \in 1..3 : k = 1 \/ k = 2 \/ k = 3
    OBVIOUS
  <2> QED
    BY <1>1, <1>3, <2>1
<1>5. both = three
  BY <1>1, <1>3, <1>4
<1> QED
  BY <1>5 DEF both, s, t, three
=============================================================================
