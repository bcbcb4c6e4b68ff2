--------------------------- MODULE TodoistProofs ---------------------------
(***************************************************************************)
(* Proofs about Goals and GoalPages for every number of goals, and about    *)
(* Idempotency for every set of attempts and payloads, every lifetime of    *)
(* the record and every combination of faults.                              *)
(*                                                                          *)
(* Goals.  The invariant is what the run checks: TypeOK, LinksAgree and     *)
(* NoCycle together are inductive.  Both need to know what Subtree computes *)
(* for every tree, which is shown by induction: it is the least set that    *)
(* holds its goal and the children of what it holds.                        *)
(*                                                                          *)
(* GoalPages.  The invariant says of the goals whose place lies before the  *)
(* reader's offset that they were shown or are excused, unless a goal has   *)
(* left the listing, and, while nothing was written, that what is below     *)
(* them was shown too (ReadSoFar).  It holds since a listing that loses no  *)
(* goal never moves one towards the front.                                  *)
(*                                                                          *)
(* Idempotency.  The inductive invariant adds three facts.  InFile: an      *)
(* attempt's mutation is in the file from the step that makes it.           *)
(* OneWorker: while nothing has gone wrong, one attempt at most works under *)
(* the key, the record is its pending one, and a mutation in the file is    *)
(* that attempt's or the record is complete.  Reported: an answer that is   *)
(* recorded or sent is of an attempt that is over, and agrees with the file *)
(* and with what that attempt asked for.                                    *)
(***************************************************************************)
EXTENDS GoalPages, Idempotency, CommonProofs, FiniteSetTheorems, SequenceTheorems, TLAPS

\* A number with none between it and a bound.
LEMMA AtLast == \A m, k \in Nat : k =< m /\ ~(k + 1 =< m) => k = m
  OBVIOUS

\* A list without g holds the others, and none twice if it held none twice.
LEMMA WithoutIs ==
    ASSUME NEW S, NEW list \in Seq(S), NEW g
    PROVE  /\ Without(list, g) \in Seq(S) /\ ToSet(Without(list, g)) = ToSet(list) \ {g}
           /\ IsInjective(list) => IsInjective(Without(list, g))
  <1>1. Len(list) \in Nat /\ DOMAIN list = 1..Len(list)
    OBVIOUS
  <1>2. PICK kept : kept = [n \in Nat |-> [z \in Seq(S) |->
           IF n + 1 \in 1..Len(list) /\ list[n + 1] # g THEN Append(z, list[n + 1]) ELSE z]]
    OBVIOUS
  <1>3. kept \in [Nat -> [Seq(S) -> Seq(S)]]
    <2>1. ASSUME NEW n \in Nat, NEW z \in Seq(S)
          PROVE  (IF n + 1 \in 1..Len(list) /\ list[n + 1] # g
                    THEN Append(z, list[n + 1]) ELSE z) \in Seq(S)
      <3>1. n + 1 \in 1..Len(list) => list[n + 1] \in S
        BY <1>1, ElementOfSeq
      <3>2. list[n + 1] \in S => Append(z, list[n + 1]) \in Seq(S)
        BY AppendProperties
      <3> QED  BY <3>1, <3>2
    <2> QED  BY <1>2, <2>1
  <1>4. <<>> \in Seq(S)
    OBVIOUS
  <1>5. PICK f \in [Nat -> Seq(S)] : f[0] = <<>> /\ \A n \in Nat : f[n + 1] = kept[n][f[n]]
    <2>1. \E f : Iterates(f, Seq(S), <<>>, kept)
      BY <1>3, <1>4, Recursion
    <2> QED  BY <2>1 DEF Iterates
  <1>6. PICK K : K = CHOOSE F : F = [n \in 0..Len(list) |->
           IF n = 0 THEN <<>>
           ELSE IF list[n] # g THEN Append(F[n - 1], list[n]) ELSE F[n - 1]]
    OBVIOUS
  <1>7. K = [n \in 0..Len(list) |->
           IF n = 0 THEN <<>>
           ELSE IF list[n] # g THEN Append(K[n - 1], list[n]) ELSE K[n - 1]]
    <2>1. PICK h : h = [n \in 0..Len(list) |-> f[n]]
      OBVIOUS
    <2>2. ASSUME NEW n \in 0..Len(list)
          PROVE  h[n] = IF n = 0 THEN <<>>
                        ELSE IF list[n] # g THEN Append(h[n - 1], list[n]) ELSE h[n - 1]
      <3>1. CASE n = 0
        BY <1>5, <2>1, <3>1
      <3>2. CASE n # 0
        <4>1. n - 1 \in Nat /\ n - 1 \in 0..Len(list) /\ (n - 1) + 1 = n /\ n \in 1..Len(list)
          BY <1>1, <3>2
        <4>2. f[n] = kept[n - 1][f[n - 1]] /\ f[n - 1] \in Seq(S)
          BY <1>5, <4>1
        <4>3. f[n] = IF list[n] # g THEN Append(f[n - 1], list[n]) ELSE f[n - 1]
          BY <1>2, <4>1, <4>2
        <4> QED  BY <2>1, <3>2, <4>1, <4>3
      <3> QED  BY <3>1, <3>2
    <2>3. h = [n \in 0..Len(list) |->
           IF n = 0 THEN <<>>
           ELSE IF list[n] # g THEN Append(h[n - 1], list[n]) ELSE h[n - 1]]
      BY <2>1, <2>2
    <2> QED  BY <1>6, <2>3
  <1>8. Without(list, g) = K[Len(list)]
    BY <1>6 DEF Without
  <1>9. PICK G : G = {n \in Nat : n =< Len(list) =>
                        /\ K[n] \in Seq(S) /\ ToSet(K[n]) = UpTo(list, n) \ {g}
                        /\ IsInjective(list) => IsInjective(K[n])}
    OBVIOUS
  <1>10. 0 \in G
    <2>1. K[0] = <<>>
      BY <1>1, <1>7
    <2>2. ToSet(<<>>) = {} /\ IsInjective(<<>>)
      BY DEF ToSet, IsInjective
    <2>3. UpTo(list, 0) = {}
      BY DEF UpTo
    <2> QED  BY <1>4, <1>9, <2>1, <2>2, <2>3
  <1>11. ASSUME NEW n \in Nat, n \in G
         PROVE  n + 1 \in G
    <2> SUFFICES ASSUME n + 1 =< Len(list)
                 PROVE  /\ K[n + 1] \in Seq(S)
                        /\ ToSet(K[n + 1]) = UpTo(list, n + 1) \ {g}
                        /\ IsInjective(list) => IsInjective(K[n + 1])
      BY <1>9
    <2>1. /\ K[n] \in Seq(S) /\ ToSet(K[n]) = UpTo(list, n) \ {g}
          /\ IsInjective(list) => IsInjective(K[n])
      BY SMTT(30), <1>1, <1>9, <1>11
    <2>2. n + 1 \in 1..Len(list) /\ list[n + 1] \in S
      BY <1>1, ElementOfSeq
    <2>3. K[n + 1] = IF list[n + 1] # g THEN Append(K[n], list[n + 1]) ELSE K[n]
      <3>1. n + 1 \in 0..Len(list) /\ n + 1 # 0 /\ (n + 1) - 1 = n
        BY <2>2
      <3> QED  BY <1>7, <3>1
    <2>4. UpTo(list, n + 1) = UpTo(list, n) \cup {list[n + 1]}
      <3>1. \A i : i \in 1..(n + 1) <=> i \in 1..n \/ i = n + 1
        BY NextRange
      <3> QED  BY <3>1 DEF UpTo
    <2>5. CASE list[n + 1] = g
      BY <2>1, <2>3, <2>4, <2>5
    <2>6. CASE list[n + 1] # g
      <3>1. K[n + 1] = Append(K[n], list[n + 1])
        BY <2>3, <2>6
      <3>2. /\ Append(K[n], list[n + 1]) \in Seq(S)
            /\ ToSet(Append(K[n], list[n + 1])) = ToSet(K[n]) \cup {list[n + 1]}
            /\ IsInjective(K[n]) /\ list[n + 1] \notin ToSet(K[n])
                 => IsInjective(Append(K[n], list[n + 1]))
        <4>1. PICK s, x : s = K[n] /\ x = list[n + 1]
          OBVIOUS
        <4>2. s \in Seq(S) /\ x \in S
          BY <2>1, <2>2, <4>1
        <4>3. /\ Append(s, x) \in Seq(S) /\ ToSet(Append(s, x)) = ToSet(s) \cup {x}
              /\ IsInjective(s) /\ x \notin ToSet(s) => IsInjective(Append(s, x))
          BY <4>2, Appending
        <4> QED  BY <4>1, <4>3
      <3>3. IsInjective(list) => list[n + 1] \notin UpTo(list, n)
        <4> SUFFICES ASSUME IsInjective(list), NEW i \in 1..n, list[n + 1] = list[i]
                     PROVE  FALSE
          BY DEF UpTo
        <4>1. i \in DOMAIN list /\ n + 1 \in DOMAIN list /\ i # n + 1
          BY <1>1, <2>2
        <4> QED  BY <4>1 DEF IsInjective
      <3> QED  BY <2>1, <2>4, <2>6, <3>1, <3>2, <3>3
    <2> QED  BY <2>5, <2>6
  <1>12. Len(list) \in G
    BY <1>1, <1>10, <1>11, Induct
  <1>13. UpTo(list, Len(list)) = ToSet(list)
    BY <1>1 DEF UpTo, ToSet
  <1> QED  BY SMTT(30), <1>1, <1>8, <1>9, <1>12, <1>13

\* Removing g from a list that holds nothing twice.
LEMMA RemoveFirstIs ==
    ASSUME NEW S, NEW list \in Seq(S), IsInjective(list), NEW g
    PROVE  /\ RemoveFirst(list, g) \in Seq(S)
           /\ ToSet(RemoveFirst(list, g)) = ToSet(list) \ {g}
           /\ IsInjective(RemoveFirst(list, g))
  <1>1. Len(list) \in Nat /\ DOMAIN list = 1..Len(list)
    OBVIOUS
  <1>2. CASE ~\E i \in 1..Len(list) : list[i] = g
    <2>1. RemoveFirst(list, g) = list
      BY <1>2 DEF RemoveFirst
    <2> QED  BY <1>1, <1>2, <2>1 DEF ToSet
  <1>3. CASE \E i \in 1..Len(list) : list[i] = g
    <2>1. PICK I : I = {i \in 1..Len(list) : list[i] = g}
      OBVIOUS
    <2>2. PICK k : k = Min(I)
      OBVIOUS
    <2>3. k \in I
      <3>1. I \subseteq Nat /\ I # {}
        BY <1>3, <2>1
      <3>2. \E n \in I : \A m \in I : n =< m
        BY <3>1, Least
      <3> QED  BY <2>2, <3>2 DEF Min
    <2>4. k \in 1..Len(list) /\ list[k] = g
      BY <2>1, <2>3
    <2>5. RemoveFirst(list, g) = SubSeq(list, 1, k - 1) \o SubSeq(list, k + 1, Len(list))
      BY <1>3, <2>1, <2>2 DEF RemoveFirst, RemoveAt, SelectInSeq
    <2>6. PICK a, b, t : /\ a = SubSeq(list, 1, k - 1) /\ b = SubSeq(list, k + 1, Len(list))
                         /\ t = a \o b
      OBVIOUS
    <2>7. \A i \in 1..Len(list) : list[i] \in S
      BY ElementOfSeq
    <2>8. /\ a \in Seq(S) /\ Len(a) = k - 1 /\ \A i \in 1..(k - 1) : a[i] = list[i]
      <3>1. \A i \in 1..(k - 1) : list[i] \in S
        BY <1>1, <2>4, <2>7
      <3>2. /\ SubSeq(list, 1, k - 1) \in Seq(S)
            /\ Len(SubSeq(list, 1, k - 1)) = IF 1 <= k - 1 THEN k - 1 - 1 + 1 ELSE 0
            /\ \A i \in 1..(k - 1 - 1 + 1) : SubSeq(list, 1, k - 1)[i] = list[1 + i - 1]
        BY <1>1, <2>4, <3>1, SubSeqProperties
      <3>3. Len(a) = k - 1
        BY <1>1, <2>4, <2>6, <3>2
      <3>4. ASSUME NEW i \in 1..(k - 1)
            PROVE  a[i] = list[i]
        <4>1. i \in 1..(k - 1 - 1 + 1) /\ 1 + i - 1 = i
          BY <2>4
        <4> QED  BY <2>6, <3>2, <4>1
      <3> QED  BY <2>6, <3>2, <3>3, <3>4
    <2>9. /\ b \in Seq(S) /\ Len(b) = Len(list) - k
          /\ \A i \in 1..(Len(list) - k) : b[i] = list[k + i]
      <3>1. \A i \in (k + 1)..Len(list) : list[i] \in S
        BY <1>1, <2>4, <2>7
      <3>2. /\ SubSeq(list, k + 1, Len(list)) \in Seq(S)
            /\ Len(SubSeq(list, k + 1, Len(list))) =
                 IF k + 1 <= Len(list) THEN Len(list) - (k + 1) + 1 ELSE 0
            /\ \A i \in 1..(Len(list) - (k + 1) + 1) :
                 SubSeq(list, k + 1, Len(list))[i] = list[(k + 1) + i - 1]
        BY <1>1, <2>4, <3>1, SubSeqProperties
      <3>3. Len(b) = Len(list) - k
        <4>1. CASE k + 1 <= Len(list)
          BY <1>1, <2>4, <2>6, <3>2, <4>1
        <4>2. CASE ~(k + 1 <= Len(list))
          <5>1. k \in Nat /\ k =< Len(list)
            BY <1>1, <2>4
          <5>2. k = Len(list)
            BY <1>1, <4>2, <5>1, AtLast
          <5> QED  BY <1>1, <2>6, <3>2, <4>2, <5>2
        <4> QED  BY <4>1, <4>2
      <3>4. ASSUME NEW i \in 1..(Len(list) - k)
            PROVE  b[i] = list[k + i]
        <4>1. i \in 1..(Len(list) - (k + 1) + 1) /\ (k + 1) + i - 1 = k + i
          BY <1>1, <2>4
        <4> QED  BY <2>6, <3>2, <4>1
      <3> QED  BY <2>6, <3>2, <3>3, <3>4
    <2>10. /\ t \in Seq(S) /\ Len(t) = Len(list) - 1
           /\ \A i \in 1..(Len(list) - 1) : t[i] = IF i < k THEN list[i] ELSE list[i + 1]
      <3>1. /\ a \o b \in Seq(S) /\ Len(a \o b) = Len(a) + Len(b)
            /\ \A i \in 1..(Len(a) + Len(b)) :
                  (a \o b)[i] = IF i <= Len(a) THEN a[i] ELSE b[i - Len(a)]
        BY <2>8, <2>9, ConcatProperties
      <3>2. Len(a) + Len(b) = Len(list) - 1
        BY <1>1, <2>4, <2>8, <2>9
      <3>3. ASSUME NEW i \in 1..(Len(list) - 1)
            PROVE  t[i] = IF i < k THEN list[i] ELSE list[i + 1]
        <4>1. t[i] = IF i <= k - 1 THEN a[i] ELSE b[i - (k - 1)]
          BY <2>6, <2>8, <3>1, <3>2
        <4>2. CASE i < k
          <5>1. i \in 1..(k - 1)
            BY <2>4, <4>2
          <5> QED  BY <2>8, <4>1, <4>2, <5>1
        <4>3. CASE ~(i < k)
          <5>1. i - (k - 1) \in 1..(Len(list) - k) /\ k + (i - (k - 1)) = i + 1 /\ ~(i <= k - 1)
            BY <1>1, <2>4, <4>3
          <5> QED  BY <2>9, <4>1, <4>3, <5>1
        <4> QED  BY <4>2, <4>3
      <3> QED  BY <2>6, <3>1, <3>2, <3>3
    <2>11. \A i \in 1..Len(list) : i # k => list[i] # g
      BY <1>1, <2>4 DEF IsInjective
    <2>12. ToSet(t) = ToSet(list) \ {g}
      <3>1. DOMAIN t = 1..(Len(list) - 1)
        BY <1>1, <2>4, <2>10
      <3>2. ASSUME NEW i \in DOMAIN t
            PROVE  t[i] \in ToSet(list) \ {g}
        <4>1. \E j \in 1..Len(list) : j # k /\ t[i] = list[j]
          <5>1. CASE i < k
            BY <1>1, <2>4, <2>10, <3>1, <5>1
          <5>2. CASE ~(i < k)
            <6>1. i + 1 \in 1..Len(list) /\ i + 1 # k /\ t[i] = list[i + 1]
              BY <1>1, <2>4, <2>10, <3>1, <5>2
            <6> QED  BY <6>1
          <5> QED  BY <5>1, <5>2
        <4> QED  BY <1>1, <2>11, <4>1 DEF ToSet
      <3>3. ASSUME NEW j \in DOMAIN list, list[j] # g
            PROVE  list[j] \in ToSet(t)
        <4>1. CASE j < k
          <5>1. j \in DOMAIN t /\ t[j] = list[j]
            BY <1>1, <2>4, <2>10, <3>1, <4>1
          <5> QED  BY <5>1 DEF ToSet
        <4>2. CASE j > k
          <5>1. j - 1 \in DOMAIN t /\ ~(j - 1 < k) /\ (j - 1) + 1 = j
            BY <1>1, <2>4, <3>1, <4>2
          <5>2. t[j - 1] = list[j]
            BY <2>10, <3>1, <5>1
          <5> QED  BY <5>1, <5>2 DEF ToSet
        <4> QED  BY <1>1, <2>4, <3>3, <4>1, <4>2
      <3> QED  BY <3>2, <3>3 DEF ToSet
    <2>13. IsInjective(t)
      <3> SUFFICES ASSUME NEW i \in DOMAIN t, NEW j \in DOMAIN t, t[i] = t[j]
                   PROVE  i = j
        BY DEF IsInjective
      <3>1. i \in 1..(Len(list) - 1) /\ j \in 1..(Len(list) - 1)
        BY <1>1, <2>4, <2>10
      <3>2. PICK p, q : /\ p = IF i < k THEN i ELSE i + 1
                        /\ q = IF j < k THEN j ELSE j + 1
        OBVIOUS
      <3>3. p \in DOMAIN list /\ q \in DOMAIN list
        BY <1>1, <2>4, <3>1, <3>2
      <3>4. t[i] = list[p] /\ t[j] = list[q]
        BY <2>10, <3>1, <3>2
      <3>5. p = q
        BY <3>3, <3>4 DEF IsInjective
      <3> QED  BY <2>4, <3>1, <3>2, <3>5
    <2> QED  BY <2>5, <2>6, <2>10, <2>12, <2>13
  <1> QED  BY <1>2, <1>3

\* The goals are goals, whatever the links between them.
GoalsTyped == Live \subseteq Ids /\ \A g \in Live : goals[g] \in Goal

\* A set of goals that holds the children of each of its goals.
ClosedBelow(X) == \A d \in X \cap Live : Children(d) \subseteq X

\* Subtree(g) is the least such set with g in it.
SubtreeIs(g) ==
    /\ g \in Subtree(g) /\ Subtree(g) \subseteq Ids /\ ClosedBelow(Subtree(g))
    /\ \A X : g \in X /\ ClosedBelow(X) => Subtree(g) \subseteq X

\* A walk of as many rounds as there are ids meets everything below g, and no more.
LEMMA WalkEnds ==
    ASSUME GoalsTyped, NEW g \in Ids
    PROVE  SubtreeIs(g)
  <1>1. \A d \in Live : Children(d) \subseteq Ids
    <2> SUFFICES ASSUME NEW d \in Live, NEW i \in DOMAIN goals[d].children
                 PROVE  goals[d].children[i] \in Ids
      BY DEF Children, ToSet
    <2>1. goals[d].children \in Seq(Ids)
      BY DEF GoalsTyped, Goal
    <2> QED  BY <2>1, ElementOfSeq, LenProperties
  <1>2. \A met \in SUBSET Ids : WithChildren(met) \in SUBSET Ids /\ met \subseteq WithChildren(met)
    BY <1>1 DEF WithChildren
  <1>3. PICK step : step = [n \in Nat |-> [met \in SUBSET Ids |-> WithChildren(met)]]
    OBVIOUS
  <1>4. step \in [Nat -> [SUBSET Ids -> SUBSET Ids]] /\ {g} \in SUBSET Ids
    BY <1>2, <1>3
  <1>5. PICK f : Iterates(f, SUBSET Ids, {g}, step)
    BY <1>4, Recursion
  <1>6. PICK M : M = CHOOSE F : F = [n \in Nat |-> IF n = 0 THEN {g} ELSE WithChildren(F[n - 1])]
    OBVIOUS
  <1>7. M = [n \in Nat |-> IF n = 0 THEN {g} ELSE WithChildren(M[n - 1])]
    <2>1. f \in [Nat -> SUBSET Ids] /\ f[0] = {g} /\ \A n \in Nat : f[n + 1] = step[n][f[n]]
      BY <1>5 DEF Iterates
    <2>2. ASSUME NEW n \in Nat, n # 0
          PROVE  f[n] = WithChildren(f[n - 1])
      <3>1. n - 1 \in Nat /\ (n - 1) + 1 = n
        BY <2>2
      <3>2. f[n] = step[n - 1][f[n - 1]] /\ f[n - 1] \in SUBSET Ids
        BY <2>1, <3>1
      <3> QED  BY <1>3, <3>1, <3>2
    <2>3. f = [n \in Nat |-> IF n = 0 THEN {g} ELSE WithChildren(f[n - 1])]
      BY <2>1, <2>2
    <2> QED  BY <1>6, <2>3
  <1>8. Subtree(g) = M[MaxId + 1]
    BY <1>6 DEF Subtree
  <1>9. M[0] = {g} /\ \A n \in Nat : M[n + 1] = WithChildren(M[n])
    <2>1. \A n \in Nat : n + 1 \in Nat /\ n + 1 # 0 /\ (n + 1) - 1 = n
      OBVIOUS
    <2> QED  BY <1>7, <2>1
  <1>10. \A n \in Nat : M[n] \in SUBSET Ids
    <2>1. PICK G : G = {n \in Nat : M[n] \in SUBSET Ids}
      OBVIOUS
    <2>2. 0 \in G
      BY <1>4, <1>9, <2>1
    <2>3. \A n \in Nat : n \in G => n + 1 \in G
      BY <1>2, <1>9, <2>1
    <2>4. Nat \subseteq G
      BY <2>2, <2>3, Induct
    <2> QED  BY <2>1, <2>4
  <1>11. IsFiniteSet(Ids) /\ Cardinality(Ids) = MaxId + 1
    BY GoalsAssumption, FS_Interval DEF Ids
  <1>12. \A n \in Nat : M[n + 1] = M[n] \/ Cardinality(M[n]) >= n + 1
    <2>1. PICK G : G = {n \in Nat : M[n + 1] = M[n] \/ Cardinality(M[n]) >= n + 1}
      OBVIOUS
    <2>2. 0 \in G
      <3>1. Cardinality({g}) = 1
        BY FS_Singleton
      <3> QED  BY SMTT(30), <1>9, <2>1, <3>1
    <2>3. ASSUME NEW n \in Nat, n \in G
          PROVE  n + 1 \in G
      <3>1. CASE M[n + 1] = M[n]
        <4>1. M[(n + 1) + 1] = WithChildren(M[n + 1]) /\ M[n + 1] = WithChildren(M[n])
          BY <1>9
        <4>2. M[(n + 1) + 1] = M[n + 1]
          BY <3>1, <4>1
        <4> QED  BY <2>1, <4>2
      <3>2. CASE M[n + 1] # M[n]
        <4>1. Cardinality(M[n]) >= n + 1
          BY <2>1, <2>3, <3>2
        <4>2. M[n] \subseteq M[n + 1] /\ M[n + 1] \subseteq Ids
          BY <1>2, <1>9, <1>10
        <4>3. IsFiniteSet(M[n + 1])
          BY <1>11, <4>2, FS_Subset
        <4>4. /\ IsFiniteSet(M[n]) /\ Cardinality(M[n]) <= Cardinality(M[n + 1])
              /\ Cardinality(M[n + 1]) # Cardinality(M[n])
          BY <3>2, <4>2, <4>3, FS_Subset
        <4>5. Cardinality(M[n + 1]) \in Nat /\ Cardinality(M[n]) \in Nat
          BY <4>3, <4>4, FS_CardinalityType
        <4>6. Cardinality(M[n + 1]) >= (n + 1) + 1
          BY <4>1, <4>4, <4>5
        <4> QED  BY <2>1, <4>6
      <3> QED  BY <3>1, <3>2
    <2>4. Nat \subseteq G
      BY <2>2, <2>3, Induct
    <2> QED  BY <2>1, <2>4
  <1>13. WithChildren(Subtree(g)) = Subtree(g) /\ Subtree(g) \subseteq Ids
    <2>1. MaxId + 1 \in Nat /\ MaxId \in Nat
      BY GoalsAssumption
    <2>2. M[MaxId + 1] \subseteq Ids
      BY <1>10, <2>1
    <2>3. Cardinality(M[MaxId + 1]) <= MaxId + 1 /\ Cardinality(M[MaxId + 1]) \in Nat
      BY <1>11, <2>2, FS_Subset, FS_CardinalityType
    <2>4. ~(Cardinality(M[MaxId + 1]) >= (MaxId + 1) + 1)
      BY <2>1, <2>3
    <2>5. M[(MaxId + 1) + 1] = M[MaxId + 1]
      BY <1>12, <2>1, <2>4
    <2>6. M[(MaxId + 1) + 1] = WithChildren(M[MaxId + 1])
      BY <1>9, <2>1
    <2> QED  BY <1>8, <2>2, <2>5, <2>6
  <1>14. ClosedBelow(Subtree(g))
    BY <1>13 DEF ClosedBelow, WithChildren
  <1>15. g \in Subtree(g)
    <2>1. PICK G : G = {n \in Nat : g \in M[n]}
      OBVIOUS
    <2>2. 0 \in G /\ \A n \in Nat : n \in G => n + 1 \in G
      BY <1>9, <2>1 DEF WithChildren
    <2>3. Nat \subseteq G
      BY <2>2, Induct
    <2> QED  BY <1>8, <2>1, <2>3, GoalsAssumption
  <1>16. ASSUME NEW X, g \in X, ClosedBelow(X)
         PROVE  Subtree(g) \subseteq X
    <2>1. PICK G : G = {n \in Nat : M[n] \subseteq X}
      OBVIOUS
    <2>2. 0 \in G
      BY <1>9, <1>16, <2>1
    <2>3. ASSUME NEW n \in Nat, n \in G
          PROVE  n + 1 \in G
      <3>1. M[n] \subseteq X /\ M[n + 1] = WithChildren(M[n])
        BY <1>9, <2>1, <2>3
      <3>2. WithChildren(M[n]) \subseteq X
        BY <1>16, <3>1 DEF WithChildren, ClosedBelow
      <3> QED  BY <2>1, <3>1, <3>2
    <2>4. Nat \subseteq G
      BY <2>2, <2>3, Induct
    <2> QED  BY <1>8, <2>1, <2>4, GoalsAssumption
  <1> QED  BY <1>13, <1>14, <1>15, <1>16 DEF SubtreeIs

\* What is below g, other than g, is the child of a goal that is at or below g.
LEMMA BelowByParent ==
    ASSUME GoalsTyped, NEW g \in Ids, NEW k \in Subtree(g), k # g
    PROVE  \E d \in Subtree(g) \cap Live : k \in Children(d)
  <1>1. SubtreeIs(g)
    BY WalkEnds
  <1>2. PICK X : X = {g} \cup {h \in Subtree(g) : \E d \in Subtree(g) \cap Live : h \in Children(d)}
    OBVIOUS
  <1>3. ClosedBelow(X)
    BY <1>1, <1>2 DEF ClosedBelow, SubtreeIs
  <1>4. Subtree(g) \subseteq X
    BY <1>1, <1>2, <1>3 DEF SubtreeIs
  <1> QED  BY <1>2, <1>4

\* Every subtree is what it should be.
Walks == \A g \in Ids : SubtreeIs(g)

\* So they are, whatever the links.
LEMMA GoalsWalk == GoalsTyped => Walks
  BY WalkEnds DEF Walks

\* Goals with a set around each child that its parent is outside of have no cycle.
LEMMA AcyclicBy ==
    ASSUME GoalsTyped',
           \A g \in Live' : \A c \in Children(g)' :
               \E X : c \in X /\ g \notin X /\ ClosedBelow(X)'
    PROVE  NoCycle'
  <1>1. Walks'
    BY GoalsWalk, PTL
  <1>2. ASSUME NEW g \in Live', NEW c \in Children(g)'
        PROVE  g \notin Subtree(c)'
    <2>1. PICK X : c \in X /\ g \notin X /\ ClosedBelow(X)'
      OBVIOUS
    <2>2. c \in Ids
      <3>1. goals'[g].children \in Seq(Ids)
        BY DEF GoalsTyped, Goal
      <3> QED  BY <3>1, ElementOfSeq, LenProperties DEF Children, ToSet
    <2>3. Subtree(c)' \subseteq X
      BY <1>1, <2>1, <2>2 DEF Walks, SubtreeIs
    <2> QED  BY <2>1, <2>3
  <1> QED  BY <1>2 DEF NoCycle

\* What every operation on the goals preserves.
GInv == TypeOK /\ LinksAgree /\ NoCycle

\* What the invariant says of a goal.
LEMMA GInvParts ==
    ASSUME GInv
    PROVE  /\ GoalsTyped
           /\ \A g \in Live : /\ g \in Nat /\ g # NoParent /\ g \in Ids
                              /\ goals[g].state \in States /\ goals[g].dated \in BOOLEAN
                              /\ goals[g].state = "completed" => goals[g].dated
                              /\ goals[g].parent \in Live \cup {NoParent}
                              /\ goals[g].children \in Seq(Ids)
                              /\ IsInjective(goals[g].children)
                              /\ Children(g) = {h \in Live : goals[h].parent = g}
  <1>1. GoalsTyped
    BY DEF GInv, TypeOK, GoalsTyped
  <1>2. ASSUME NEW g \in Live
        PROVE  /\ g \in Nat /\ g # NoParent /\ g \in Ids
               /\ goals[g].state \in States /\ goals[g].dated \in BOOLEAN
               /\ goals[g].state = "completed" => goals[g].dated
               /\ goals[g].parent \in Live \cup {NoParent}
               /\ goals[g].children \in Seq(Ids)
               /\ IsInjective(goals[g].children)
               /\ Children(g) = {h \in Live : goals[h].parent = g}
    <2>1. goals[g] \in Goal /\ (goals[g].state = "completed" => goals[g].dated)
      BY DEF GInv, TypeOK
    <2>2. g \in Nat /\ g # NoParent /\ g \in Ids
      <3>1. g \in Ids
        BY DEF GInv, TypeOK
      <3>2. g \in Nat
        BY <3>1, GoalsAssumption DEF Ids
      <3> QED  BY <3>1, <3>2 DEF NoParent
    <2> QED  BY <2>1, <2>2 DEF Goal, GInv, LinksAgree
  <1> QED  BY <1>1, <1>2

\* The set around a child that its parent is outside of.
LEMMA ChildApart ==
    ASSUME GInv, NEW g \in Live, NEW c \in Children(g)
    PROVE  /\ c \in Live /\ SubtreeIs(c)
           /\ c \in Subtree(c) /\ g \notin Subtree(c) /\ ClosedBelow(Subtree(c))
  <1>1. c \in Live /\ c \in Ids /\ GoalsTyped
    BY GInvParts
  <1>2. SubtreeIs(c)
    BY <1>1, WalkEnds
  <1> QED  BY <1>1, <1>2 DEF SubtreeIs, GInv, NoCycle

\* What the next state must be like.
LEMMA GInvFrom ==
    ASSUME Live' \subseteq Ids,
           \A g \in Live' : /\ goals'[g] \in Goal
                            /\ goals'[g].state = "completed" => goals'[g].dated
                            /\ goals'[g].parent \in Live' \cup {NoParent}
                            /\ Children(g)' = {h \in Live' : goals'[h].parent = g}
                            /\ IsInjective(goals'[g].children),
           \A g \in Live' : \A c \in Children(g)' :
               \E X : c \in X /\ g \notin X /\ ClosedBelow(X)'
    PROVE  GInv'
  <1>1. TypeOK' /\ GoalsTyped'
    BY DEF TypeOK, GoalsTyped
  <1>2. LinksAgree'
    BY DEF LinksAgree
  <1>3. NoCycle'
    BY <1>1, AcyclicBy
  <1> QED  BY <1>1, <1>2, <1>3 DEF GInv

\* A goal's state changes, and nothing else of the tree.
LEMMA StateStep ==
    ASSUME GInv, NEW g \in Live, NEW state \in States, NEW dated \in BOOLEAN,
           state = "completed" => dated, SetState(g, state, dated)
    PROVE  GInv'
  <1>1. /\ Live' = Live
        /\ \A h \in Live : goals'[h] = IF h = g THEN [goals[g] EXCEPT !.state = state, !.dated = dated]
                                       ELSE goals[h]
    BY DEF SetState, Live
  <1>2. goals[g] \in Goal
    BY DEF GInv, TypeOK
  <1>3. PICK r : r = [goals[g] EXCEPT !.state = state, !.dated = dated]
    OBVIOUS
  <1>4. /\ r \in Goal /\ r.state = state /\ r.dated = dated
        /\ r.parent = goals[g].parent /\ r.children = goals[g].children
    BY <1>2, <1>3 DEF Goal
  <1>5. ASSUME NEW h \in Live
        PROVE  /\ goals'[h] \in Goal /\ (goals'[h].state = "completed" => goals'[h].dated)
               /\ goals'[h].parent = goals[h].parent /\ goals'[h].children = goals[h].children
    <2>1. CASE h = g
      BY <1>1, <1>3, <1>4, <2>1
    <2>2. CASE h # g
      BY <1>1, <2>2 DEF GInv, TypeOK
    <2> QED  BY <2>1, <2>2
  <1>6. \A h \in Live : Children(h)' = Children(h)
    BY <1>1, <1>5 DEF Children
  <1>7. \A X : ClosedBelow(X) => ClosedBelow(X)'
    BY <1>1, <1>6 DEF ClosedBelow
  <1>8. ASSUME NEW h \in Live
        PROVE  /\ goals'[h].parent \in Live' \cup {NoParent}
               /\ Children(h)' = {k \in Live' : goals'[k].parent = h}
               /\ IsInjective(goals'[h].children)
    BY <1>1, <1>5, <1>6, GInvParts
  <1>9. ASSUME NEW h \in Live, NEW c \in Children(h)'
        PROVE  \E X : c \in X /\ h \notin X /\ ClosedBelow(X)'
    BY <1>6, <1>7, ChildApart
  <1>10. Live' \subseteq Ids
    BY <1>1, GInvParts
  <1> QED  BY <1>1, <1>5, <1>8, <1>9, <1>10, GInvFrom

\* The id handed out next is none of those in use.
LEMMA NextIdNew ==
    ASSUME GInv
    PROVE  NextId \in Nat /\ NextId \notin Live
  <1>1. \A g \in Live : g \in Nat /\ g =< MaxId
    BY GoalsAssumption DEF GInv, TypeOK, Ids
  <1>2. CASE Live = {}
    BY <1>2 DEF NextId
  <1>3. CASE Live # {}
    <2>1. PICK T : T = {MaxId - g : g \in Live}
      OBVIOUS
    <2>2. T \subseteq Nat /\ T # {}
      BY <1>1, <1>3, <2>1, GoalsAssumption
    <2>3. PICK n \in T : \A m \in T : n =< m
      BY <2>2, Least
    <2>4. PICK x \in Live : n = MaxId - x
      BY <2>1
    <2>5. \A y \in Live : x >= y
      BY <1>1, <2>1, <2>3, <2>4, GoalsAssumption
    <2>6. Max(Live) \in Live /\ \A y \in Live : Max(Live) >= y
      BY <2>5 DEF Max
    <2>7. NextId = Max(Live) + 1
      BY <1>3 DEF NextId
    <2> QED  BY <1>1, <2>6, <2>7
  <1> QED  BY <1>2, <1>3

\* A new goal, at the top or below another one.
LEMMA NewStep ==
    ASSUME GInv, NEW parent \in Ids \cup {NoParent}, NewGoal(parent)
    PROVE  GInv'
  <1>1. PICK id : id = NextId
    OBVIOUS
  <1>2. PICK goal : goal = [state |-> "active", dated |-> FALSE, parent |-> parent, children |-> <<>>]
    OBVIOUS
  <1>3. /\ id \in Ids /\ id \notin Live /\ id # NoParent /\ id \in Nat
        /\ parent \in Live \cup {NoParent}
    BY <1>1, NextIdNew, GoalsAssumption DEF NewGoal, Ids, NoParent
  <1>4. goals' = [g \in Live \cup {id} |->
                    IF g = id THEN goal
                    ELSE IF g = parent THEN [goals[g] EXCEPT !.children = Append(@, id)]
                    ELSE goals[g]]
    BY <1>1, <1>2 DEF NewGoal
  <1>5. Live' = Live \cup {id} /\ goals'[id] = goal
    BY <1>4 DEF Live
  <1>6. /\ goal \in Goal /\ goal.state = "active" /\ goal.parent = parent /\ goal.children = <<>>
    BY <1>2, <1>3 DEF Goal, States
  <1>7. ASSUME NEW g \in Live
        PROVE  /\ goals'[g] \in Goal /\ (goals'[g].state = "completed" => goals'[g].dated)
               /\ goals'[g].parent = goals[g].parent
               /\ g # parent => goals'[g].children = goals[g].children
               /\ g = parent => goals'[g].children = Append(goals[g].children, id)
    <2>1. g # id /\ goals[g] \in Goal /\ (goals[g].state = "completed" => goals[g].dated)
      BY <1>3 DEF GInv, TypeOK
    <2>2. CASE g # parent
      BY <1>4, <2>1, <2>2
    <2>3. CASE g = parent
      <3>1. PICK l : l = Append(goals[g].children, id)
        OBVIOUS
      <3>2. l \in Seq(Ids)
        BY <1>3, <2>1, <3>1, AppendProperties DEF Goal
      <3>3. goals'[g] = [goals[g] EXCEPT !.children = l]
        BY <1>4, <2>1, <2>3, <3>1
      <3> QED  BY <2>1, <2>3, <3>1, <3>2, <3>3 DEF Goal
    <2> QED  BY <2>2, <2>3
  <1>8. Children(id)' = {}
    BY <1>5, <1>6 DEF Children, ToSet
  <1>9. ASSUME NEW g \in Live
        PROVE  /\ Children(g)' = IF g = parent THEN Children(g) \cup {id} ELSE Children(g)
               /\ IsInjective(goals'[g].children)
    <2>1. /\ goals[g].children \in Seq(Ids) /\ IsInjective(goals[g].children)
          /\ Children(g) \subseteq Live
      BY GInvParts
    <2>2. CASE g # parent
      BY <1>7, <2>1, <2>2 DEF Children
    <2>3. CASE g = parent
      <3>1. id \notin ToSet(goals[g].children)
        BY <1>3, <2>1 DEF Children
      <3>2. PICK s : s = goals[g].children
        OBVIOUS
      <3>3. /\ ToSet(Append(s, id)) = ToSet(s) \cup {id}
            /\ IsInjective(Append(s, id))
        BY <1>3, <2>1, <3>1, <3>2, Appending
      <3> QED  BY <1>7, <2>3, <3>2, <3>3 DEF Children
    <2> QED  BY <2>2, <2>3
  <1>10. ASSUME NEW g \in Live'
         PROVE  /\ goals'[g] \in Goal /\ (goals'[g].state = "completed" => goals'[g].dated)
                /\ goals'[g].parent \in Live' \cup {NoParent}
                /\ Children(g)' = {h \in Live' : goals'[h].parent = g}
                /\ IsInjective(goals'[g].children)
    <2>1. CASE g = id
      <3>1. \A h \in Live : goals'[h].parent # id
        BY <1>3, <1>7, GInvParts
      <3>2. goals'[id].parent # id
        BY <1>3, <1>5, <1>6
      <3>3. IsInjective(<<>>)
        BY DEF IsInjective
      <3> QED  BY <1>3, <1>5, <1>6, <1>8, <2>1, <3>1, <3>2, <3>3
    <2>2. CASE g # id
      <3>1. g \in Live
        BY <1>5, <2>2
      <3>2. Children(g) = {h \in Live : goals[h].parent = g} /\ goals[g].parent \in Live \cup {NoParent}
        BY <3>1, GInvParts
      <3>3. \A h \in Live : goals'[h].parent = goals[h].parent
        BY <1>7
      <3>4. goals'[id].parent = g <=> g = parent
        BY <1>5, <1>6
      <3>5. Children(g)' = {h \in Live' : goals'[h].parent = g}
        BY <1>3, <1>5, <1>9, <3>1, <3>2, <3>3, <3>4
      <3> QED  BY <1>5, <1>7, <1>9, <3>1, <3>2, <3>3, <3>5
    <2> QED  BY <2>1, <2>2
  <1>11. ASSUME NEW X, ClosedBelow(X)
         PROVE  ClosedBelow(X \cup {id})'
    BY <1>5, <1>8, <1>9, <1>11 DEF ClosedBelow
  <1>12. ASSUME NEW g \in Live', NEW c \in Children(g)'
         PROVE  \E X : c \in X /\ g \notin X /\ ClosedBelow(X)'
    <2>1. g \in Live
      BY <1>5, <1>8, <1>12
    <2>2. CASE c = id
      <3>1. ClosedBelow({id})'
        BY <1>8 DEF ClosedBelow
      <3> QED  BY <1>3, <2>1, <2>2, <3>1
    <2>3. CASE c # id
      <3>1. c \in Children(g)
        BY <1>9, <2>1, <2>3
      <3>2. c \in Subtree(c) /\ g \notin Subtree(c) /\ ClosedBelow(Subtree(c))
        BY <2>1, <3>1, ChildApart
      <3>3. PICK X : X = Subtree(c) \cup {id}
        OBVIOUS
      <3>4. c \in X /\ g \notin X /\ ClosedBelow(X)'
        BY <1>3, <1>11, <2>1, <3>2, <3>3
      <3> QED  BY <3>4
    <2> QED  BY <2>2, <2>3
  <1>13. Live' \subseteq Ids
    BY <1>3, <1>5, GInvParts
  <1> QED  BY <1>10, <1>12, <1>13, GInvFrom

\* A goal moves below another one, or to the top.
LEMMA ReparentStep ==
    ASSUME GInv, NEW g \in Live, NEW parent \in Ids \cup {NoParent}, ReparentGoal(g, parent)
    PROVE  GInv'
  <1>1. /\ parent \in Live \cup {NoParent} /\ parent # g /\ parent \notin Subtree(g)
        /\ goals' =
             [h \in Live |->
                [goals[h] EXCEPT
                   !.parent = IF h = g THEN parent ELSE goals[h].parent,
                   !.children =
                     IF h # parent THEN Without(goals[h].children, g)
                     ELSE IF Contains(goals[h].children, g) THEN goals[h].children
                          ELSE Append(goals[h].children, g)]]
    BY DEF ReparentGoal
  <1>2. Live' = Live
    BY <1>1 DEF Live
  <1>3. ASSUME NEW h \in Live
        PROVE  \E l \in Seq(Ids) :
                  /\ goals'[h] = [goals[h] EXCEPT
                        !.parent = IF h = g THEN parent ELSE goals[h].parent,
                        !.children = l]
                  /\ ToSet(l) = (Children(h) \ {g}) \cup (IF h = parent THEN {g} ELSE {})
                  /\ IsInjective(l)
    <2>1. /\ goals[h].children \in Seq(Ids) /\ IsInjective(goals[h].children)
          /\ Children(h) = ToSet(goals[h].children) /\ g \in Ids
      BY GInvParts DEF Children
    <2>2. PICK s : s = goals[h].children
      OBVIOUS
    <2>3. CASE h # parent
      <3>1. PICK l : l = Without(s, g)
        OBVIOUS
      <3>2. l \in Seq(Ids) /\ ToSet(l) = ToSet(s) \ {g} /\ IsInjective(l)
        BY <2>1, <2>2, <3>1, WithoutIs
      <3>3. goals'[h] = [goals[h] EXCEPT
                           !.parent = IF h = g THEN parent ELSE goals[h].parent,
                           !.children = l]
        BY <1>1, <2>2, <2>3, <3>1
      <3> QED  BY <2>1, <2>2, <2>3, <3>2, <3>3
    <2>4. CASE h = parent /\ Contains(s, g)
      <3>1. goals'[h] = [goals[h] EXCEPT
                           !.parent = IF h = g THEN parent ELSE goals[h].parent,
                           !.children = s]
        BY <1>1, <2>2, <2>4
      <3>2. g \in ToSet(s)
        BY <2>1, <2>2, <2>4, LenProperties DEF Contains, ToSet
      <3>3. ToSet(s) = (Children(h) \ {g}) \cup (IF h = parent THEN {g} ELSE {})
        BY <2>1, <2>2, <2>4, <3>2
      <3>4. s \in Seq(Ids) /\ IsInjective(s)
        BY <2>1, <2>2
      <3> QED  BY <3>1, <3>3, <3>4
    <2>5. CASE h = parent /\ ~Contains(s, g)
      <3>1. PICK l : l = Append(s, g)
        OBVIOUS
      <3>2. g \notin ToSet(s)
        BY <2>1, <2>2, <2>5, LenProperties DEF Contains, ToSet
      <3>3. l \in Seq(Ids) /\ ToSet(l) = ToSet(s) \cup {g} /\ IsInjective(l)
        BY <2>1, <2>2, <3>1, <3>2, Appending
      <3>4. goals'[h] = [goals[h] EXCEPT
                           !.parent = IF h = g THEN parent ELSE goals[h].parent,
                           !.children = l]
        BY <1>1, <2>2, <2>5, <3>1
      <3>5. ToSet(l) = (Children(h) \ {g}) \cup (IF h = parent THEN {g} ELSE {})
        BY <2>1, <2>2, <2>5, <3>2, <3>3
      <3> QED  BY <3>3, <3>4, <3>5
    <2> QED  BY <2>3, <2>4, <2>5
  <1>4. ASSUME NEW h \in Live
        PROVE  /\ goals'[h] \in Goal /\ (goals'[h].state = "completed" => goals'[h].dated)
               /\ goals'[h].parent = IF h = g THEN parent ELSE goals[h].parent
               /\ Children(h)' = (Children(h) \ {g}) \cup (IF h = parent THEN {g} ELSE {})
               /\ IsInjective(goals'[h].children)
    <2>1. PICK l \in Seq(Ids) :
              /\ goals'[h] = [goals[h] EXCEPT
                    !.parent = IF h = g THEN parent ELSE goals[h].parent,
                    !.children = l]
              /\ ToSet(l) = (Children(h) \ {g}) \cup (IF h = parent THEN {g} ELSE {})
              /\ IsInjective(l)
      BY <1>3
    <2>2. goals[h] \in Goal /\ (goals[h].state = "completed" => goals[h].dated)
      BY DEF GInv, TypeOK
    <2>3. PICK p : p = IF h = g THEN parent ELSE goals[h].parent
      OBVIOUS
    <2>4. p \in Ids \cup {NoParent}
      BY <2>2, <2>3 DEF Goal
    <2>5. /\ goals'[h] \in Goal /\ goals'[h].state = goals[h].state
          /\ goals'[h].dated = goals[h].dated /\ goals'[h].parent = p /\ goals'[h].children = l
      BY <2>1, <2>2, <2>3, <2>4 DEF Goal
    <2>6. Children(h)' = ToSet(l)
      BY <2>5 DEF Children
    <2> QED  BY <2>1, <2>2, <2>3, <2>5, <2>6
  <1>5. ASSUME NEW h \in Live'
        PROVE  /\ goals'[h] \in Goal /\ (goals'[h].state = "completed" => goals'[h].dated)
               /\ goals'[h].parent \in Live' \cup {NoParent}
               /\ Children(h)' = {k \in Live' : goals'[k].parent = h}
               /\ IsInjective(goals'[h].children)
    <2>1. /\ Children(h) = {k \in Live : goals[k].parent = h}
          /\ goals[h].parent \in Live \cup {NoParent}
      BY <1>2, GInvParts
    <2>2. \A k \in Live : goals'[k].parent = h <=> IF k = g THEN h = parent ELSE k \in Children(h)
      BY <1>4, <2>1
    <2>3. Children(h)' = {k \in Live' : goals'[k].parent = h}
      BY <1>2, <1>4, <2>1, <2>2
    <2> QED  BY ZenonT(40), <1>1, <1>2, <1>4, <2>1, <2>3
  <1>6. SubtreeIs(g) /\ Walks
    BY GInvParts, GoalsWalk DEF Walks
  <1>7. ASSUME NEW X, ClosedBelow(X), parent \in X => g \in X
        PROVE  ClosedBelow(X)'
    BY <1>2, <1>4, <1>7 DEF ClosedBelow
  <1>8. ASSUME NEW h \in Live', NEW c \in Children(h)'
        PROVE  \E X : c \in X /\ h \notin X /\ ClosedBelow(X)'
    <2>1. CASE c = g
      <3>1. h = parent
        BY <1>2, <1>4, <2>1
      <3>2. g \in Subtree(g) /\ parent \notin Subtree(g) /\ ClosedBelow(Subtree(g))
        BY <1>1, <1>6 DEF SubtreeIs
      <3> QED  BY <1>7, <2>1, <3>1, <3>2
    <2>2. CASE c # g
      <3>1. h \in Live /\ c \in Children(h)
        BY <1>2, <1>4, <2>2
      <3>2. /\ SubtreeIs(c) /\ c \in Subtree(c) /\ h \notin Subtree(c) /\ ClosedBelow(Subtree(c))
        BY <3>1, ChildApart
      <3>3. CASE parent \notin Subtree(c)
        BY <1>7, <3>2, <3>3
      <3>4. CASE parent \in Subtree(c)
        <4>1. PICK X : X = Subtree(c) \cup Subtree(g)
          OBVIOUS
        <4>2. ClosedBelow(Subtree(g)) /\ g \in Subtree(g)
          BY <1>6 DEF SubtreeIs
        <4>3. ClosedBelow(X) /\ c \in X /\ g \in X
          BY <3>2, <4>1, <4>2 DEF ClosedBelow
        <4>4. h \notin Subtree(g)
          <5> SUFFICES ASSUME h \in Subtree(g)
                       PROVE  FALSE
            OBVIOUS
          <5>1. c \in Subtree(g)
            BY <3>1, <4>2 DEF ClosedBelow
          <5>2. Subtree(c) \subseteq Subtree(g)
            BY <3>2, <4>2, <5>1 DEF SubtreeIs
          <5> QED  BY <1>1, <3>4, <5>2
        <4> QED  BY <1>7, <3>2, <4>1, <4>3, <4>4
      <3> QED  BY <3>3, <3>4
    <2> QED  BY <2>1, <2>2
  <1>9. Live' \subseteq Ids
    BY <1>2, GInvParts
  <1> QED  BY <1>5, <1>8, <1>9, GInvFrom

\* A goal goes, with everything below it.
LEMMA DeleteStep ==
    ASSUME GInv, NEW g \in Live, DeleteGoal(g)
    PROVE  GInv'
  <1>1. goals' = [h \in Live \ Subtree(g) |->
                    IF h = goals[g].parent
                      THEN [goals[h] EXCEPT !.children = RemoveFirst(goals[h].children, g)]
                      ELSE goals[h]]
    BY DEF DeleteGoal
  <1>2. Live' = Live \ Subtree(g)
    BY <1>1 DEF Live
  <1>3. SubtreeIs(g) /\ GoalsTyped /\ g \in Ids
    BY GInvParts, WalkEnds
  <1>4. ASSUME NEW h \in Live'
        PROVE  /\ goals'[h] \in Goal /\ (goals'[h].state = "completed" => goals'[h].dated)
               /\ goals'[h].parent = goals[h].parent
               /\ Children(h)' = Children(h) \ (IF h = goals[g].parent THEN {g} ELSE {})
               /\ IsInjective(goals'[h].children)
    <2>1. /\ h \in Live /\ goals[h] \in Goal /\ (goals[h].state = "completed" => goals[h].dated)
          /\ goals[h].children \in Seq(Ids) /\ IsInjective(goals[h].children)
      BY <1>2, GInvParts DEF GInv, TypeOK
    <2>2. CASE h # goals[g].parent
      <3>1. goals'[h] = goals[h]
        BY <1>1, <1>2, <2>2
      <3> QED  BY <2>1, <2>2, <3>1 DEF Children
    <2>3. CASE h = goals[g].parent
      <3>1. PICK s, l : s = goals[h].children /\ l = RemoveFirst(s, g)
        OBVIOUS
      <3>2. l \in Seq(Ids) /\ ToSet(l) = ToSet(s) \ {g} /\ IsInjective(l)
        BY <2>1, <3>1, RemoveFirstIs
      <3>3. goals'[h] = [goals[h] EXCEPT !.children = l]
        BY <1>1, <1>2, <2>3, <3>1
      <3>4. /\ goals'[h] \in Goal /\ goals'[h].state = goals[h].state
            /\ goals'[h].dated = goals[h].dated /\ goals'[h].parent = goals[h].parent
            /\ goals'[h].children = l
        BY <2>1, <3>2, <3>3 DEF Goal
      <3> QED  BY SMTT(30), <2>1, <2>3, <3>1, <3>2, <3>4 DEF Children
    <2> QED  BY <2>2, <2>3
  <1>5. ASSUME NEW h \in Live', NEW k \in Live, goals[k].parent = h, k \in Subtree(g)
        PROVE  k = g
    <2> SUFFICES ASSUME k # g
                 PROVE  FALSE
      OBVIOUS
    <2>1. PICK d \in Subtree(g) \cap Live : k \in Children(d)
      BY <1>3, <1>5, BelowByParent
    <2>2. goals[k].parent = d
      BY <2>1, GInvParts
    <2> QED  BY <1>2, <1>5, <2>1, <2>2
  <1>6. ASSUME NEW h \in Live'
        PROVE  /\ goals'[h].parent \in Live' \cup {NoParent}
               /\ Children(h)' = {k \in Live' : goals'[k].parent = h}
    <2>1. /\ h \in Live /\ Children(h) = {k \in Live : goals[k].parent = h}
          /\ goals[h].parent \in Live \cup {NoParent}
      BY <1>2, GInvParts
    <2>2. goals[h].parent \in Live' \cup {NoParent}
      <3> SUFFICES ASSUME goals[h].parent \in Live, goals[h].parent \in Subtree(g)
                   PROVE  FALSE
        BY <1>2, <2>1
      <3>1. h \in Children(goals[h].parent)
        BY <2>1, GInvParts
      <3>2. h \in Subtree(g)
        BY <1>3, <3>1 DEF SubtreeIs, ClosedBelow
      <3> QED  BY <1>2, <3>2
    <2>3. \A k : k \in Live' <=> k \in Live /\ k \notin Subtree(g)
      BY <1>2
    <2>4. g \in Subtree(g)
      BY <1>3 DEF SubtreeIs
    <2>5. ASSUME NEW k \in Children(h)'
          PROVE  k \in Live' /\ goals'[k].parent = h
      <3>1. k \in Live /\ goals[k].parent = h
        BY <1>4, <2>1
      <3>2. k # g
        BY <1>4, <2>1, <3>1
      <3>3. k \in Live'
        BY <1>5, <2>3, <3>1, <3>2
      <3> QED  BY <1>4, <3>1, <3>3
    <2>6. ASSUME NEW k \in Live', goals'[k].parent = h
          PROVE  k \in Children(h)'
      <3>1. k \in Live /\ k # g /\ goals[k].parent = h
        BY <1>4, <2>3, <2>4, <2>6
      <3> QED  BY <1>4, <2>1, <3>1
    <2> QED  BY <1>4, <2>2, <2>5, <2>6
  <1>7. ASSUME NEW X, ClosedBelow(X)
        PROVE  ClosedBelow(X)'
    BY <1>2, <1>4, <1>7 DEF ClosedBelow
  <1>8. ASSUME NEW h \in Live', NEW c \in Children(h)'
        PROVE  \E X : c \in X /\ h \notin X /\ ClosedBelow(X)'
    <2>1. h \in Live /\ c \in Children(h)
      BY <1>2, <1>4
    <2>2. c \in Subtree(c) /\ h \notin Subtree(c) /\ ClosedBelow(Subtree(c))
      BY <2>1, ChildApart
    <2> QED  BY <1>7, <2>2
  <1>9. Live' \subseteq Ids
    BY <1>2, GInvParts
  <1> QED  BY <1>4, <1>6, <1>8, <1>9, GInvFrom

\* The state of goals without any.
LEMMA GInvInit == Init => GInv
  <1> SUFFICES ASSUME Init
               PROVE  GInv
    OBVIOUS
  <1>1. Live = {}
    BY DEF Init, Live
  <1> QED  BY <1>1 DEF GInv, TypeOK, LinksAgree, NoCycle

\* Every operation preserves the invariant.
LEMMA GoalStep ==
    ASSUME GInv, Next
    PROVE  GInv'
  <1>1. CASE \E p \in Ids \cup {NoParent} : NewGoal(p)
    BY <1>1, NewStep
  <1>2. ASSUME NEW g \in Live, FailGoal(g) \/ ToggleGoalState(g) \/ CompleteGoal(g)
        PROVE  GInv'
    <2>1. goals[g].dated \in BOOLEAN /\ TRUE \in BOOLEAN /\ FALSE \in BOOLEAN
      BY GInvParts
    <2>2. "failed" \in States /\ "completed" \in States /\ "active" \in States
      BY DEF States
    <2>3. CASE FailGoal(g)
      BY <2>1, <2>2, <2>3, StateStep DEF FailGoal
    <2>4. CASE ToggleGoalState(g)
      BY <2>1, <2>2, <2>4, StateStep DEF ToggleGoalState
    <2>5. CASE CompleteGoal(g)
      BY <2>1, <2>2, <2>5, StateStep DEF CompleteGoal
    <2> QED  BY <1>2, <2>3, <2>4, <2>5
  <1>3. ASSUME NEW g \in Live, NEW s \in States, UpdateGoal(g, s)
        PROVE  GInv'
    <2>1. (s = "completed") \in BOOLEAN
      OBVIOUS
    <2> QED  BY <1>3, <2>1, StateStep DEF UpdateGoal
  <1>4. ASSUME NEW g \in Live, NEW p \in Ids \cup {NoParent}, ReparentGoal(g, p)
        PROVE  GInv'
    BY <1>4, ReparentStep
  <1>5. ASSUME NEW g \in Live, DeleteGoal(g)
        PROVE  GInv'
    BY <1>5, DeleteStep
  <1> QED  BY <1>1, <1>2, <1>3, <1>4, <1>5 DEF Next

\* The invariant of the goals.
LEMMA GoalsInvariant == Spec => []GInv
  <1>1. GInv /\ [Next]_goals => GInv'
    <2> SUFFICES ASSUME GInv, [Next]_goals
                 PROVE  GInv'
      OBVIOUS
    <2>1. CASE Next
      BY <2>1, GoalStep
    <2>2. CASE UNCHANGED goals
      <3>1. Live' = Live /\ \A g \in Live : goals'[g] = goals[g] /\ Children(g)' = Children(g)
        BY <2>2 DEF Live, Children
      <3>2. \A X : ClosedBelow(X) => ClosedBelow(X)'
        BY <3>1 DEF ClosedBelow
      <3>3. ASSUME NEW g \in Live', NEW c \in Children(g)'
            PROVE  \E X : c \in X /\ g \notin X /\ ClosedBelow(X)'
        BY <3>1, <3>2, ChildApart
      <3>4. ASSUME NEW g \in Live'
            PROVE  /\ goals'[g] \in Goal /\ (goals'[g].state = "completed" => goals'[g].dated)
                   /\ goals'[g].parent \in Live' \cup {NoParent}
                   /\ Children(g)' = {h \in Live' : goals'[h].parent = g}
                   /\ IsInjective(goals'[g].children)
        BY <3>1, GInvParts DEF GoalsTyped
      <3> QED  BY <3>1, <3>3, <3>4, GInvParts, GInvFrom
    <2> QED  BY <2>1, <2>2
  <1> QED  BY <1>1, GInvInit, PTL DEF Spec

\* GoalsSound for every number of goals: the two records of the tree agree after any
\* operations, a goal that is deleted leaves no link behind, and a completed one is
\* dated.
THEOREM GoalsAreSound == Spec => []GoalsSound
  <1>1. GInv => GoalsSound
    BY DEF GInv, GoalsSound
  <1> QED  BY <1>1, GoalsInvariant, PTL

\* NoCycle for every number of goals: no operation puts a goal below itself.
THEOREM GoalsHaveNoCycle == Spec => []NoCycle
  <1>1. GInv => NoCycle
    BY DEF GInv
  <1> QED  BY <1>1, GoalsInvariant, PTL

\* A client that reads the goals page by page only watches: whatever it does
\* meanwhile, the goals change by the operations of Goals alone (list_goals,
\* api.py:159, writes nothing back).
THEOREM ReadersOnlyWatch == PagesSpec => Spec
  <1>1. PagesInit => Init
    BY DEF PagesInit
  <1>2. [PagesNext]_vars => [Next]_goals
    <2> SUFFICES ASSUME [PagesNext]_vars
                 PROVE  Next \/ UNCHANGED goals
      OBVIOUS
    <2>1. CASE Write
      BY <2>1 DEF Write, Next, EditGoal, LogGoal, MoveGoal
    <2>2. CASE \E state \in StatesRead, limit \in PageSizes : Ask(state, limit)
      BY <2>2 DEF Ask
    <2>3. CASE ReadPage \/ Stop
      BY <2>3 DEF ReadPage, Stop
    <2>4. CASE UNCHANGED vars
      BY <2>4 DEF vars
    <2> QED  BY <2>1, <2>2, <2>3, <2>4 DEF PagesNext
  <1> QED  BY <1>1, <1>2, PTL DEF PagesSpec, Spec

-----------------------------------------------------------------------------
(* GoalPages: its invariant PageInv, beside the one of the goals.          *)

\* What a client has read of a listing up to `offset`: it was shown what is listed
\* there, with everything below it if nobody wrote.
ReadSoFar(state, newer, offset, shown, excused, left, writes) ==
    \A g \in ListedRoots(state) : Position(newer, state, g) < offset =>
        /\ left \/ g \in shown \cup excused
        /\ writes = 0 => Subtree(g) \subseteq shown

ReaderAt(phase, state, limit, newer, offset, shown, excused, left, writes) ==
    /\ reader = [phase |-> phase, state |-> state, limit |-> limit, newer |-> newer,
                 offset |-> offset, shown |-> shown, excused |-> excused, left |-> left,
                 writes |-> writes]
    /\ phase \in {"reading", "read"} /\ state \in States /\ limit \in Nat \ {0}
    /\ offset \in Nat /\ left \in BOOLEAN /\ writes \in Nat
    /\ \A g : <<g, g>> \notin newer
    /\ ReadSoFar(state, newer, offset, shown, excused, left, writes)
    /\ phase = "read" => Total(state) =< offset

PageInv ==
    \/ reader = NotReading
    \/ \E phase, state, limit, newer, offset, shown, excused, left, writes :
          ReaderAt(phase, state, limit, newer, offset, shown, excused, left, writes)

LEMMA FiniteListing ==
    ASSUME GInv, NEW state
    PROVE  IsFiniteSet(ListedRoots(state))
  <1>1. IsFiniteSet(Ids)
    BY GoalsAssumption, FS_Interval DEF Ids
  <1>2. ListedRoots(state) \subseteq Ids
    BY DEF ListedRoots, GInv, TypeOK
  <1> QED  BY <1>1, <1>2, FS_Subset

LEMMA GInvWalks == GInv => Walks
  BY GInvParts, GoalsWalk

\* What was read stays so while the goals stay as they are.
LEMMA SameGoals ==
    ASSUME GInv, GInv', goals' = goals, NEW state, NEW newer, NEW offset, NEW shown,
           NEW excused, NEW left, NEW writes,
           ReadSoFar(state, newer, offset, shown, excused, left, writes)
    PROVE  ReadSoFar(state, newer, offset, shown, excused, left, writes)'
  <1>1. /\ ListedRoots(state)' = ListedRoots(state)
        /\ \A g : Position(newer, state, g)' = Position(newer, state, g)
    BY DEF ListedRoots, Live, Position
  <1>2. ASSUME NEW g \in Live
        PROVE  Subtree(g)' = Subtree(g)
    <2>1. SubtreeIs(g)
      BY GInvParts, WalkEnds
    <2>2. Walks'
      BY GInvWalks, PTL
    <2>3. g \in Ids
      BY GInvParts
    <2>4. SubtreeIs(g)'
      BY <2>2, <2>3 DEF Walks
    <2>5. \A X : ClosedBelow(X)' <=> ClosedBelow(X)
      BY DEF ClosedBelow, Live, Children
    <2>6. /\ g \in Subtree(g) /\ ClosedBelow(Subtree(g))
          /\ \A X : g \in X /\ ClosedBelow(X) => Subtree(g) \subseteq X
      BY <2>1 DEF SubtreeIs
    <2>7. PICK Y : Y = Subtree(g)'
      OBVIOUS
    <2>8. /\ g \in Y /\ ClosedBelow(Y)'
          /\ \A X : g \in X /\ ClosedBelow(X)' => Y \subseteq X
      BY <2>4, <2>7 DEF SubtreeIs
    <2> QED  BY <2>5, <2>6, <2>7, <2>8
  <1> QED  BY <1>1, <1>2 DEF ReadSoFar, ListedRoots

\* A listing is finite, and the place of a goal in it is a number below its length.
LEMMA Places ==
    ASSUME GInv, NEW state, NEW newer, \A g : <<g, g>> \notin newer
    PROVE  /\ IsFiniteSet(ListedRoots(state)) /\ Total(state) \in Nat
           /\ \A g \in ListedRoots(state) :
                 /\ Position(newer, state, g) \in Nat
                 /\ Position(newer, state, g) < Total(state)
  <1>1. IsFiniteSet(ListedRoots(state))
    BY FiniteListing
  <1>2. Total(state) \in Nat
    BY <1>1, FS_CardinalityType DEF Total
  <1>3. ASSUME NEW g \in ListedRoots(state)
        PROVE  /\ Position(newer, state, g) \in Nat
               /\ Position(newer, state, g) < Total(state)
    <2>1. PICK B : B = {h \in ListedRoots(state) : <<h, g>> \in newer}
      OBVIOUS
    <2>2. B \subseteq ListedRoots(state) /\ B # ListedRoots(state)
      BY <2>1
    <2>3. /\ IsFiniteSet(B) /\ Cardinality(B) \in Nat
          /\ Cardinality(B) =< Cardinality(ListedRoots(state))
          /\ Cardinality(B) # Cardinality(ListedRoots(state))
      BY <1>1, <2>2, FS_Subset, FS_CardinalityType
    <2> QED  BY <1>2, <2>1, <2>3 DEF Position, Total
  <1> QED  BY <1>1, <1>2, <1>3

\* A write while a client reads.
LEMMA MeetsKeeps ==
    ASSUME GInv, GInv', PageInv, reader.phase # "read", NEW touched, Meets(touched)
    PROVE  PageInv'
  <1>1. CASE ~Reading
    <2>1. reader' = reader
      BY <1>1 DEF Meets
    <2>2. reader = NotReading
      BY <1>1 DEF PageInv, ReaderAt, Reading
    <2> QED  BY <2>1, <2>2 DEF PageInv, NotReading
  <1>2. CASE Reading
    <2>1. PICK phase, state, limit, newer, offset, shown, excused, left, writes :
             ReaderAt(phase, state, limit, newer, offset, shown, excused, left, writes)
      BY <1>2 DEF PageInv, Reading, NotReading
    <2>2. /\ reader = [phase |-> phase, state |-> state, limit |-> limit, newer |-> newer,
                       offset |-> offset, shown |-> shown, excused |-> excused,
                       left |-> left, writes |-> writes]
          /\ phase = "reading" /\ reader.state = state
      BY <1>2, <2>1 DEF ReaderAt, Reading
    <2>3. PICK before, after, kept, over :
             /\ before = ListedRoots(state) /\ after = ListedRoots(state)'
             /\ kept = (newer \cap (Live' \X (Live' \ touched)))
                         \cup (touched \X (Live' \ touched))
             /\ over = (left \/ ~(before \subseteq after))
      OBVIOUS
    <2>4. reader' = [reader EXCEPT
                        !.newer = (@ \cap (Live' \X (Live' \ touched)))
                                    \cup (touched \X (Live' \ touched)),
                        !.excused = @ \cup touched
                                      \cup (ListedRoots(state)' \ ListedRoots(state)),
                        !.left = @ \/ ~(ListedRoots(state) \subseteq ListedRoots(state)'),
                        !.writes = @ + 1]
      BY <1>2, <2>2 DEF Meets
    <2>5. reader' = [reader EXCEPT
                        !.newer = kept, !.excused = excused \cup touched \cup (after \ before),
                        !.left = over, !.writes = writes + 1]
      BY <2>2, <2>3, <2>4
    <2>6. /\ before = ListedRoots(state) /\ after = ListedRoots(state)'
          /\ kept = (newer \cap (Live' \X (Live' \ touched)))
                      \cup (touched \X (Live' \ touched))
          /\ over = (left \/ ~(before \subseteq after))
          /\ reader' = [phase |-> phase, state |-> state, limit |-> limit,
                        newer |-> kept, offset |-> offset, shown |-> shown,
                        excused |-> excused \cup touched \cup (after \ before),
                        left |-> over, writes |-> writes + 1]
      BY ZenonT(40), <2>2, <2>3, <2>5
    <2>7. \A g : <<g, g>> \notin kept
      BY <2>1, <2>6 DEF ReaderAt
    <2>8. writes + 1 \in Nat /\ writes + 1 # 0 /\ over \in BOOLEAN
      BY <2>1, <2>6 DEF ReaderAt
    <2>9. ASSUME NEW g \in after, Position(kept, state, g)' < offset, ~over
          PROVE  g \in shown \cup (excused \cup touched \cup (after \ before))
      <3> SUFFICES ASSUME g \in before, g \notin touched
                   PROVE  g \in shown \cup excused
        OBVIOUS
      <3>1. PICK A, B : /\ B = {h \in before : <<h, g>> \in newer}
                        /\ A = {h \in after : <<h, g>> \in kept}
        OBVIOUS
      <3>2. before \subseteq after /\ after \subseteq Live'
        BY ZenonT(40), <2>6, <2>9 DEF ListedRoots
      <3>3. B \subseteq A
        BY <2>6, <3>1, <3>2
      <3>4. IsFiniteSet(after)
        <4>1. IsFiniteSet(ListedRoots(state))'
          BY FiniteListing, PTL
        <4> QED  BY <2>6, <4>1
      <3>5. /\ IsFiniteSet(A) /\ Cardinality(B) =< Cardinality(A)
            /\ Cardinality(A) \in Nat /\ Cardinality(B) \in Nat
        BY <3>1, <3>3, <3>4, FS_Subset, FS_CardinalityType
      <3>6. Position(newer, state, g) = Cardinality(B)
        BY <2>6, <3>1 DEF Position
      <3>7. Position(kept, state, g)' = Cardinality(A)
        BY <2>6, <3>1 DEF Position
      <3>8. Cardinality(B) < offset
        <4>1. offset \in Nat
          BY <2>1 DEF ReaderAt
        <4> QED  BY <2>9, <3>5, <3>7, <4>1
      <3>9. ~left
        BY <2>6, <2>9
      <3> QED  BY <2>1, <2>6, <3>6, <3>8, <3>9 DEF ReaderAt, ReadSoFar
    <2>10. ReadSoFar(state, kept, offset, shown, excused \cup touched \cup (after \ before),
                    over, writes + 1)'
      BY <2>6, <2>8, <2>9 DEF ReadSoFar
    <2>11. ReaderAt(phase, state, limit, kept, offset, shown,
                   excused \cup touched \cup (after \ before), over, writes + 1)'
      BY <2>1, <2>2, <2>6, <2>7, <2>8, <2>10 DEF ReaderAt
    <2> QED  BY <2>11 DEF PageInv
  <1> QED  BY <1>1, <1>2

\* The first page is asked for.
LEMMA AskKeeps ==
    ASSUME GInv, GInv', NEW state \in StatesRead, NEW limit \in PageSizes, Ask(state, limit)
    PROVE  PageInv'
  <1>1. PICK newer \in Orders(Live) :
           reader' = [phase |-> "reading", state |-> state, limit |-> limit,
                      newer |-> newer, offset |-> 0, shown |-> {},
                      excused |-> {}, left |-> FALSE, writes |-> 0]
    BY DEF Ask
  <1>2. state \in States /\ limit \in Nat \ {0}
    BY PagesAssumption
  <1>3. \A g : <<g, g>> \notin newer
    BY <1>1 DEF Orders
  <1>4. goals' = goals
    BY DEF Ask
  <1>5. ReadSoFar(state, newer, 0, {}, {}, FALSE, 0)
    BY <1>3, Places DEF ReadSoFar
  <1>6. ReadSoFar(state, newer, 0, {}, {}, FALSE, 0)'
    BY <1>4, <1>5, SameGoals
  <1>7. ReaderAt("reading", state, limit, newer, 0, {}, {}, FALSE, 0)'
    BY <1>1, <1>2, <1>3, <1>6 DEF ReaderAt
  <1> QED  BY <1>7 DEF PageInv

\* A page is read.
LEMMA ReadPageKeeps ==
    ASSUME GInv, GInv', PageInv, ReadPage
    PROVE  PageInv'
  <1>1. PICK phase, state, limit, newer, offset, shown, excused, left, writes :
           ReaderAt(phase, state, limit, newer, offset, shown, excused, left, writes)
    BY DEF PageInv, ReadPage, Reading, NotReading
  <1>2. /\ reader = [phase |-> phase, state |-> state, limit |-> limit, newer |-> newer,
                     offset |-> offset, shown |-> shown, excused |-> excused,
                     left |-> left, writes |-> writes]
        /\ state \in States /\ limit \in Nat \ {0} /\ offset \in Nat
        /\ left \in BOOLEAN /\ writes \in Nat /\ \A g : <<g, g>> \notin newer
    BY <1>1 DEF ReaderAt
  <1>3. PICK page, more, now :
           /\ page = {g \in ListedRoots(state) :
                        /\ offset =< Position(newer, state, g)
                        /\ Position(newer, state, g) < offset + limit}
           /\ more = HasMore(Total(state), offset, limit)
           /\ now = shown \cup UNION {Serialized(g) : g \in page}
    OBVIOUS
  <1>4. reader' = [reader EXCEPT !.phase = IF more THEN "reading" ELSE "read",
                                  !.offset = offset + limit, !.shown = now]
    <2>1. /\ reader.newer = newer /\ reader.state = state /\ reader.offset = offset
          /\ reader.limit = limit /\ reader.shown = shown
      BY <1>2
    <2> QED  BY <1>3, <2>1, Zenon DEF ReadPage
  <1>5. /\ page = {g \in ListedRoots(state) :
                     /\ offset =< Position(newer, state, g)
                     /\ Position(newer, state, g) < offset + limit}
        /\ more = HasMore(Total(state), offset, limit)
        /\ now = shown \cup UNION {Serialized(g) : g \in page}
        /\ reader' = [phase |-> IF more THEN "reading" ELSE "read", state |-> state,
                      limit |-> limit, newer |-> newer, offset |-> offset + limit,
                      shown |-> now, excused |-> excused, left |-> left,
                      writes |-> writes]
    BY <1>2, <1>3, <1>4
  <1>6. goals' = goals
    BY DEF ReadPage
  <1>7. ASSUME NEW g \in ListedRoots(state), Position(newer, state, g) < offset + limit
        PROVE  /\ left \/ g \in now \cup excused
               /\ writes = 0 => Subtree(g) \subseteq now
    <2>1. Position(newer, state, g) \in Nat
      BY <1>2, Places
    <2>2. CASE Position(newer, state, g) < offset
      BY <1>1, <1>5, <2>2 DEF ReaderAt, ReadSoFar
    <2>3. CASE offset =< Position(newer, state, g)
      <3>1. g \in page
        BY <1>5, <1>7, <2>3
      <3>2. g \in Ids /\ GoalsTyped
        BY GInvParts DEF ListedRoots
      <3>3. g \in Subtree(g)
        BY <3>2, WalkEnds DEF SubtreeIs
      <3> QED  BY <1>5, <3>1, <3>3 DEF Serialized
    <2> QED  BY <1>2, <2>1, <2>2, <2>3
  <1>8. ReadSoFar(state, newer, offset + limit, now, excused, left, writes)
    BY <1>7 DEF ReadSoFar
  <1>9. ReadSoFar(state, newer, offset + limit, now, excused, left, writes)'
    BY <1>6, <1>8, SameGoals
  <1>10. ~more => Total(state)' =< offset + limit
    <2>1. Total(state)' = Total(state)
      BY <1>6 DEF Total, ListedRoots, Live
    <2>2. Total(state) \in Nat
      BY <1>2, Places
    <2>3. offset + limit \in Nat
      BY <1>2
    <2>4. more <=> offset + limit < Total(state)
      BY <1>3 DEF HasMore
    <2> QED  BY <2>1, <2>2, <2>3, <2>4
  <1>11. offset + limit \in Nat
    BY <1>2
  <1>12. ReaderAt(IF more THEN "reading" ELSE "read", state, limit, newer, offset + limit,
                  now, excused, left, writes)'
    BY <1>2, <1>5, <1>9, <1>10, <1>11 DEF ReaderAt
  <1> QED  BY <1>12 DEF PageInv

LEMMA PageStep ==
    ASSUME GInv, GInv', PageInv, [PagesNext]_vars
    PROVE  PageInv'
  <1>1. CASE reader.phase # "read" /\ Write
    <2>1. PICK touched : Meets(touched)
      BY <1>1 DEF Write, EditGoal, LogGoal, MoveGoal
    <2> QED  BY <1>1, <2>1, MeetsKeeps
  <1>2. CASE \E state \in StatesRead, limit \in PageSizes : Ask(state, limit)
    BY <1>2, AskKeeps
  <1>3. CASE ReadPage
    BY <1>3, ReadPageKeeps
  <1>4. CASE Stop
    BY <1>4 DEF Stop, PageInv, NotReading
  <1>5. CASE UNCHANGED vars
    <2>1. goals' = goals /\ reader' = reader
      BY <1>5 DEF vars
    <2>2. CASE reader = NotReading
      BY <2>1, <2>2 DEF PageInv, NotReading
    <2>3. ASSUME NEW phase, NEW state, NEW limit, NEW newer, NEW offset, NEW shown,
                 NEW excused, NEW left, NEW writes,
                 ReaderAt(phase, state, limit, newer, offset, shown, excused, left, writes)
          PROVE  ReaderAt(phase, state, limit, newer, offset, shown, excused, left, writes)'
      <3>1. ReadSoFar(state, newer, offset, shown, excused, left, writes)'
        BY <2>1, <2>3, SameGoals DEF ReaderAt
      <3>2. Total(state)' = Total(state)
        BY <2>1 DEF Total, ListedRoots, Live
      <3> QED  BY <2>1, <2>3, <3>1, <3>2 DEF ReaderAt
    <2> QED  BY <2>2, <2>3 DEF PageInv
  <1> QED  BY <1>1, <1>2, <1>3, <1>4, <1>5 DEF PagesNext

LEMMA PagesInvariant == PagesSpec => [](GInv /\ PageInv)
  <1>1. PagesInit => PageInv
    BY DEF PagesInit, PageInv
  <1>2. GInv /\ GInv' /\ PageInv /\ [PagesNext]_vars => PageInv'
    BY PageStep
  <1>3. PagesSpec => []GInv
    BY ReadersOnlyWatch, GoalsInvariant, PTL
  <1> QED  BY <1>1, <1>2, <1>3, PTL DEF PagesSpec

\* Every goal of a state is at or below a goal that is listed for it.
LEMMA UnderARoot ==
    ASSUME GInv, NEW g \in Live
    PROVE  \E r \in ListedRoots(goals[g].state) : g \in Subtree(r)
  <1> DEFINE state == goals[g].state
  <1>1. \A h \in Live : h \in Ids /\ SubtreeIs(h)
    BY GInvParts, WalkEnds
  <1>2. PICK A : A = {h \in Live : goals[h].state = state /\ g \in Subtree(h)}
    OBVIOUS
  <1>3. g \in A
    BY <1>1, <1>2 DEF SubtreeIs
  <1>4. IsFiniteSet(Ids)
    BY GoalsAssumption, FS_Interval DEF Ids
  <1>5. \A h \in A : /\ IsFiniteSet(Subtree(h)) /\ Cardinality(Subtree(h)) \in Nat
                     /\ Cardinality(Subtree(h)) =< Cardinality(Ids)
    BY <1>1, <1>2, <1>4, FS_Subset, FS_CardinalityType DEF SubtreeIs
  <1>6. PICK T : T = {Cardinality(Ids) - Cardinality(Subtree(h)) : h \in A}
    OBVIOUS
  <1>7. Cardinality(Ids) \in Nat
    BY <1>4, FS_CardinalityType
  <1>8. T \subseteq Nat /\ T # {}
    BY <1>3, <1>5, <1>6, <1>7
  <1>9. PICK n \in T : \A m \in T : n =< m
    BY <1>8, Least
  <1>10. PICK r \in A : n = Cardinality(Ids) - Cardinality(Subtree(r))
    BY <1>6, <1>9
  <1>11. \A h \in A : Cardinality(Subtree(h)) =< Cardinality(Subtree(r))
    BY <1>5, <1>6, <1>7, <1>9, <1>10
  <1> SUFFICES ASSUME r \notin ListedRoots(state)
               PROVE  FALSE
    BY <1>2, <1>10
  <1>12. PICK p \in Live : p = goals[r].parent /\ goals[p].state = state
    BY <1>2, <1>10 DEF ListedRoots
  <1>13. r \in Children(p)
    BY <1>2, <1>12, GInvParts
  <1>14. p \notin Subtree(r) /\ p \in Subtree(p) /\ r \in Subtree(p)
    BY <1>1, <1>12, <1>13 DEF GInv, NoCycle, SubtreeIs, ClosedBelow
  <1>15. Subtree(r) \subseteq Subtree(p)
    BY <1>1, <1>2, <1>14 DEF SubtreeIs
  <1>16. p \in A
    BY <1>2, <1>12, <1>15
  <1>17. Cardinality(Subtree(r)) =< Cardinality(Subtree(p))
         /\ Cardinality(Subtree(r)) # Cardinality(Subtree(p))
    BY <1>5, <1>14, <1>15, <1>16, FS_Subset
  <1> QED  BY <1>5, <1>11, <1>16, <1>17

\* NothingMissed for every number of goals, pages of every size and any writes meanwhile.
THEOREM ReadersMissNothing == PagesSpec => []NothingMissed
  <1>1. ASSUME GInv, PageInv, reader.phase = "read"
        PROVE  /\ reader.writes = 0 => \A g \in Live :
                    goals[g].state = reader.state => g \in reader.shown
               /\ reader.left \/
                    ListedRoots(reader.state) \subseteq reader.shown \cup reader.excused
    <2>1. PICK phase, state, limit, newer, offset, shown, excused, left, writes :
             ReaderAt(phase, state, limit, newer, offset, shown, excused, left, writes)
      BY <1>1 DEF PageInv, NotReading
    <2>2. /\ reader.state = state /\ reader.shown = shown /\ reader.excused = excused
          /\ reader.left = left /\ reader.writes = writes /\ reader.phase = phase
          /\ offset \in Nat /\ Total(state) =< offset
          /\ \A g : <<g, g>> \notin newer
      BY <1>1, <2>1 DEF ReaderAt
    <2>3. \A g \in ListedRoots(state) : Position(newer, state, g) < offset
      <3>1. Total(state) \in Nat
        BY <1>1, <2>2, Places
      <3> SUFFICES ASSUME NEW g \in ListedRoots(state)
                   PROVE  Position(newer, state, g) < offset
        OBVIOUS
      <3>2. Position(newer, state, g) \in Nat /\ Position(newer, state, g) < Total(state)
        BY <1>1, <2>2, Places
      <3> QED  BY <2>2, <3>1, <3>2
    <2>4. \A g \in ListedRoots(state) : /\ left \/ g \in shown \cup excused
                                        /\ writes = 0 => Subtree(g) \subseteq shown
      BY <2>1, <2>3 DEF ReaderAt, ReadSoFar
    <2>5. ASSUME writes = 0, NEW g \in Live, goals[g].state = state
          PROVE  g \in shown
      BY <1>1, <2>4, <2>5, UnderARoot
    <2> QED  BY <2>2, <2>4, <2>5
  <1>2. GInv /\ PageInv => NothingMissed
    BY <1>1 DEF NothingMissed
  <1> QED  BY <1>2, PagesInvariant, PTL

-----------------------------------------------------------------------------
Working(a) == pc[a] \in {"claimed", "mutated", "missed", "raised"}

InFile ==
    \A a \in Attempts :
        /\ pc[a] = "mutated" => a \in applied
        /\ pc[a] \in {"unsent", "claimed", "missed"} => a \notin applied

OneWorker ==
    void = {} =>
        /\ \A a, b \in Attempts : Working(a) /\ Working(b) => a = b
        /\ \A a \in Attempts : Working(a) => record = Pending(payload[a])
        /\ \A a \in applied : pc[a] = "mutated" \/ record.status = "complete"
        /\ \A a, b \in applied : a = b

\* The write of b, an answer of the given kind to one who asked for p.
Truthful(kind, b, p) ==
    /\ b \in Attempts /\ pc[b] = "answered"
    /\ kind = "done" <=> b \in applied
    /\ payload[b] = p

Reported ==
    /\ record.status = "complete" => Truthful(record.kind, record.body, record.payload)
    /\ \A a \in Attempts : answer[a].kind \in Outcomes =>
          Truthful(answer[a].kind, answer[a].body, payload[a])

RInv == RetryTypeOK /\ InFile /\ OneWorker /\ Reported
-----------------------------------------------------------------------------
\* The forms of the record are records.
LEMMA FormsAreRecords ==
    /\ Nothing \in Records
    /\ \A p \in Payloads : Pending(p) \in Records
    /\ \A p \in Payloads, a \in Attempts :
          \A kind \in Outcomes : Complete(p, kind, a) \in Records
  BY DEF Records

\* The three forms of the record.
LEMMA RecordForms ==
    ASSUME record \in Records
    PROVE  \/ record = Nothing /\ record.status = "none"
           \/ \E p \in Payloads : /\ record = Pending(p)
                                  /\ record.status = "pending" /\ record.payload = p
           \/ \E p \in Payloads, a \in Attempts : \E kind \in Outcomes :
                 /\ record = Complete(p, kind, a) /\ record.status = "complete"
                 /\ record.payload = p /\ record.body = a /\ record.kind = kind
  <1>1. CASE record = Nothing
    BY <1>1 DEF Nothing
  <1>2. ASSUME NEW p \in Payloads, record = Pending(p)
        PROVE  record.status = "pending" /\ record.payload = p
    BY <1>2 DEF Pending
  <1>3. ASSUME NEW p \in Payloads, NEW a \in Attempts, NEW kind, record = Complete(p, kind, a)
        PROVE  /\ record.status = "complete" /\ record.payload = p
               /\ record.body = a /\ record.kind = kind
    BY <1>3 DEF Complete
  <1>4. \/ record = Nothing \/ \E p \in Payloads : record = Pending(p)
        \/ \E p \in Payloads, a \in Attempts, kind \in Outcomes :
              record = Complete(p, kind, a)
    BY DEF Records
  <1> QED
    BY <1>1, <1>2, <1>3, <1>4

\* A record that is there has a status.
LEMMA Statuses ==
    /\ Nothing.status = "none"
    /\ \A p : Pending(p).status = "pending" /\ Pending(p).payload = p
    /\ \A p, kind, a : /\ Complete(p, kind, a).status = "complete"
                       /\ Complete(p, kind, a).payload = p
                       /\ Complete(p, kind, a).kind = kind
                       /\ Complete(p, kind, a).body = a
  BY DEF Nothing, Pending, Complete

\* The invariant holds at the start.
LEMMA InitInv == RetryInit => RInv
  <1> SUFFICES ASSUME RetryInit PROVE RInv
    OBVIOUS
  <1>1. RetryTypeOK
    BY IdempotencyAssumption DEF RetryInit, RetryTypeOK, Records, Answers, NoAnswer
  <1>2. InFile
    BY DEF RetryInit, InFile
  <1>3. OneWorker
    BY DEF RetryInit, OneWorker, Working
  <1>4. Reported
    BY Statuses DEF RetryInit, Reported, NoAnswer, Outcomes
  <1> QED
    BY <1>1, <1>2, <1>3, <1>4 DEF RInv

-----------------------------------------------------------------------------
\* An answer is of its type.
LEMMA ReplyType ==
    ASSUME RetryTypeOK, NEW a \in Attempts, NEW kind, NEW body, Reply(a, kind, body),
           \/ kind \in {"error", "conflict", "in progress"} /\ body = NoAttempt
           \/ kind \in Outcomes /\ body \in Attempts
    PROVE  /\ answer' \in [Attempts -> Answers]
           /\ answer'[a] = [kind |-> kind, body |-> body]
           /\ \A b \in Attempts : b # a => answer'[b] = answer[b]
           /\ pc' = [pc EXCEPT ![a] = "answered"]
  <1>1. [kind |-> kind, body |-> body] \in Answers
    BY DEF Answers
  <1> QED
    BY <1>1 DEF Reply, RetryTypeOK

\* Every action keeps the types.
LEMMA TypeStep == RetryTypeOK /\ [RetryNext]_retryVars => RetryTypeOK'
  <1> SUFFICES ASSUME RetryTypeOK, [RetryNext]_retryVars PROVE RetryTypeOK'
    OBVIOUS
  <1>0. /\ PendingTTL \in Nat \ {0} /\ CompleteTTL \in Nat \ {0}
        /\ 0 \in 0..(PendingTTL + CompleteTTL)
        /\ PendingTTL \in 0..(PendingTTL + CompleteTTL)
        /\ CompleteTTL \in 0..(PendingTTL + CompleteTTL)
    BY IdempotencyAssumption
  <1>1. CASE UNCHANGED retryVars
    BY <1>1 DEF retryVars, RetryTypeOK
  <1>2. CASE Tick
    <2>1. ttl \in Nat /\ ttl > 0 /\ ttl =< PendingTTL + CompleteTTL /\ ttl' = ttl - 1
      <3>1. ttl \in 0..(PendingTTL + CompleteTTL)
        BY DEF RetryTypeOK
      <3>2. ttl > 0 /\ ttl' = ttl - 1
        BY <1>2 DEF Tick
      <3> QED
        BY <1>0, <3>1, <3>2
    <2>2. ttl' \in 0..(PendingTTL + CompleteTTL)
      BY <1>0, <2>1
    <2>3. record' \in Records /\ (record' = Nothing <=> ttl' = 0)
      <3>1. record # Nothing
        <4>1. record = Nothing <=> ttl = 0
          BY DEF RetryTypeOK
        <4> QED
          BY <2>1, <4>1
      <3>2. record' = IF ttl = 1 THEN Nothing ELSE record
        BY <1>2 DEF Tick
      <3>3. ttl' = 0 <=> ttl = 1
        BY <2>1
      <3>4. Nothing \in Records
        BY DEF Records
      <3> QED
        BY <3>1, <3>2, <3>3, <3>4 DEF RetryTypeOK
    <2>4. void' \subseteq {"late refusal", "crash", "slow", "expired"}
      BY <1>2 DEF Tick, RetryTypeOK
    <2>5. UNCHANGED <<pc, payload, answer, applied>>
      BY <1>2 DEF Tick
    <2> QED
      BY <2>2, <2>3, <2>4, <2>5 DEF RetryTypeOK
  <1>3. ASSUME NEW a \in Attempts, Claim(a) PROVE RetryTypeOK'
    <2>1. CASE SetPending(a, PendingTTL)
      <3>1. Pending(payload[a]) \in Records /\ Pending(payload[a]) # Nothing
        <4>1. payload[a] \in Payloads
          BY DEF RetryTypeOK
        <4>2. Pending(payload[a]) \in Records
          BY <4>1, FormsAreRecords
        <4>3. Pending(payload[a]).status # Nothing.status
          BY DEF Pending, Nothing
        <4> QED
          BY <4>2, <4>3
      <3>2. record' = Pending(payload[a]) /\ ttl' = PendingTTL
            /\ pc' = [pc EXCEPT ![a] = "claimed"]
        BY <2>1 DEF SetPending
      <3>3. record' \in Records /\ ttl' \in 0..(PendingTTL + CompleteTTL)
            /\ (record' = Nothing <=> ttl' = 0)
        BY <1>0, <3>1, <3>2
      <3> QED
        BY <1>3, <3>2, <3>3 DEF Claim, RetryTypeOK
    <2>2. CASE FindTaken(a)
      BY <1>3, <2>2 DEF Claim, FindTaken, RetryTypeOK
    <2> QED
      BY <1>3, <2>1, <2>2 DEF Claim
  <1>4. ASSUME NEW a \in Attempts, Lookup(a) PROVE RetryTypeOK'
    <2>1. PICK kind, body :
            /\ Reply(a, kind, body)
            /\ \/ kind \in {"error", "conflict", "in progress"} /\ body = NoAttempt
               \/ kind \in Outcomes /\ body \in Attempts
      <3>1. CASE record = Nothing
        BY <1>4, <3>1 DEF Lookup
      <3>2. CASE record # Nothing /\ record.payload # payload[a]
        BY <1>4, <3>2 DEF Lookup
      <3>3. CASE record = Pending(payload[a])
        BY <1>4, <3>3, Statuses DEF Lookup
      <3>4. CASE /\ record # Nothing /\ record.payload = payload[a]
                 /\ record # Pending(payload[a])
        <4>1. Reply(a, record.kind, record.body)
          BY <1>4, <3>4 DEF Lookup
        <4>2. record.kind \in Outcomes /\ record.body \in Attempts
          BY <3>4, RecordForms DEF RetryTypeOK
        <4> QED
          BY <4>1, <4>2
      <3> QED
        BY <3>1, <3>2, <3>3, <3>4
    <2>2. /\ answer' \in [Attempts -> Answers] /\ pc' = [pc EXCEPT ![a] = "answered"]
      BY <2>1, ReplyType
    <2> QED
      BY <1>4, <2>2 DEF Lookup, RetryTypeOK
  <1>5. ASSUME NEW a \in Attempts, Mutate(a) \/ MutateNothing(a) \/ Refuse(a) PROVE RetryTypeOK'
    BY <1>5 DEF Mutate, MutateNothing, Refuse, RetryTypeOK
  <1>6. ASSUME NEW a \in Attempts, RefuseLate(a) \/ Crash(a) PROVE RetryTypeOK'
    BY <1>6 DEF RefuseLate, Crash, RetryTypeOK
  <1>7. ASSUME NEW a \in Attempts, Withdraw(a) PROVE RetryTypeOK'
    <2>1. /\ answer' \in [Attempts -> Answers] /\ pc' = [pc EXCEPT ![a] = "answered"]
      BY <1>7, ReplyType DEF Withdraw
    <2> QED
      BY <1>0, <1>7, <2>1, FormsAreRecords DEF Withdraw, RetryTypeOK
  <1>8. ASSUME NEW a \in Attempts, Record(a) PROVE RetryTypeOK'
    <2>1. PICK kind : /\ kind = "done" \/ kind = "not found"
                      /\ record' = Complete(payload[a], kind, a) /\ Reply(a, kind, a)
                      /\ ttl' = CompleteTTL /\ UNCHANGED <<payload, applied, void>>
      BY <1>8 DEF Record
    <2>2. /\ answer' \in [Attempts -> Answers] /\ pc' = [pc EXCEPT ![a] = "answered"]
      <3>1. kind \in Outcomes
        BY <2>1 DEF Outcomes
      <3> QED
        BY <2>1, <3>1, ReplyType
    <2>3. record' \in Records /\ record' # Nothing
      <3>1. payload[a] \in Payloads
        BY DEF RetryTypeOK
      <3>2. Complete(payload[a], kind, a) \in Records
        <4>1. kind \in Outcomes
          BY <2>1 DEF Outcomes
        <4> QED
          BY <3>1, <4>1, FormsAreRecords
      <3>3. Complete(payload[a], kind, a).status # Nothing.status
        BY DEF Complete, Nothing
      <3> QED
        BY <2>1, <3>2, <3>3
    <2> QED
      BY <1>0, <2>1, <2>2, <2>3 DEF RetryTypeOK
  <1> QED
    BY <1>1, <1>2, <1>3, <1>4, <1>5, <1>6, <1>7, <1>8 DEF RetryNext

-----------------------------------------------------------------------------
\* A mutation is in the file from the step that makes it.
LEMMA InFileStep == RetryTypeOK /\ InFile /\ [RetryNext]_retryVars => InFile'
  <1> SUFFICES ASSUME RetryTypeOK, InFile, [RetryNext]_retryVars PROVE InFile'
    OBVIOUS
  <1>0. DOMAIN pc = Attempts
    BY DEF RetryTypeOK
  <1>1. CASE UNCHANGED retryVars \/ Tick
    BY <1>1 DEF retryVars, Tick, InFile
  <1>2. ASSUME NEW a \in Attempts, Claim(a) PROVE InFile'
    BY <1>0, <1>2 DEF Claim, SetPending, FindTaken, InFile
  <1>3. ASSUME NEW a \in Attempts, Mutate(a) \/ MutateNothing(a) PROVE InFile'
    BY <1>0, <1>3 DEF Mutate, MutateNothing, InFile
  <1>4. ASSUME NEW a \in Attempts, Refuse(a) \/ RefuseLate(a) \/ Crash(a) PROVE InFile'
    BY <1>0, <1>4 DEF Refuse, RefuseLate, Crash, InFile
  <1>5. ASSUME NEW a \in Attempts, Lookup(a) \/ Withdraw(a) \/ Record(a) PROVE InFile'
    <2>1. pc' = [pc EXCEPT ![a] = "answered"] /\ applied' = applied
      BY <1>5 DEF Lookup, Withdraw, Record, Reply
    <2> QED
      BY <1>0, <2>1 DEF InFile
  <1> QED
    BY <1>1, <1>2, <1>3, <1>4, <1>5 DEF RetryNext

\* While nothing has gone wrong, one attempt works and the record is its own.
LEMMA OneWorkerStep ==
    RetryTypeOK /\ InFile /\ OneWorker /\ [RetryNext]_retryVars => OneWorker'
  <1> SUFFICES ASSUME RetryTypeOK, InFile, OneWorker, [RetryNext]_retryVars, void' = {}
               PROVE  OneWorker'
    BY DEF OneWorker
  <1>0. DOMAIN pc = Attempts /\ applied \subseteq Attempts
    BY DEF RetryTypeOK
  <1>11. /\ Nothing.status # "complete" /\ \A p : Pending(p).status # "complete"
        /\ \A p : Pending(p) # Nothing
    BY Statuses
  <1>1. CASE UNCHANGED retryVars
    BY <1>1 DEF retryVars, OneWorker, Working
  <1>2. CASE Tick
    <2>1. CASE ttl = 1
      <3>1. ~Busy /\ record.status # "complete" /\ void = {} /\ UNCHANGED <<pc, payload, applied>>
        BY <1>2, <2>1 DEF Tick
      <3>2. applied = {}
        BY <1>0, <3>1 DEF OneWorker, Busy
      <3> QED
        BY <3>1, <3>2 DEF OneWorker, Working, Busy
    <2>2. CASE ttl # 1
      <3>1. record' = record /\ void = {} /\ UNCHANGED <<pc, payload, applied>>
        BY <1>2, <2>2 DEF Tick, RetryTypeOK
      <3> QED
        BY <3>1 DEF OneWorker, Working
    <2> QED
      BY <2>1, <2>2
  <1>3. ASSUME NEW a \in Attempts, Claim(a) PROVE OneWorker'
    <2>0. void = {} /\ UNCHANGED <<payload, applied>>
      BY <1>3 DEF Claim
    <2>1. CASE record = Nothing /\ SetPending(a, PendingTTL)
      <3>1. /\ record' = Pending(payload[a]) /\ pc' = [pc EXCEPT ![a] = "claimed"]
        BY <2>1 DEF SetPending
      <3>2. \A b \in Attempts : ~Working(b)
        BY <1>11, <2>0, <2>1 DEF OneWorker
      <3>3. applied = {}
        BY <1>0, <1>11, <2>0, <2>1, <3>2 DEF OneWorker, Working
      <3>4. \A b \in Attempts : Working(b)' => b = a
        BY <1>0, <3>1, <3>2 DEF Working
      <3> QED
        BY <2>0, <3>1, <3>3, <3>4 DEF OneWorker
    <2>2. CASE FindTaken(a)
      <3>1. pc' = [pc EXCEPT ![a] = "refused"] /\ record' = record /\ pc[a] = "unsent"
        BY <1>3, <2>2 DEF Claim, FindTaken
      <3>2. \A b \in Attempts : Working(b)' => Working(b)
        BY <1>0, <3>1 DEF Working
      <3>3. \A b \in Attempts : pc[b] = "mutated" => pc'[b] = "mutated"
        BY <1>0, <3>1
      <3> QED
        BY <1>0, <2>0, <3>1, <3>2, <3>3 DEF OneWorker
    <2> QED
      BY <1>3, <2>1, <2>2 DEF Claim
  <1>4. ASSUME NEW a \in Attempts, Lookup(a) PROVE OneWorker'
    <2>1. /\ pc' = [pc EXCEPT ![a] = "answered"] /\ pc[a] = "refused"
          /\ UNCHANGED <<record, payload, applied, void>>
      BY <1>4 DEF Lookup, Reply
    <2>2. \A b \in Attempts : Working(b)' => Working(b)
      BY <1>0, <2>1 DEF Working
    <2>3. \A b \in Attempts : pc[b] = "mutated" => pc'[b] = "mutated"
      BY <1>0, <2>1
    <2> QED
      BY <1>0, <2>1, <2>2, <2>3 DEF OneWorker
  <1>5. ASSUME NEW a \in Attempts, Mutate(a) PROVE OneWorker'
    <2>1. /\ pc[a] = "claimed" /\ pc' = [pc EXCEPT ![a] = "mutated"]
          /\ applied' = applied \cup {a} /\ UNCHANGED <<record, payload, void>>
      BY <1>5 DEF Mutate
    <2>2. record = Pending(payload[a])
      BY <2>1 DEF OneWorker, Working
    <2>3. applied = {}
      BY <1>0, <1>11, <2>1, <2>2 DEF OneWorker, Working
    <2>4. \A b \in Attempts : Working(b)' => Working(b)
      BY <1>0, <2>1 DEF Working
    <2> QED
      BY <1>0, <2>1, <2>3, <2>4 DEF OneWorker
  <1>6. ASSUME NEW a \in Attempts, MutateNothing(a) \/ Refuse(a) PROVE OneWorker'
    <2>1. /\ pc[a] = "claimed" /\ UNCHANGED <<record, payload, applied, void>>
          /\ pc' = [pc EXCEPT ![a] = "missed"] \/ pc' = [pc EXCEPT ![a] = "raised"]
      BY <1>6 DEF MutateNothing, Refuse
    <2>2. \A b \in Attempts : Working(b)' => Working(b)
      BY <1>0, <2>1 DEF Working
    <2>3. \A b \in Attempts : pc[b] = "mutated" => pc'[b] = "mutated"
      BY <1>0, <2>1
    <2> QED
      BY <1>0, <2>1, <2>2, <2>3 DEF OneWorker
  <1>7. ASSUME NEW a \in Attempts, Crash(a) PROVE OneWorker'
    <2>1. /\ pc[a] = "refused" /\ UNCHANGED <<record, payload, applied, void>>
          /\ pc' = [pc EXCEPT ![a] = "dead"]
      BY <1>7 DEF Crash
    <2>2. \A b \in Attempts : Working(b)' => Working(b)
      BY <1>0, <2>1 DEF Working
    <2>3. \A b \in Attempts : pc[b] = "mutated" => pc'[b] = "mutated"
      BY <1>0, <2>1
    <2> QED
      BY <1>0, <2>1, <2>2, <2>3 DEF OneWorker
  <1>8. ASSUME NEW a \in Attempts, RefuseLate(a) PROVE OneWorker'
    BY <1>8 DEF RefuseLate
  <1>9. ASSUME NEW a \in Attempts, Withdraw(a) PROVE OneWorker'
    <2>1. /\ pc[a] = "raised" /\ pc' = [pc EXCEPT ![a] = "answered"]
          /\ UNCHANGED <<payload, applied, void>>
      BY <1>9 DEF Withdraw, Reply
    <2>2. /\ record.status # "complete" /\ \A b \in Attempts : Working(b) => b = a
      BY <1>11, <2>1 DEF OneWorker, Working
    <2>3. applied = {}
      BY <1>0, <2>1, <2>2 DEF OneWorker, Working
    <2>4. \A b \in Attempts : ~Working(b)'
      BY <1>0, <2>1, <2>2 DEF Working
    <2> QED
      BY <2>1, <2>3, <2>4 DEF OneWorker
  <1>10. ASSUME NEW a \in Attempts, Record(a) PROVE OneWorker'
    <2>1. /\ pc[a] = "mutated" \/ pc[a] = "missed"
          /\ UNCHANGED <<payload, applied, void>> /\ record'.status = "complete"
          /\ pc' = [pc EXCEPT ![a] = "answered"]
      <3>1. PICK kind : record' = Complete(payload[a], kind, a)
        BY <1>10 DEF Record
      <3>2. record'.status = "complete"
        BY <3>1 DEF Complete
      <3> QED
        BY <1>10, <3>2 DEF Record, Reply
    <2>2. \A b \in Attempts : Working(b) => b = a
      BY <2>1 DEF OneWorker, Working
    <2>3. \A b \in Attempts : ~Working(b)'
      BY <1>0, <2>1, <2>2 DEF Working
    <2> QED
      BY <2>1, <2>3 DEF OneWorker
  <1> QED
    BY <1>1, <1>2, <1>3, <1>4, <1>5, <1>6, <1>7, <1>8, <1>9, <1>10 DEF RetryNext

\* The same of the next state.
TruthfulNext(kind, b, p) ==
    /\ b \in Attempts /\ pc'[b] = "answered"
    /\ kind = "done" <=> b \in applied'
    /\ payload'[b] = p

\* What is reported in the next state.
LEMMA ReportedNext ==
    Reported' <=>
      /\ record'.status = "complete" => TruthfulNext(record'.kind, record'.body, record'.payload)
      /\ \A a \in Attempts : answer'[a].kind \in Outcomes =>
            TruthfulNext(answer'[a].kind, answer'[a].body, payload'[a])
  BY DEF Reported, Truthful, TruthfulNext

\* What is true of an attempt that is over stays true.
LEMMA Settled ==
    ASSUME RetryTypeOK, [RetryNext]_retryVars
    PROVE  /\ payload' = payload
           /\ \A b \in Attempts : pc[b] = "answered" =>
                 pc'[b] = "answered" /\ (b \in applied' <=> b \in applied)
           /\ \A kind, b, p : Truthful(kind, b, p) => TruthfulNext(kind, b, p)
  <1>0. DOMAIN pc = Attempts
    BY DEF RetryTypeOK
  <1>1. payload' = payload
    BY DEF RetryNext, retryVars, Tick, Claim, Lookup, Mutate, MutateNothing, Refuse,
           RefuseLate, Withdraw, Record, Crash
  <1>2. ASSUME NEW b \in Attempts, pc[b] = "answered"
        PROVE  pc'[b] = "answered" /\ (b \in applied' <=> b \in applied)
    <2>1. CASE UNCHANGED retryVars \/ Tick
      BY <1>2, <2>1 DEF retryVars, Tick
    <2>2. ASSUME NEW a \in Attempts, Claim(a)
          PROVE  pc'[b] = "answered" /\ (b \in applied' <=> b \in applied)
      BY <1>0, <1>2, <2>2 DEF Claim, SetPending, FindTaken
    <2>3. ASSUME NEW a \in Attempts, Mutate(a) \/ MutateNothing(a)
          PROVE  pc'[b] = "answered" /\ (b \in applied' <=> b \in applied)
      BY <1>0, <1>2, <2>3 DEF Mutate, MutateNothing
    <2>4. ASSUME NEW a \in Attempts, Refuse(a) \/ RefuseLate(a) \/ Crash(a)
          PROVE  pc'[b] = "answered" /\ (b \in applied' <=> b \in applied)
      BY <1>0, <1>2, <2>4 DEF Refuse, RefuseLate, Crash
    <2>5. ASSUME NEW a \in Attempts, Lookup(a) \/ Withdraw(a) \/ Record(a)
          PROVE  pc'[b] = "answered" /\ (b \in applied' <=> b \in applied)
      <3>1. pc' = [pc EXCEPT ![a] = "answered"] /\ applied' = applied
        BY <2>5 DEF Lookup, Withdraw, Record, Reply
      <3> QED
        BY <1>0, <1>2, <3>1
    <2> QED
      BY <2>1, <2>2, <2>3, <2>4, <2>5 DEF RetryNext
  <1> QED
    BY <1>1, <1>2 DEF Truthful, TruthfulNext

\* What is recorded and what clients are told stays true.
LEMMA ReportedStep ==
    RetryTypeOK /\ InFile /\ Reported /\ [RetryNext]_retryVars => Reported'
  <1> SUFFICES ASSUME RetryTypeOK, InFile, Reported, [RetryNext]_retryVars PROVE Reported'
    OBVIOUS
  <1>0. payload' = payload /\ \A kind, b, p : Truthful(kind, b, p) => TruthfulNext(kind, b, p)
    BY Settled
  <1>1. ASSUME answer' = answer, record' = record \/ record'.status # "complete"
        PROVE  Reported'
    BY <1>0, <1>1, ReportedNext DEF Reported
  <1>2. CASE UNCHANGED retryVars
    BY <1>1, <1>2 DEF retryVars
  <1>3. CASE Tick
    BY <1>1, <1>3, Statuses DEF Tick
  <1>4. ASSUME NEW a \in Attempts, Claim(a) PROVE Reported'
    <2>1. answer' = answer /\ (record' = record \/ record' = Pending(payload[a]))
      BY <1>4 DEF Claim, SetPending, FindTaken
    <2> QED
      BY <1>1, <2>1, Statuses
  <1>5. ASSUME NEW a \in Attempts,
               Mutate(a) \/ MutateNothing(a) \/ Refuse(a) \/ RefuseLate(a) \/ Crash(a)
        PROVE  Reported'
    BY <1>1, <1>5 DEF Mutate, MutateNothing, Refuse, RefuseLate, Crash
  <1>6. ASSUME NEW a \in Attempts, NEW kind, NEW body, Reply(a, kind, body),
               kind \in Outcomes => TruthfulNext(kind, body, payload[a]),
               record'.status = "complete"
                  => TruthfulNext(record'.kind, record'.body, record'.payload)
        PROVE  Reported'
    <2>1. answer'[a] = [kind |-> kind, body |-> body]
          /\ \A b \in Attempts : b # a => answer'[b] = answer[b]
      BY <1>6 DEF Reply, RetryTypeOK
    <2>2. \A b \in Attempts : answer'[b].kind \in Outcomes =>
             TruthfulNext(answer'[b].kind, answer'[b].body, payload[b])
      <3> SUFFICES ASSUME NEW b \in Attempts, answer'[b].kind \in Outcomes
                   PROVE  TruthfulNext(answer'[b].kind, answer'[b].body, payload[b])
        OBVIOUS
      <3>1. CASE b = a
        BY <1>6, <2>1, <3>1
      <3>2. CASE b # a
        BY <1>0, <2>1, <3>2 DEF Reported
      <3> QED
        BY <3>1, <3>2
    <2> QED
      BY <1>0, <1>6, <2>2, ReportedNext
  <1>7. ASSUME NEW a \in Attempts, Lookup(a) PROVE Reported'
    <2>1. record' = record /\ (record.status = "complete"
                                => TruthfulNext(record.kind, record.body, record.payload))
      BY <1>0, <1>7 DEF Lookup, Reported
    <2>2. "error" \notin Outcomes /\ "conflict" \notin Outcomes /\ "in progress" \notin Outcomes
      BY DEF Outcomes
    <2>3. CASE record = Nothing
      BY <1>6, <1>7, <2>1, <2>2, <2>3 DEF Lookup
    <2>4. CASE record # Nothing /\ record.payload # payload[a]
      BY <1>6, <1>7, <2>1, <2>2, <2>4 DEF Lookup
    <2>5. CASE record = Pending(payload[a])
      <3>1. record # Nothing /\ record.payload = payload[a]
        BY <2>5, Statuses
      <3>2. Reply(a, "in progress", NoAttempt)
        BY <1>7, <2>5, <3>1 DEF Lookup
      <3> QED
        BY <1>6, <2>1, <2>2, <3>2
    <2>6. CASE /\ record # Nothing /\ record.payload = payload[a]
               /\ record # Pending(payload[a])
      <3>1. Reply(a, record.kind, record.body)
        BY <1>7, <2>6 DEF Lookup
      <3>2. record.status = "complete"
        BY <2>6, RecordForms DEF RetryTypeOK
      <3>3. TruthfulNext(record.kind, record.body, payload[a])
        BY <1>0, <2>1, <2>6, <3>2
      <3> QED
        BY <1>6, <2>1, <3>1, <3>3
    <2> QED
      BY <2>3, <2>4, <2>5, <2>6
  <1>8. ASSUME NEW a \in Attempts, Withdraw(a) PROVE Reported'
    <2>1. Reply(a, "error", NoAttempt) /\ record' = Nothing /\ "error" \notin Outcomes
      BY <1>8 DEF Withdraw, Outcomes
    <2>2. record'.status # "complete"
      BY <2>1 DEF Nothing
    <2> QED
      BY <1>6, <2>1, <2>2
  <1>9. ASSUME NEW a \in Attempts, Record(a) PROVE Reported'
    <2>1. PICK kind : /\ record' = Complete(payload[a], kind, a) /\ Reply(a, kind, a)
                      /\ applied' = applied
                      /\ \/ kind = "done" /\ pc[a] = "mutated"
                         \/ kind = "not found" /\ pc[a] = "missed"
      BY <1>9 DEF Record
    <2>2. kind = "done" <=> a \in applied'
      BY <2>1 DEF InFile
    <2>3. pc'[a] = "answered"
      BY <2>1 DEF Reply, RetryTypeOK
    <2>4. TruthfulNext(kind, a, payload[a])
      BY <1>0, <2>2, <2>3 DEF TruthfulNext
    <2>5. record'.kind = kind /\ record'.body = a /\ record'.payload = payload[a]
      BY <2>1 DEF Complete
    <2> QED
      BY <1>0, <1>6, <2>1, <2>4, <2>5
  <1> QED
    BY <1>2, <1>3, <1>4, <1>5, <1>7, <1>8, <1>9 DEF RetryNext

-----------------------------------------------------------------------------
\* The invariant says what a client may rely on.
LEMMA InvSound == RInv => RetrySound
  <1> SUFFICES ASSUME RInv PROVE RetrySound
    OBVIOUS
  <1>1. AppliedOnce
    <2> SUFFICES ASSUME void = {} PROVE Cardinality(applied) =< 1
      BY DEF AppliedOnce
    <2>1. CASE applied = {}
      BY <2>1, FS_EmptySet
    <2>2. CASE applied # {}
      <3>1. PICK a : a \in applied
        BY <2>2
      <3>2. applied = {a}
        BY <3>1 DEF RInv, OneWorker
      <3>3. Cardinality(applied) = 1
        BY <3>2, FS_Singleton
      <3> QED
        BY <3>3
    <2> QED
      BY <2>1, <2>2
  <1>2. DoneIsTrue
    <2> SUFFICES ASSUME NEW a \in Attempts, answer[a].kind \in Outcomes
                 PROVE  /\ answer[a].kind = "done" <=> answer[a].body \in applied
                        /\ payload[answer[a].body] = payload[a]
      BY DEF DoneIsTrue
    <2> QED
      BY DEF RInv, Reported, Truthful
  <1> QED
    BY <1>1, <1>2 DEF RInv, RetrySound

\* However a client's attempts overlap, fail, stall or die: while nothing of
\* that kind has happened its write takes effect at most once in the lifetime
\* of the record, and an answer that the write is done, or found nothing, is
\* always true of a write of the same content (api.py:406, _idempotent).
THEOREM RetriesAreSound == RetrySpec => []RetrySound
  <1>1. RetryInit => RInv
    BY InitInv
  <1>2. RInv /\ [RetryNext]_retryVars => RInv'
    BY TypeStep, InFileStep, OneWorkerStep, ReportedStep DEF RInv
  <1> QED
    BY <1>1, <1>2, InvSound, PTL DEF RetrySpec
=============================================================================
