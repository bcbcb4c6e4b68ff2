----------------------------- MODULE CommonProofs -----------------------------
(***************************************************************************)
(* What the other proofs need of numbers and lists.  Induction and recursion *)
(* have the form in which they can be cited: a set of numbers stands for     *)
(* what is claimed of them, and a table of functions for the steps of a      *)
(* recursive definition.                                                     *)
(***************************************************************************)
EXTENDS Integers, Sequences, FiniteSetsExt, SequencesExt, SequenceTheorems,
        WellFoundedInduction, TLAPS

\* A set of numbers that is not empty has a least one.
LEMMA Least ==
    ASSUME NEW T, T \subseteq Nat, T # {}
    PROVE  \E n \in T : \A m \in T : n =< m
  <1>1. PICK R : R = {ss \in Nat \X Nat : ss[1] < ss[2]}
    OBVIOUS
  <1>2. IsWellFoundedOn(R, Nat)
    BY <1>1, NatLessThanWellFounded DEF OpToRel
  <1>3. PICK n \in T : \A m \in T : <<m, n>> \notin R
    BY <1>2, WFMin
  <1>4. \A m \in T : ~(m < n)
    BY <1>1, <1>3
  <1> QED  BY <1>3, <1>4

\* The largest and the smallest of some numbers.
LEMMA Largest ==
    ASSUME NEW S, S \subseteq Int, NEW m \in S, \A n \in S : n =< m
    PROVE  Max(S) = m
  <1>1. \E x \in S : \A y \in S : x >= y
    OBVIOUS
  <1>2. Max(S) \in S /\ \A y \in S : Max(S) >= y
    BY <1>1 DEF Max
  <1>3. PICK x : x = Max(S)
    OBVIOUS
  <1>4. x \in Int /\ m \in Int /\ x >= m /\ x =< m
    BY <1>2, <1>3
  <1>5. x = m
    BY ONLY <1>4
  <1> QED  BY <1>3, <1>5

LEMMA Smallest ==
    ASSUME NEW S, S \subseteq Int, NEW m \in S, \A n \in S : m =< n
    PROVE  Min(S) = m
  <1>1. \E x \in S : \A y \in S : x =< y
    OBVIOUS
  <1>2. Min(S) \in S /\ \A y \in S : Min(S) =< y
    BY <1>1 DEF Min
  <1>3. PICK x : x = Min(S)
    OBVIOUS
  <1>4. x \in Int /\ m \in Int /\ x =< m /\ m =< x
    BY <1>2, <1>3
  <1>5. x = m
    BY ONLY <1>4
  <1> QED  BY <1>3, <1>5

LEMMA MaxOf ==
    ASSUME NEW a \in Int, NEW b \in Int
    PROVE  Max({a, b}) = IF a >= b THEN a ELSE b
  <1>1. CASE a >= b
    BY <1>1, Largest
  <1>2. CASE b >= a
    BY <1>2, Largest
  <1> QED  BY <1>1, <1>2

LEMMA MinOf ==
    ASSUME NEW a \in Int, NEW b \in Int
    PROVE  Min({a, b}) = IF a =< b THEN a ELSE b
  <1>1. CASE a =< b
    BY <1>1, Smallest
  <1>2. CASE b =< a
    BY <1>2, Smallest
  <1> QED  BY <1>1, <1>2

\* A set of numbers with a bound has a largest one.
LEMMA Bounded ==
    ASSUME NEW S, S \subseteq Nat, S # {}, NEW k \in Nat, \A n \in S : n =< k
    PROVE  \E m \in S : \A n \in S : n =< m
  <1>1. PICK T : T = {k - n : n \in S}
    OBVIOUS
  <1>2. T \subseteq Nat /\ T # {}
    <2>1. \A n \in S : k - n \in Nat
      OBVIOUS
    <2> QED  BY <1>1, <2>1
  <1>3. PICK x \in T : \A y \in T : x =< y
    BY <1>2, Least
  <1>4. PICK m \in S : x = k - m
    BY <1>1, <1>3
  <1>5. \A n \in S : x =< k - n
    BY <1>1, <1>3
  <1>6. \A n \in S : n =< m
    BY <1>4, <1>5
  <1> QED  BY <1>6

\* Whole division, from its characterisation.
LEMMA Division ==
    ASSUME NEW x \in Nat, NEW y \in Nat, y > 0
    PROVE  /\ x \div y \in Nat
           /\ y * (x \div y) =< x
  <1>1. x = y * (x \div y) + (x % y) /\ x % y \in 0..(y - 1) /\ x \div y \in Int
    OBVIOUS
  <1>2. PICK q, w : q = x \div y /\ w = y * q
    OBVIOUS
  <1>3. q \in Int /\ w \in Int /\ x = w + (x % y) /\ x % y \in Nat
    BY <1>1, <1>2
  <1>4. q >= 0
    <2> SUFFICES ASSUME q =< -1
                 PROVE  FALSE
      BY <1>3
    <2>1. w =< -y
      BY <1>2, <1>3
    <2>2. x % y < y
      BY <1>1
    <2> QED  BY <1>3, <2>1, <2>2
  <1> QED  BY <1>2, <1>3, <1>4

-----------------------------------------------------------------------------
(* Induction and recursion.                                                *)

\* Induction, over a set of numbers.
LEMMA Induct ==
    ASSUME NEW G, 0 \in G, \A n \in Nat : n \in G => n + 1 \in G
    PROVE  Nat \subseteq G
  <1> SUFFICES ASSUME Nat \ G # {}
               PROVE  FALSE
    OBVIOUS
  <1>1. PICK n \in Nat \ G : \A m \in Nat \ G : n =< m
    BY Least
  <1>2. n # 0 /\ n - 1 \in Nat /\ n - 1 \in G
    BY <1>1
  <1> QED  BY <1>1, <1>2

\* f begins with z and goes on to n by `step`.
Recurs(f, z, step, n) ==
    f[0] = z /\ \A i \in 0..(n - 1) : f[i + 1] = step[i][f[i]]

\* The function on all numbers that begins with z and goes on by `step`.
Iterates(f, Z, z, step) ==
    f \in [Nat -> Z] /\ f[0] = z /\ \A n \in Nat : f[n + 1] = step[n][f[n]]

\* A recursive function on the numbers exists.
LEMMA Recursion ==
    ASSUME NEW Z, NEW z \in Z, NEW step \in [Nat -> [Z -> Z]]
    PROVE  \E f : Iterates(f, Z, z, step)
  <1>1. PICK G : G = {n \in Nat : \E f \in [0..n -> Z] : Recurs(f, z, step, n)}
    OBVIOUS
  <1>2. Nat \subseteq G
    <2>1. 0 \in G
      <3>1. PICK f : f = [i \in 0..0 |-> z]
        OBVIOUS
      <3>2. f \in [0..0 -> Z] /\ Recurs(f, z, step, 0)
        BY <3>1 DEF Recurs
      <3> QED  BY <1>1, <3>2
    <2>2. ASSUME NEW n \in Nat, n \in G
          PROVE  n + 1 \in G
      <3>1. PICK f \in [0..n -> Z] : Recurs(f, z, step, n)
        BY <1>1, <2>2
      <3>2. PICK h : h = [i \in 0..(n + 1) |-> IF i = n + 1 THEN step[n][f[n]] ELSE f[i]]
        OBVIOUS
      <3>3. h \in [0..(n + 1) -> Z]
        <4>1. step[n][f[n]] \in Z
          OBVIOUS
        <4>2. \A i \in 0..(n + 1) : i # n + 1 => i \in 0..n
          OBVIOUS
        <4> QED  BY <3>2, <4>1, <4>2
      <3>4. Recurs(h, z, step, n + 1)
        <4>1. h[0] = z
          BY <3>1, <3>2 DEF Recurs
        <4>2. ASSUME NEW i \in 0..n
              PROVE  h[i + 1] = step[i][h[i]]
          <5>1. h[i] = f[i]
            BY <3>2
          <5>2. CASE i = n
            BY <3>2, <5>1, <5>2
          <5>3. CASE i # n
            <6>1. i \in 0..(n - 1) /\ i + 1 \in 0..(n + 1) /\ i + 1 # n + 1
              BY <5>3
            <6> QED  BY <3>1, <3>2, <5>1, <6>1 DEF Recurs
          <5> QED  BY <5>2, <5>3
        <4>3. 0..((n + 1) - 1) = 0..n
          OBVIOUS
        <4> QED  BY <4>1, <4>2, <4>3 DEF Recurs
      <3> QED  BY <1>1, <3>3, <3>4
    <2> QED  BY <2>1, <2>2, Induct
  <1>3. ASSUME NEW n \in Nat, NEW m \in Nat, n =< m,
               NEW f \in [0..n -> Z], NEW h \in [0..m -> Z],
               Recurs(f, z, step, n), Recurs(h, z, step, m)
        PROVE  f[n] = h[n]
    <2>1. PICK E : E = {i \in Nat : i =< n => f[i] = h[i]}
      OBVIOUS
    <2>2. 0 \in E
      BY <1>3, <2>1 DEF Recurs
    <2>3. ASSUME NEW i \in Nat, i \in E
          PROVE  i + 1 \in E
      <3> SUFFICES ASSUME i + 1 =< n
                   PROVE  f[i + 1] = h[i + 1]
        BY <2>1
      <3>1. i \in 0..(n - 1) /\ i \in 0..(m - 1) /\ f[i] = h[i]
        BY <1>3, <2>1, <2>3
      <3> QED  BY <1>3, <3>1 DEF Recurs
    <2>4. n \in E
      BY <2>2, <2>3, Induct
    <2> QED  BY <2>1, <2>4
  <1>4. PICK g : g = [n \in Nat |-> CHOOSE f \in [0..n -> Z] : Recurs(f, z, step, n)]
    OBVIOUS
  <1>5. ASSUME NEW n \in Nat
        PROVE  g[n] \in [0..n -> Z] /\ Recurs(g[n], z, step, n)
    <2>1. n \in G
      BY <1>2
    <2>2. \E f \in [0..n -> Z] : Recurs(f, z, step, n)
      BY <1>1, <2>1
    <2> QED  BY <1>4, <2>2
  <1>6. PICK f : f = [n \in Nat |-> g[n][n]]
    OBVIOUS
  <1>7. f \in [Nat -> Z]
    <2>1. \A n \in Nat : g[n][n] \in Z
      BY <1>5
    <2> QED  BY <1>6, <2>1
  <1>8. f[0] = z
    <2>1. g[0] \in [0..0 -> Z] /\ Recurs(g[0], z, step, 0)
      BY <1>5
    <2> QED  BY <1>6, <2>1 DEF Recurs
  <1>9. ASSUME NEW n \in Nat
        PROVE  f[n + 1] = step[n][f[n]]
    <2>1. /\ g[n] \in [0..n -> Z] /\ Recurs(g[n], z, step, n)
          /\ g[n + 1] \in [0..(n + 1) -> Z] /\ Recurs(g[n + 1], z, step, n + 1)
      BY <1>5
    <2>2. PICK a, b : a = g[n] /\ b = g[n + 1]
      OBVIOUS
    <2>3. a[n] = b[n]
      <3>1. n + 1 \in Nat /\ n =< n + 1
        OBVIOUS
      <3> QED  BY <1>3, <2>1, <2>2, <3>1
    <2>4. b[n + 1] = step[n][b[n]]
      <3>1. n \in 0..((n + 1) - 1)
        OBVIOUS
      <3> QED  BY <2>1, <2>2, <3>1 DEF Recurs
    <2> QED  BY <1>6, <2>2, <2>3, <2>4
  <1> QED  BY <1>7, <1>8, <1>9 DEF Iterates

-----------------------------------------------------------------------------
(* Lists.                                                                  *)

\* Appending to a list.
LEMMA Appending ==
    ASSUME NEW S, NEW s \in Seq(S), NEW x \in S
    PROVE  /\ Append(s, x) \in Seq(S) /\ ToSet(Append(s, x)) = ToSet(s) \cup {x}
           /\ IsInjective(s) /\ x \notin ToSet(s) => IsInjective(Append(s, x))
  <1>1. PICK t : t = Append(s, x)
    OBVIOUS
  <1>2. /\ t \in Seq(S) /\ Len(t) = Len(s) + 1 /\ t[Len(s) + 1] = x
        /\ \A i \in 1..Len(s) : t[i] = s[i]
    BY <1>1, AppendProperties
  <1>3. DOMAIN t = 1..(Len(s) + 1) /\ DOMAIN s = 1..Len(s) /\ Len(s) \in Nat
    BY <1>2
  <1>4. ToSet(t) = ToSet(s) \cup {x}
    <2>1. ASSUME NEW i \in DOMAIN t
          PROVE  t[i] \in ToSet(s) \cup {x}
      <3>1. i = Len(s) + 1 \/ i \in 1..Len(s)
        BY <1>3
      <3> QED  BY <1>2, <1>3, <3>1 DEF ToSet
    <2>2. ASSUME NEW i \in DOMAIN s
          PROVE  s[i] \in ToSet(t)
      <3>1. i \in DOMAIN t /\ t[i] = s[i]
        BY <1>2, <1>3
      <3> QED  BY <3>1 DEF ToSet
    <2>3. x \in ToSet(t)
      <3>1. Len(s) + 1 \in DOMAIN t
        BY <1>3
      <3> QED  BY <1>2, <3>1 DEF ToSet
    <2> QED  BY <2>1, <2>2, <2>3 DEF ToSet
  <1>5. ASSUME IsInjective(s), x \notin ToSet(s), NEW i \in DOMAIN t, NEW j \in DOMAIN t,
               t[i] = t[j]
        PROVE  i = j
    <2>1. /\ i = Len(s) + 1 \/ i \in DOMAIN s
          /\ j = Len(s) + 1 \/ j \in DOMAIN s
      BY <1>3
    <2>2. \A k \in DOMAIN s : t[k] = s[k] /\ s[k] # x
      BY <1>2, <1>3, <1>5 DEF ToSet
    <2> QED  BY <1>2, <1>5, <2>1, <2>2 DEF IsInjective
  <1> QED  BY <1>1, <1>2, <1>4, <1>5 DEF IsInjective

\* The places of a list that is one longer.
LEMMA NextRange == \A n \in Nat : \A i : i \in 1..(n + 1) <=> i \in 1..n \/ i = n + 1
  OBVIOUS

\* The numbers a list holds, up to a place.
UpTo(list, n) == {list[i] : i \in 1..n}
=============================================================================
