------------------------------- MODULE DataLemmas -------------------------------
(***************************************************************************)
(* Facts about numbers and sequences that the proofs of several components   *)
(* use.  Induction is stated for a set of numbers, not for a predicate: a     *)
(* proof by induction cites it with the set of the numbers that have the     *)
(* property.                                                                *)
(***************************************************************************)
EXTENDS Integers, Sequences, FiniteSets, SequencesExt, WellFoundedInduction, TLAPS

\* A nonempty set of natural numbers has a least element.
LEMMA Least ==
    ASSUME NEW S \in SUBSET Nat, S # {}
    PROVE  \E x \in S : \A y \in S : x <= y
<1> DEFINE R == OpToRel(<, Nat)
<1>1. IsWellFoundedOn(R, Nat)
    BY NatLessThanWellFounded
<1>2. \A x, y \in Nat : y < x => <<y, x>> \in R
    BY DEF OpToRel
<1> HIDE DEF R
<1>3. PICK x \in S : \A y \in S : ~(<<y, x>> \in R)
    BY <1>1, WFMin
<1>4. \A y \in S : ~(y < x)
    BY <1>2, <1>3
<1> QED
    BY <1>4

\* The operators Min and Max of the library choose an element of the set.
LEMMA MinIsLeast ==
    ASSUME NEW S \in SUBSET Nat, S # {}
    PROVE  Min(S) \in S /\ \A y \in S : Min(S) <= y
BY Least DEF Min

LEMMA MaxIsGreatest ==
    ASSUME NEW n \in Nat, NEW S \in SUBSET (0 .. n), S # {}
    PROVE  Max(S) \in S /\ \A y \in S : y <= Max(S)
<1> DEFINE C == {n - y : y \in S}
<1>0. \A y \in S : n - y \in Nat
    OBVIOUS
<1>1. C \in SUBSET Nat /\ C # {}
    BY <1>0
<1>2. PICK x \in C : \A y \in C : x <= y
    BY <1>1, Least
<1>3. PICK m \in S : x = n - m
    OBVIOUS
<1>4. \A y \in S : n - y \in C
    OBVIOUS
<1>5. \A y \in S : y <= m
    BY <1>2, <1>3, <1>4
<1> QED
    BY <1>5 DEF Max

\* Induction over the natural numbers.
LEMMA NatSetInduction ==
    ASSUME NEW S, 0 \in S, \A n \in Nat : n \in S => n + 1 \in S
    PROVE  Nat \subseteq S
<1> SUFFICES ASSUME Nat \ S # {}
             PROVE  FALSE
    OBVIOUS
<1>1. PICK m \in Nat \ S : \A y \in Nat \ S : m <= y
    BY Least
<1>2. m - 1 \in Nat /\ m - 1 \notin Nat \ S
    BY <1>1
<1> QED
    BY <1>1, <1>2

\* The entries of two sequences put together.
LEMMA Glued ==
    ASSUME NEW S, NEW u \in Seq(S), NEW v \in Seq(S)
    PROVE  /\ u \o v \in Seq(S) /\ Len(u \o v) = Len(u) + Len(v)
           /\ \A i \in 1 .. Len(u) : (u \o v)[i] = u[i]
           /\ \A i \in 1 .. Len(v) : (u \o v)[Len(u) + i] = v[i]
OBVIOUS

\* Numbers can be put in order.
LEMMA SortExists ==
    ASSUME NEW n \in Nat, NEW list \in [1 .. n -> Nat]
    PROVE  \E p \in Bijection(1 .. n, 1 .. n) : \A i, j \in 1 .. n : i < j => list[p[i]] <= list[p[j]]
<1> DEFINE Sorts(p, s, k) == p \in Bijection(1 .. k, 1 .. k) /\ \A i, j \in 1 .. k : i < j => s[p[i]] <= s[p[j]]
           S == {k \in Nat : \A s \in [1 .. k -> Nat] : \E p : Sorts(p, s, k)}
<1>1. 0 \in S
    <2>1. ASSUME NEW s \in [1 .. 0 -> Nat]
          PROVE  \E p : Sorts(p, s, 0)
        <3> DEFINE p == [i \in 1 .. 0 |-> i]
        <3>1. p \in [1 .. 0 -> 1 .. 0] /\ \A i \in 1 .. 0 : FALSE
            OBVIOUS
        <3>2. p \in Bijection(1 .. 0, 1 .. 0)
            BY <3>1 DEF Bijection, Injection, Surjection, IsInjective
        <3> HIDE DEF p
        <3>3. Sorts(p, s, 0)
            BY <3>1, <3>2
        <3> QED
            BY <3>3
    <2> QED
        BY <2>1
<1>2. ASSUME NEW k \in Nat, k \in S
      PROVE  k + 1 \in S
    <2>1. ASSUME NEW s \in [1 .. k + 1 -> Nat]
          PROVE  \E p : Sorts(p, s, k + 1)
        <3>1. PICK m \in 1 .. k + 1 : \A i \in 1 .. k + 1 : s[m] <= s[i]
            <4> DEFINE R == {s[i] : i \in 1 .. k + 1}
            <4>1. R \in SUBSET Nat /\ R # {}
                <5>1. 1 \in 1 .. k + 1
                    OBVIOUS
                <5> QED
                    BY <5>1
            <4> HIDE DEF R
            <4>2. PICK x \in R : \A y \in R : x <= y
                BY <4>1, Least
            <4> QED
                BY <4>2 DEF R
        <3> DEFINE lift(i) == IF i < m THEN i ELSE i + 1
                   rest == [i \in 1 .. k |-> s[lift(i)]]
        <3>2. \A i \in 1 .. k : lift(i) \in 1 .. k + 1 /\ lift(i) # m /\ rest[i] = s[lift(i)]
            OBVIOUS
        <3>3. rest \in [1 .. k -> Nat]
            BY <3>2
        <3>4. \A i, j \in 1 .. k : lift(i) = lift(j) => i = j
            OBVIOUS
        <3>5. \A y \in 1 .. k + 1 : y # m => \E i \in 1 .. k : lift(i) = y
            <4>1. ASSUME NEW y \in 1 .. k + 1, y < m
                  PROVE  y \in 1 .. k /\ lift(y) = y
                BY <4>1
            <4>2. ASSUME NEW y \in 1 .. k + 1, m < y
                  PROVE  y - 1 \in 1 .. k /\ lift(y - 1) = y
                BY <4>2
            <4> HIDE DEF lift
            <4>3. \A y \in 1 .. k + 1 : y # m => y < m \/ m < y
                OBVIOUS
            <4> QED
                BY <4>1, <4>2, <4>3
        <3> HIDE DEF rest, lift
        <3>6. PICK q : Sorts(q, rest, k)
            BY <1>2, <3>3
        <3>7. /\ q \in [1 .. k -> 1 .. k] /\ \A i, j \in 1 .. k : q[i] = q[j] => i = j
              /\ \A y \in 1 .. k : \E i \in 1 .. k : q[i] = y
            BY <3>6 DEF Bijection, Injection, Surjection, IsInjective
        <3> DEFINE p == [i \in 1 .. k + 1 |-> IF i = 1 THEN m ELSE lift(q[i - 1])]
        <3>8. p[1] = m /\ \A i \in 1 .. k : p[i + 1] = lift(q[i])
            OBVIOUS
        <3>9. \A i \in 1 .. k + 1 : i = 1 \/ (i - 1 \in 1 .. k /\ (i - 1) + 1 = i)
            OBVIOUS
        <3>10. p \in [1 .. k + 1 -> 1 .. k + 1]
            <4>1. \A i \in 1 .. k + 1 : p[i] \in 1 .. k + 1
                BY <3>2, <3>7, <3>8, <3>9
            <4> QED
                BY <4>1
        <3> HIDE DEF p
        <3>11. ASSUME NEW i \in 1 .. k + 1, NEW j \in 1 .. k + 1, p[i] = p[j]
               PROVE  i = j
            <4>0. \A l \in 1 .. k : q[l] \in 1 .. k
                BY <3>7
            <4>1. ASSUME NEW l \in 1 .. k
                  PROVE  p[l + 1] # m
                <5>1. lift(q[l]) # m
                    BY <3>2, <4>0
                <5>2. p[l + 1] = lift(q[l])
                    BY <3>8
                <5> QED
                    BY <5>1, <5>2
            <4>2. CASE i = 1 \/ j = 1
                BY <3>8, <3>9, <3>11, <4>1, <4>2
            <4>3. CASE i # 1 /\ j # 1
                <5>1. i - 1 \in 1 .. k /\ j - 1 \in 1 .. k /\ p[i] = lift(q[i - 1]) /\ p[j] = lift(q[j - 1])
                    BY <3>8, <3>9, <4>3
                <5>0. q[i - 1] \in 1 .. k /\ q[j - 1] \in 1 .. k /\ lift(q[i - 1]) = lift(q[j - 1])
                    BY <3>11, <4>0, <5>1
                <5>2. q[i - 1] = q[j - 1]
                    BY <3>4, <5>0
                <5>3. i - 1 = j - 1
                    BY <3>7, <5>1, <5>2
                <5> QED
                    BY <5>3
            <4> QED
                BY <4>2, <4>3
        <3>12. ASSUME NEW y \in 1 .. k + 1
               PROVE  \E i \in 1 .. k + 1 : p[i] = y
            <4>1. CASE y = m
                <5>1. 1 \in 1 .. k + 1
                    OBVIOUS
                <5> QED
                    BY <3>8, <4>1, <5>1
            <4>2. CASE y # m
                <5>1. PICK l \in 1 .. k : lift(l) = y
                    BY <3>5, <4>2
                <5>2. PICK i \in 1 .. k : q[i] = l
                    BY <3>7
                <5>3. i + 1 \in 1 .. k + 1 /\ p[i + 1] = y
                    BY <3>8, <5>1, <5>2
                <5> QED
                    BY <5>3
            <4> QED
                BY <4>1, <4>2
        <3>13. p \in Bijection(1 .. k + 1, 1 .. k + 1)
            BY <3>10, <3>11, <3>12 DEF Bijection, Injection, Surjection, IsInjective
        <3>14. ASSUME NEW i \in 1 .. k + 1, NEW j \in 1 .. k + 1, i < j
               PROVE  s[p[i]] <= s[p[j]]
            <4>1. CASE i = 1
                BY <3>1, <3>8, <3>10, <4>1
            <4>2. CASE i # 1
                <5>1. i - 1 \in 1 .. k /\ j - 1 \in 1 .. k /\ i - 1 < j - 1
                    BY <3>14, <4>2
                <5>2. p[i] = lift(q[i - 1]) /\ p[j] = lift(q[j - 1])
                    BY <3>8, <3>9, <4>2, <5>1
                <5>3. rest[q[i - 1]] <= rest[q[j - 1]]
                    BY <3>6, <5>1
                <5>4. rest[q[i - 1]] = s[lift(q[i - 1])] /\ rest[q[j - 1]] = s[lift(q[j - 1])]
                    BY <3>2, <3>7, <5>1
                <5> QED
                    BY <5>2, <5>3, <5>4
            <4> QED
                BY <4>1, <4>2
        <3> QED
            BY <3>13, <3>14
    <2> QED
        BY <2>1
<1> HIDE DEF S
<1>3. Nat \subseteq S
    BY <1>1, <1>2, NatSetInduction
<1> QED
    BY <1>3 DEF S

\* A function that goes from one number to the next.
Iteration(S, base, n, next) ==
    {f \in [0 .. n -> S] : f[0] = base /\ \A i \in 1 .. n : f[i] = next[<<f[i - 1], i>>]}

\* A recursive function over an interval exists.
LEMMA IterationExists ==
    ASSUME NEW S, NEW base \in S, NEW n \in Nat, NEW next \in [S \X (1 .. n) -> S]
    PROVE  Iteration(S, base, n, next) # {}
<1> DEFINE Iterates(f, k) == /\ f \in [0 .. k -> S] /\ f[0] = base
                             /\ \A i \in 1 .. k : f[i] = next[<<f[i - 1], i>>]
           K == {k \in Nat : k <= n => \E f : Iterates(f, k)}
<1>1. 0 \in K
    <2> DEFINE f == [i \in 0 .. 0 |-> base]
    <2>1. Iterates(f, 0)
        OBVIOUS
    <2> HIDE DEF f
    <2> QED
        BY <2>1
<1>2. ASSUME NEW k \in Nat, k \in K
      PROVE  k + 1 \in K
    <2>1. ASSUME k + 1 <= n
          PROVE  \E f : Iterates(f, k + 1)
        <3>1. PICK f : Iterates(f, k)
            BY <1>2, <2>1
        <3> DEFINE g == [i \in 0 .. k + 1 |-> IF i = k + 1 THEN next[<<f[k], k + 1>>] ELSE f[i]]
        <3>2. k + 1 \in 1 .. n /\ f[k] \in S
            BY <2>1, <3>1
        <3>3. next[<<f[k], k + 1>>] \in S
            BY <3>2
        <3>4. g[k + 1] = next[<<f[k], k + 1>>] /\ \A i \in 0 .. k : g[i] = f[i]
            OBVIOUS
        <3>5. g \in [0 .. k + 1 -> S]
            BY <3>1, <3>3
        <3> HIDE DEF g
        <3>6. ASSUME NEW i \in 1 .. k + 1
              PROVE  g[i] = next[<<g[i - 1], i>>]
            <4>1. CASE i = k + 1
                <5>1. g[i - 1] = f[k]
                    BY <3>4, <4>1
                <5> QED
                    BY <3>4, <4>1, <5>1
            <4>2. CASE i # k + 1
                <5>1. i \in 1 .. k /\ i - 1 \in 0 .. k /\ i \in 0 .. k
                    BY <4>2
                <5> QED
                    BY <3>1, <3>4, <5>1
            <4> QED
                BY <4>1, <4>2
        <3>7. g[0] = base
            BY <3>1, <3>4
        <3> QED
            BY <3>5, <3>6, <3>7
    <2> QED
        BY <2>1
<1> HIDE DEF K
<1>3. Nat \subseteq K
    BY <1>1, <1>2, NatSetInduction
<1>4. n \in K
    BY <1>3
<1>5. PICK f : Iterates(f, n)
    BY <1>4 DEF K
<1> QED
    BY <1>5 DEF Iteration
===============================================================================
