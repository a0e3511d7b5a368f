----------------------------- MODULE Induction ------------------------------
(***************************************************************************)
(* Induction without an operator as a parameter.  A set of natural numbers *)
(* that has 0, and of every number the next one, is Nat: a property of all *)
(* n is proved of the set of the n that have it.  From this follows that   *)
(* the functions exist which FoldLeft and a recursive function choose, and *)
(* what they are at every index.                                           *)
(***************************************************************************)
EXTENDS Naturals, Integers, Sequences, SequencesExt, SequenceTheorems, WellFoundedInduction, TLAPS

\* A set of natural numbers has a least element, a bounded one a greatest.
LEMMA MinOfNat ==
    ASSUME NEW S \in SUBSET Nat, S # {}
    PROVE  Min(S) \in S /\ \A y \in S : Min(S) <= y
<1> DEFINE R == OpToRel(<, Nat)
<1>1. PICK x \in S : \A y \in S : ~ (<<y, x>> \in R)
    <2>1. IsWellFoundedOn(R, Nat) BY NatLessThanWellFounded
    <2> HIDE DEF R
    <2> QED BY <2>1, WFMin
<1>2. \A y \in S : x <= y
    <2> TAKE y \in S
    <2>1. ~(y < x) BY <1>1 DEF OpToRel
    <2> QED BY <2>1
<1> QED BY <1>2 DEF Min

LEMMA MaxOfNat ==
    ASSUME NEW n \in Nat, NEW S \in SUBSET (0..n), S # {}
    PROVE  Max(S) \in S /\ \A y \in S : Max(S) >= y
<1> DEFINE T == {n - x : x \in S}
<1>1. T \in SUBSET Nat OBVIOUS
<1>5. T # {} OBVIOUS
<1>2. Min(T) \in T /\ \A y \in T : Min(T) <= y BY <1>1, <1>5, MinOfNat
<1>3. PICK x \in S : Min(T) = n - x BY <1>2
<1>4. \A y \in S : x >= y
    <2> TAKE y \in S
    <2>1. n - x <= n - y BY <1>2, <1>3
    <2> QED BY <2>1
<1> QED BY <1>4 DEF Max

\* Induction over the natural numbers, for a set of them.
LEMMA SetInduction ==
    ASSUME NEW S \in SUBSET Nat, 0 \in S, \A n \in S : n + 1 \in S
    PROVE  S = Nat
<1> SUFFICES ASSUME S # Nat PROVE FALSE
    OBVIOUS
<1> DEFINE T == Nat \ S
<1>1. T \in SUBSET Nat /\ T # {} OBVIOUS
<1>2. Min(T) \in T /\ \A y \in T : Min(T) <= y BY <1>1, MinOfNat
<1>3. Min(T) - 1 \in S
    <2>1. Min(T) \in Nat \ {0} BY <1>2
    <2>2. Min(T) - 1 \in Nat /\ Min(T) - 1 < Min(T) BY <2>1
    <2>3. Min(T) - 1 \notin T BY <1>2, <2>2
    <2> QED BY <2>2, <2>3
<1>4. (Min(T) - 1) + 1 \in S BY <1>3
<1>5. (Min(T) - 1) + 1 = Min(T) BY <1>2
<1> QED BY <1>2, <1>4, <1>5

-----------------------------------------------------------------------------
(* Folds and recursive functions                                           *)

\* How MapThenFoldSet, from which FoldLeft is made, goes through the indices
\* of a sequence.
Iterates(g, n, base, G) ==
    \A s \in SUBSET (1..n) :
        g[s] = IF s = {} THEN base ELSE G[<<Max(s), g[s \ {Max(s)}]>>]

\* There is such a function, whose values stay in the set V that every step
\* stays in.
LEMMA FoldExists ==
    ASSUME NEW N \in Nat, NEW V, NEW G \in [(1..N) \X V -> V], NEW base \in V
    PROVE  \E g \in [SUBSET (1..N) -> V] : Iterates(g, N, base, G)
<1> DEFINE Ok(n) == \E g \in [SUBSET (1..n) -> V] : Iterates(g, n, base, G)
           Good == {n \in Nat : n <= N => Ok(n)}
<1>1. 0 \in Good
    <2> DEFINE g == [s \in SUBSET (1..0) |-> base]
    <2>1. \A s \in SUBSET (1..0) : s = {} OBVIOUS
    <2>2. g \in [SUBSET (1..0) -> V] OBVIOUS
    <2>3. Iterates(g, 0, base, G) BY <2>1 DEF Iterates
    <2>4. Ok(0) BY <2>2, <2>3
    <2> HIDE DEF Ok
    <2> QED BY <2>4
<1>2. ASSUME NEW n \in Good PROVE n + 1 \in Good
    <2>0. ASSUME n + 1 <= N, Ok(n) PROVE Ok(n + 1)
        <3>1. n \in Nat /\ n <= N BY <2>0
        <3>2. PICK g \in [SUBSET (1..n) -> V] : Iterates(g, n, base, G) BY <2>0
        <3> DEFINE h == [s \in SUBSET (1..(n + 1)) |->
                            IF n + 1 \in s THEN G[<<n + 1, g[s \ {n + 1}]>>] ELSE g[s]]
        <3> HIDE DEF Good
        <3>3. \A s \in SUBSET (1..(n + 1)) : s \ {n + 1} \in SUBSET (1..n) BY <3>1
        <3>4. h \in [SUBSET (1..(n + 1)) -> V]
            <4> SUFFICES ASSUME NEW s \in SUBSET (1..(n + 1))
                         PROVE  (IF n + 1 \in s THEN G[<<n + 1, g[s \ {n + 1}]>>] ELSE g[s]) \in V
                OBVIOUS
            <4>1. CASE n + 1 \in s
                <5>1. g[s \ {n + 1}] \in V BY <3>3
                <5>2. n + 1 \in 1..N BY <2>0, <3>1
                <5> QED BY <4>1, <5>1, <5>2
            <4>2. CASE n + 1 \notin s
                <5>1. s \in SUBSET (1..n) BY <3>3, <4>2
                <5> QED BY <4>2, <5>1
            <4> QED BY <4>1, <4>2
        <3>5. ASSUME NEW s \in SUBSET (1..(n + 1))
              PROVE  h[s] = IF s = {} THEN base ELSE G[<<Max(s), h[s \ {Max(s)}]>>]
            <4>1. CASE n + 1 \in s
                <5>1. s # {} /\ s \in SUBSET (0..(n + 1)) BY <3>1, <4>1
                <5>2. Max(s) \in s /\ \A y \in s : Max(s) >= y BY <3>1, <5>1, n + 1 \in Nat, MaxOfNat
                <5>3. Max(s) \in 1..(n + 1) /\ Max(s) >= n + 1 BY <4>1, <5>2
                <5>4. Max(s) = n + 1 BY <3>1, <5>3
                <5>5. h[s \ {n + 1}] = g[s \ {n + 1}] BY <3>3
                <5> QED BY <4>1, <5>1, <5>4, <5>5
            <4>2. CASE n + 1 \notin s
                <5>1. s \in SUBSET (1..n) BY <3>3, <4>2
                <5>2. h[s] = g[s] BY <4>2
                <5>3. g[s] = IF s = {} THEN base ELSE G[<<Max(s), g[s \ {Max(s)}]>>]
                    BY <3>2, <5>1 DEF Iterates
                <5>4. s \ {Max(s)} \in SUBSET (1..(n + 1)) /\ n + 1 \notin s \ {Max(s)} BY <4>2
                <5>5. h[s \ {Max(s)}] = g[s \ {Max(s)}] BY <5>4
                <5> QED BY <5>2, <5>3, <5>5
            <4> QED BY <4>1, <4>2
        <3>6. Iterates(h, n + 1, base, G) BY <3>5 DEF Iterates
        <3> QED BY <3>4, <3>6
    <2>1. n \in Nat /\ (n <= N => Ok(n)) BY DEF Good
    <2> HIDE DEF Ok
    <2> QED BY <2>0, <2>1
<1>3. Good = Nat
    <2> HIDE DEF Good
    <2>1. Good \in SUBSET Nat BY DEF Good
    <2> QED BY <1>1, <1>2, <2>1, SetInduction
<1>4. Ok(N)
    <2> HIDE DEF Ok
    <2> QED BY <1>3
<1> QED BY <1>4

\* The same of an f whose values are not known to be in V.
IteratesIn(f, N, V, base, G) ==
    /\ f[{}] = base
    /\ \A s \in SUBSET (1..N) : (s # {} /\ f[s \ {Max(s)}] \in V) =>
            f[s] = G[<<Max(s), f[s \ {Max(s)}]>>]

\* The values of such an f at the first k indices, one after the other.
IsChain(f, N, V, base, G) ==
    /\ \A k \in 0..N : f[1..k] \in V
    /\ f[1..0] = base
    /\ \A k \in 1..N : f[1..k] = G[<<k, f[1..(k - 1)]>>]

\* An f that is only known to iterate where its values are in V has them all.
LEMMA FoldChain ==
    ASSUME NEW N \in Nat, NEW V, NEW G \in [(1..N) \X V -> V], NEW base \in V,
           NEW f, IteratesIn(f, N, V, base, G)
    PROVE  IsChain(f, N, V, base, G)
<1>1. ASSUME NEW k \in 1..N, f[1..(k - 1)] \in V
      PROVE  f[1..k] = G[<<k, f[1..(k - 1)]>>] /\ f[1..k] \in V
    <2>1. 1..k \in SUBSET (1..N) /\ 1..k # {} /\ 1..k \in SUBSET (0..k) /\ k \in Nat OBVIOUS
    <2>2. Max(1..k) \in 1..k /\ \A y \in 1..k : Max(1..k) >= y BY <2>1, MaxOfNat
    <2>3. Max(1..k) = k
        <3>1. k \in 1..k OBVIOUS
        <3>2. Max(1..k) >= k BY <2>2, <3>1
        <3> QED BY <2>2, <3>2
    <2>4. (1..k) \ {k} = 1..(k - 1) OBVIOUS
    <2>5. f[1..k] = G[<<k, f[1..(k - 1)]>>] BY <1>1, <2>1, <2>3, <2>4 DEF IteratesIn
    <2> QED BY <1>1, <2>5
<1>2. 1..0 = {} OBVIOUS
<1> DEFINE Good == {k \in Nat : k <= N => f[1..k] \in V}
<1>3. 0 \in Good BY <1>2 DEF IteratesIn
<1>4. ASSUME NEW k \in Good PROVE k + 1 \in Good
    <2>1. CASE k + 1 <= N
        <3>1. k + 1 \in 1..N /\ (k + 1) - 1 = k /\ f[1..k] \in V BY <2>1
        <3>2. f[1..(k + 1)] \in V BY <1>1, <3>1
        <3> QED BY <3>2
    <2> QED BY <2>1
<1>5. Good = Nat
    <2>1. Good \in SUBSET Nat OBVIOUS
    <2> HIDE DEF Good
    <2> QED BY <1>3, <1>4, <2>1, SetInduction
<1>6. \A k \in 0..N : f[1..k] \in V
    <2> TAKE k \in 0..N
    <2>1. k \in Good BY <1>5
    <2> QED BY <2>1
<1> HIDE DEF Good
<1>7. \A k \in 1..N : f[1..k] = G[<<k, f[1..(k - 1)]>>] BY <1>1, <1>6
<1> QED BY <1>2, <1>6, <1>7 DEF IteratesIn, IsChain

\* A function on 0..N defined by its first value and the step to the next one.
Steps(c, N, base, G) == c[0] = base /\ \A k \in 1..N : c[k] = G[<<k, c[k - 1]>>]

LEMMA ChainExists ==
    ASSUME NEW N \in Nat, NEW V, NEW G \in [(1..N) \X V -> V], NEW base \in V
    PROVE  \E c \in [0..N -> V] : Steps(c, N, base, G)
<1>1. PICK g \in [SUBSET (1..N) -> V] : Iterates(g, N, base, G) BY FoldExists
<1>2. IteratesIn(g, N, V, base, G) BY <1>1 DEF Iterates, IteratesIn
<1>3. IsChain(g, N, V, base, G) BY <1>2, FoldChain
<1> DEFINE c == [k \in 0..N |-> g[1..k]]
<1>4. c \in [0..N -> V] BY <1>3 DEF IsChain
<1>5. c[0] = base BY <1>3 DEF IsChain
<1>6. ASSUME NEW k \in 1..N PROVE c[k] = G[<<k, c[k - 1]>>]
    <2>1. k \in 0..N /\ k - 1 \in 0..N OBVIOUS
    <2>2. c[k] = g[1..k] /\ c[k - 1] = g[1..(k - 1)] BY <2>1
    <2> QED BY <1>3, <2>2 DEF IsChain
<1> QED BY <1>4, <1>5, <1>6 DEF Steps
=============================================================================
