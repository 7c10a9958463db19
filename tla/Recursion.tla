------------------------------- MODULE Recursion -------------------------------
(***************************************************************************)
(* Induction over the steps of a loop, for the proofs about the operators  *)
(* of the model that walk along a sequence.  Base is what such a walk      *)
(* starts from and Step what its k-th step makes of what the one before    *)
(* left, both for a subject that the whole walk is about.  A proof module  *)
(* instantiates this one for each of its walks.                            *)
(***************************************************************************)
EXTENDS Integers, WellFoundedInduction, TLAPS

CONSTANTS Base(_), Step(_, _, _)

\* A set of naturals has a least element.
LEMMA LeastNatural ==
    ASSUME NEW S, S \subseteq Nat, S # {}
    PROVE  \E m \in S : \A n \in S : m <= n
<1> DEFINE R == OpToRel(<, Nat)
<1>1. IsWellFoundedOn(R, Nat)
  BY NatLessThanWellFounded
<1>2. PICK m \in S : \A n \in S : ~(<<n, m>> \in R)
  <2> HIDE DEF R
  <2> QED BY <1>1, WFMin
<1>3. \A n \in S : ~(n < m)
  BY <1>2 DEF OpToRel
<1> QED BY <1>3

\* What holds of 0 and of the successor of each number it holds of, up to N,
\* holds up to N.
LEMMA Upward ==
    ASSUME NEW N \in Nat, NEW S, 0 \in S, \A k \in 1 .. N : k - 1 \in S => k \in S
    PROVE  \A k \in 0 .. N : k \in S
<1> DEFINE T == {k \in 0 .. N : k \notin S}
<1>1. SUFFICES ASSUME T # {} PROVE FALSE
  OBVIOUS
<1>2. PICK m \in T : \A n \in T : m <= n
  <2>1. T \subseteq Nat
    OBVIOUS
  <2> HIDE DEF T
  <2> QED BY <2>1, <1>1, LeastNatural
<1>3. m \in 1 .. N /\ m - 1 \notin T
  BY <1>2
<1> QED BY <1>2, <1>3

\* The same from N down to 0.
LEMMA Downward ==
    ASSUME NEW N \in Nat, NEW S, N \in S, \A k \in 1 .. N : k \in S => k - 1 \in S
    PROVE  \A k \in 0 .. N : k \in S
<1> DEFINE T == {k \in 0 .. N : N - k \in S}
<1>1. 0 \in T
  OBVIOUS
<1>2. ASSUME NEW k \in 1 .. N, k - 1 \in T PROVE k \in T
  <2>1. N - (k - 1) \in 1 .. N /\ (N - (k - 1)) - 1 = N - k
    OBVIOUS
  <2>2. N - (k - 1) \in S
    BY <1>2
  <2>3. N - k \in S
    BY <2>1, <2>2
  <2> QED BY <2>3
<1>3. \A k \in 0 .. N : k \in T
  <2> HIDE DEF T
  <2> QED BY <1>1, <1>2, Upward
<1>4. ASSUME NEW k \in 0 .. N PROVE k \in S
  <2>1. N - k \in T /\ N - (N - k) = k
    BY <1>3
  <2> QED BY <2>1
<1> QED BY <1>4

-----------------------------------------------------------------------------

\* f is the walk of n steps.
Solves(e, f, n) == f = [k \in 0 .. n |-> IF k = 0 THEN Base(e) ELSE Step(e, k, f[k - 1])]

Solution(e, n) == CHOOSE f : Solves(e, f, n)

\* There is such a walk.
LEMMA Solvable ==
    ASSUME NEW e, NEW N \in Nat
    PROVE  \E f : Solves(e, f, N)
<1> DEFINE S == {n \in 0 .. N : \E f : Solves(e, f, n)}
<1>1. 0 \in S
  <2> DEFINE h == [k \in 0 .. 0 |-> Base(e)]
  <2>1. h = [k \in 0 .. 0 |-> IF k = 0 THEN Base(e) ELSE Step(e, k, h[k - 1])]
    OBVIOUS
  <2>2. Solves(e, h, 0)
    BY <2>1 DEF Solves
  <2> QED BY <2>2
<1>2. ASSUME NEW m \in 1 .. N, m - 1 \in S PROVE m \in S
  <2>1. PICK f : Solves(e, f, m - 1)
    BY <1>2
  <2> DEFINE then(h) == [k \in 0 .. m |-> IF k = 0 THEN Base(e) ELSE Step(e, k, h[k - 1])]
  <2> DEFINE g == then(f)
  <2>2. \A k \in 0 .. m - 1 : f[k] = IF k = 0 THEN Base(e) ELSE Step(e, k, f[k - 1])
    BY <2>1 DEF Solves
  <2>3. \A k \in 1 .. m : g[k - 1] = f[k - 1]
    BY <2>2
  <2>4. ASSUME NEW k \in 0 .. m
        PROVE  (IF k = 0 THEN Base(e) ELSE Step(e, k, f[k - 1]))
                 = (IF k = 0 THEN Base(e) ELSE Step(e, k, g[k - 1]))
    <3> HIDE DEF g
    <3> QED BY <2>3
  <2>5. g = then(g)
    BY <2>4, Zenon
  <2>6. Solves(e, g, m)
    BY <2>5 DEF Solves
  <2> QED BY <2>6
<1>3. \A n \in 0 .. N : n \in S
  <2> HIDE DEF S
  <2> QED BY <1>1, <1>2, Upward
<1> QED BY <1>3

\* So the walk that is chosen starts from Base and goes by Step.
THEOREM StepByStep ==
    \A e : \A N \in Nat :
        /\ DOMAIN Solution(e, N) = 0 .. N
        /\ Solution(e, N)[0] = Base(e)
        /\ \A k \in 1 .. N : Solution(e, N)[k] = Step(e, k, Solution(e, N)[k - 1])
<1> SUFFICES ASSUME NEW e, NEW N \in Nat
             PROVE  /\ DOMAIN Solution(e, N) = 0 .. N
                    /\ Solution(e, N)[0] = Base(e)
                    /\ \A k \in 1 .. N : Solution(e, N)[k] = Step(e, k, Solution(e, N)[k - 1])
  OBVIOUS
<1>1. Solves(e, Solution(e, N), N)
  BY Solvable DEF Solution
<1>2. PICK f : f = Solution(e, N)
  OBVIOUS
<1>3. f = [k \in 0 .. N |-> IF k = 0 THEN Base(e) ELSE Step(e, k, f[k - 1])]
  BY <1>1, <1>2 DEF Solves
<1>4. /\ DOMAIN f = 0 .. N
      /\ f[0] = Base(e)
      /\ \A k \in 1 .. N : f[k] = Step(e, k, f[k - 1])
  BY <1>3
<1> QED BY <1>2, <1>4
=============================================================================
