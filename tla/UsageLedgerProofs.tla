------------------------- MODULE UsageLedgerProofs -------------------------
(***************************************************************************)
(* Proofs about UsageLedger, for every number of calls, records and        *)
(* writers of the previous release, all limits and amounts, and a clock of *)
(* any length.                                                             *)
(***************************************************************************)
EXTENDS UsageLedger, FiniteSetTheorems, WellFoundedInduction, TLAPS

-----------------------------------------------------------------------------
(* Sums over finite sets.  What would be an induction over the size of the set is an argument on a *)
(* smallest set for which the claim fails.                                                         *)

\* A set of numbers that is not empty has a least one.
LEMMA LeastNatural ==
    ASSUME NEW T, T \subseteq Nat, T # {}
    PROVE  \E n \in T : \A m \in T : n <= m
<1>1. \E n \in T : \A m \in T : <<m, n>> \notin OpToRel(<, Nat)
    BY WFMin, NatLessThanWellFounded, Zenon
<1>2. PICK n \in T : \A m \in T : <<m, n>> \notin OpToRel(<, Nat)
    BY <1>1
<1>3. \A m \in T : m \in Nat /\ n \in Nat /\ ~(m < n)
    BY <1>2 DEF OpToRel
<1>4. \A m \in T : n <= m
    BY <1>3
<1> QED BY <1>4

\* Of some subsets of a finite set one is smallest: none of the others is a part of it.
LEMMA SmallestSet ==
    ASSUME NEW U, IsFiniteSet(U), NEW Bad, Bad \subseteq SUBSET U, Bad # {}
    PROVE  \E S \in Bad : \A R \in Bad : R \subseteq S => R = S
<1> DEFINE Sizes == {Cardinality(S) : S \in Bad}
<1>1. \A S \in Bad : IsFiniteSet(S) /\ Cardinality(S) \in Nat
    BY FS_Subset, FS_CardinalityType
<1>2. Sizes \subseteq Nat /\ Sizes # {}
    BY <1>1
<1>3. \E n \in Sizes : \A m \in Sizes : n <= m
    BY <1>2, LeastNatural
<1>4. PICK S \in Bad : \A R \in Bad : Cardinality(S) <= Cardinality(R)
    BY <1>3
<1>5. ASSUME NEW R \in Bad, R \subseteq S PROVE R = S
    <2>1. Cardinality(R) = Cardinality(S) BY <1>1, <1>4, <1>5, FS_Subset
    <2> QED BY <1>1, <1>5, <2>1, FS_Subset
<1> QED BY <1>4, <1>5

\* The fold behind SumFunctionOnSet: a function on the subsets of a set that takes an element of
\* its choice at a time.
Chosen(S) == CHOOSE x \in S : TRUE
Recurrence(g, it, S) == IF S = {} THEN 0 ELSE g[Chosen(S)] + it[S \ {Chosen(S)}]
Solves(it, g, U) == it = [S \in SUBSET U |-> Recurrence(g, it, S)]
Iteration(g, U) == CHOOSE it : Solves(it, g, U)

\* SumFunctionOnSet is that fold.
LEMMA SumIsIteration ==
    ASSUME NEW g, NEW U
    PROVE  SumFunctionOnSet(g, U) = Iteration(g, U)[U]
BY DEF SumFunctionOnSet, FoldFunctionOnSet, MapThenFoldSet, Iteration, Solves, Recurrence, Chosen

\* Two of these functions agree on the sets on which both are defined.
LEMMA SolutionsAgree ==
    ASSUME NEW g, NEW U, IsFiniteSet(U), NEW it, NEW jt, NEW V, V \subseteq U,
           Solves(it, g, U), Solves(jt, g, V)
    PROVE  \A S \in SUBSET V : it[S] = jt[S]
<1> DEFINE Bad == {S \in SUBSET V : it[S] # jt[S]}
<1> SUFFICES ASSUME Bad # {} PROVE FALSE
    OBVIOUS
<1>0. Bad \subseteq SUBSET U
    OBVIOUS
<1> HIDE DEF Bad
<1>1. PICK S \in Bad : \A R \in Bad : R \subseteq S => R = S
    BY <1>0, SmallestSet
<1> USE DEF Bad
<1>2. it[S] = Recurrence(g, it, S) /\ jt[S] = Recurrence(g, jt, S)
    BY <1>1 DEF Solves
<1>3. CASE S = {}
    <2>1. it[S] = 0 /\ jt[S] = 0
        BY <1>2, <1>3 DEF Recurrence
    <2> QED BY <1>1, <2>1
<1>4. CASE S # {}
    <2> DEFINE Q == S \ {Chosen(S)}
    <2>1. Q \subseteq S /\ Q # S
        BY <1>4 DEF Chosen
    <2>2. it[Q] = jt[Q]
        BY <1>1, <2>1
    <2>3. it[S] = g[Chosen(S)] + it[Q] /\ jt[S] = g[Chosen(S)] + jt[Q]
        BY <1>2, <1>4 DEF Recurrence
    <2>4. it[S] = jt[S]
        BY <2>2, <2>3
    <2> QED BY <1>1, <2>4
<1> QED BY <1>3, <1>4

\* Such a function exists on the subsets of every finite set.
LEMMA SolutionExists ==
    ASSUME NEW g, NEW U, IsFiniteSet(U)
    PROVE  Solves(Iteration(g, U), g, U)
<1> DEFINE Bad == {S \in SUBSET U : ~\E it : Solves(it, g, S)}
<1>1. ASSUME Bad # {} PROVE FALSE
    <2>0. Bad \subseteq SUBSET U
        OBVIOUS
    <2> HIDE DEF Bad
    <2>1. PICK S \in Bad : \A R \in Bad : R \subseteq S => R = S
        BY <1>1, <2>0, SmallestSet
    <2> USE DEF Bad
    <2>2. ASSUME NEW R \in SUBSET S, R # S PROVE Solves(Iteration(g, R), g, R)
        <3>1. \E it : Solves(it, g, R)
            BY <2>1, <2>2
        <3> QED BY <3>1 DEF Iteration
    <2>3. \A R \in SUBSET S : R # S => Iteration(g, R)[R] = Recurrence(g, Iteration(g, R), R)
        BY <2>2 DEF Solves
    <2>4. ASSUME NEW R \in SUBSET S, R # S, NEW T \in SUBSET R
          PROVE  Iteration(g, R)[T] = Iteration(g, T)[T]
        <3>1. Solves(Iteration(g, R), g, R) /\ Solves(Iteration(g, T), g, T) /\ IsFiniteSet(R)
            BY <2>1, <2>2, <2>4, FS_Subset
        <3> QED BY <3>1, SolutionsAgree
    <2> DEFINE last == Iteration(g, S \ {Chosen(S)})
               it == [R \in SUBSET S |->
                         IF R = S THEN (IF S = {} THEN 0 ELSE g[Chosen(S)] + last[S \ {Chosen(S)}])
                         ELSE Iteration(g, R)[R]]
    <2>5. ASSUME NEW R \in SUBSET S PROVE it[R] = Recurrence(g, it, R)
        <3>1. R # {} => Chosen(R) \in R
            BY DEF Chosen
        <3>2. CASE R = {}
            BY <2>3, <3>2 DEF Recurrence
        <3>3. CASE R # {} /\ R # S
            <4> DEFINE Q == R \ {Chosen(R)}
            <4>1. Q \in SUBSET S /\ Q # S /\ Q \in SUBSET R
                BY <3>1, <3>3
            <4>2. it[Q] = Iteration(g, Q)[Q]
                BY <4>1
            <4>3. Iteration(g, R)[Q] = Iteration(g, Q)[Q]
                BY <2>4, <3>3, <4>1
            <4>4. it[R] = g[Chosen(R)] + Iteration(g, R)[Q]
                BY <2>3, <3>3 DEF Recurrence
            <4> QED BY <3>3, <4>2, <4>3, <4>4 DEF Recurrence
        <3>4. CASE R # {} /\ R = S
            <4> DEFINE Q == S \ {Chosen(S)}
            <4>1. Q \in SUBSET S /\ Q # S
                BY <3>1, <3>4
            <4>2. it[Q] = Iteration(g, Q)[Q]
                BY <4>1
            <4> QED BY <3>4, <4>2 DEF Recurrence
        <3> QED BY <3>2, <3>3, <3>4
    <2>6. Solves(it, g, S)
        <3>1. it = [R \in SUBSET S |-> it[R]]
            OBVIOUS
        <3> HIDE DEF it
        <3> QED BY <2>5, <3>1 DEF Solves
    <2> QED BY <2>1, <2>6
<1>2. \E it : Solves(it, g, U)
    BY <1>1
<1> QED BY <1>2 DEF Iteration

\* A sum takes an element of its choice at a time.
LEMMA SumRecurrence ==
    ASSUME NEW g, NEW S, IsFiniteSet(S)
    PROVE  /\ S = {} => SumFunctionOnSet(g, S) = 0
           /\ S # {} => /\ Chosen(S) \in S
                        /\ SumFunctionOnSet(g, S) =
                               g[Chosen(S)] + SumFunctionOnSet(g, S \ {Chosen(S)})
<1>1. Solves(Iteration(g, S), g, S)
    BY SolutionExists
<1>2. Iteration(g, S)[S] = Recurrence(g, Iteration(g, S), S)
    BY <1>1 DEF Solves
<1> DEFINE Q == S \ {Chosen(S)}
<1>3. IsFiniteSet(Q) /\ Solves(Iteration(g, Q), g, Q)
    BY SolutionExists, FS_Subset
<1>4. Iteration(g, S)[Q] = Iteration(g, Q)[Q]
    <2>1. Q \subseteq S /\ Q \in SUBSET Q
        OBVIOUS
    <2> HIDE DEF Q
    <2> QED BY <1>1, <1>3, <2>1, SolutionsAgree
<1>5. S # {} => Chosen(S) \in S
    BY DEF Chosen
<1>6. SumFunctionOnSet(g, S) = Iteration(g, S)[S] /\ SumFunctionOnSet(g, Q) = Iteration(g, Q)[Q]
    BY SumIsIteration
<1>7. S = {} => Iteration(g, S)[S] = 0
    BY <1>2 DEF Recurrence
<1>8. S # {} => Iteration(g, S)[S] = g[Chosen(S)] + Iteration(g, S)[Q]
    BY <1>2 DEF Recurrence
<1> HIDE DEF Q
<1>9. S # {} => SumFunctionOnSet(g, S) = g[Chosen(S)] + SumFunctionOnSet(g, Q)
    BY <1>4, <1>6, <1>8
<1> QED BY <1>5, <1>6, <1>7, <1>9 DEF Q

\* A function that gives each element of a set a number.
Numbers(g, S) == \A e \in S : g[e] \in Int

\* A sum of numbers is one.
LEMMA SumType ==
    ASSUME NEW g, NEW U, IsFiniteSet(U), Numbers(g, U)
    PROVE  \A S \in SUBSET U : SumFunctionOnSet(g, S) \in Int
<1> DEFINE Bad == {S \in SUBSET U : SumFunctionOnSet(g, S) \notin Int}
<1> SUFFICES ASSUME Bad # {} PROVE FALSE
    OBVIOUS
<1>1. Bad \subseteq SUBSET U
    OBVIOUS
<1> HIDE DEF Bad
<1>2. PICK S \in Bad : \A R \in Bad : R \subseteq S => R = S
    BY <1>1, SmallestSet
<1> USE DEF Bad
<1> DEFINE Q == S \ {Chosen(S)}
<1>3. IsFiniteSet(S)
    BY <1>2, FS_Subset
<1>4. /\ S = {} => SumFunctionOnSet(g, S) = 0
      /\ S # {} => /\ Chosen(S) \in S
                   /\ SumFunctionOnSet(g, S) = g[Chosen(S)] + SumFunctionOnSet(g, Q)
    BY <1>3, SumRecurrence
<1>5. S # {} => Q \subseteq S /\ Q # S
    BY <1>4
<1>6. S # {} => SumFunctionOnSet(g, Q) \in Int
    BY <1>2, <1>5
<1>7. S # {} => g[Chosen(S)] \in Int
    BY <1>2, <1>4 DEF Numbers
<1> HIDE DEF Q
<1> QED BY <1>2, <1>4, <1>6, <1>7

\* Any element may be taken first.
Takes(g, S) == \A x \in S : SumFunctionOnSet(g, S) = g[x] + SumFunctionOnSet(g, S \ {x})

\* The choice the fold makes is of no consequence.
LEMMA AnyElementFirst ==
    ASSUME NEW g, NEW U, IsFiniteSet(U), Numbers(g, U)
    PROVE  \A S \in SUBSET U : Takes(g, S)
<1> DEFINE Bad == {S \in SUBSET U : ~Takes(g, S)}
<1> SUFFICES ASSUME Bad # {} PROVE FALSE
    OBVIOUS
<1>1. Bad \subseteq SUBSET U
    OBVIOUS
<1> HIDE DEF Bad
<1>2. PICK S \in Bad : \A R \in Bad : R \subseteq S => R = S
    BY <1>1, SmallestSet
<1> USE DEF Bad
<1>3. IsFiniteSet(S) /\ S \subseteq U
    BY <1>2, FS_Subset
<1>4. PICK x \in S : SumFunctionOnSet(g, S) # g[x] + SumFunctionOnSet(g, S \ {x})
    BY <1>2 DEF Takes
<1>5. PICK y \in S : SumFunctionOnSet(g, S) = g[y] + SumFunctionOnSet(g, S \ {y})
                     /\ y = Chosen(S)
    BY <1>3, <1>4, SumRecurrence
<1>6. CASE x = y
    BY <1>4, <1>5, <1>6
<1>7. CASE x # y
    <2>1. Takes(g, S \ {x}) /\ Takes(g, S \ {y})
        BY <1>2, <1>3
    <2>2. y \in S \ {x} /\ x \in S \ {y} /\ (S \ {x}) \ {y} = (S \ {y}) \ {x}
        BY <1>7
    <2>3. /\ SumFunctionOnSet(g, S \ {x}) = g[y] + SumFunctionOnSet(g, (S \ {x}) \ {y})
          /\ SumFunctionOnSet(g, S \ {y}) = g[x] + SumFunctionOnSet(g, (S \ {x}) \ {y})
        BY <2>1, <2>2 DEF Takes
    <2>4. g[x] \in Int /\ g[y] \in Int /\ SumFunctionOnSet(g, (S \ {x}) \ {y}) \in Int
        BY <1>3, SumType DEF Numbers
    <2> QED BY <1>4, <1>5, <2>3, <2>4
<1> QED BY <1>6, <1>7

\* The sum of a set that gains an element.
LEMMA SumAdd ==
    ASSUME NEW g, NEW S, IsFiniteSet(S), NEW x, x \notin S, Numbers(g, S \cup {x})
    PROVE  /\ SumFunctionOnSet(g, S \cup {x}) = SumFunctionOnSet(g, S) + g[x]
           /\ SumFunctionOnSet(g, S) \in Int /\ g[x] \in Int
<1> DEFINE T == S \cup {x}
<1>1. IsFiniteSet(T) /\ Numbers(g, T)
    BY FS_AddElement
<1>2. x \in T /\ T \ {x} = S /\ S \in SUBSET T /\ T \in SUBSET T
    OBVIOUS
<1> HIDE DEF T
<1>3. Takes(g, T)
    BY <1>1, <1>2, AnyElementFirst
<1>4. SumFunctionOnSet(g, T) = g[x] + SumFunctionOnSet(g, S)
    BY <1>2, <1>3 DEF Takes
<1>5. SumFunctionOnSet(g, S) \in Int /\ g[x] \in Int
    BY <1>1, <1>2, SumType DEF Numbers
<1>6. SumFunctionOnSet(g, T) = SumFunctionOnSet(g, S) + g[x]
    BY <1>4, <1>5
<1> QED BY <1>5, <1>6 DEF T

\* Nothing adds up to nothing.
LEMMA SumEmpty ==
    ASSUME NEW g
    PROVE  SumFunctionOnSet(g, {}) = 0
BY SumRecurrence, FS_EmptySet

\* A part of a set adds up to no more than the set does with amounts that are no smaller and none
\* below zero.
Below(g, R, h, S) == SumFunctionOnSet(g, R) <= SumFunctionOnSet(h, S)

\* A sum grows with its set and with its amounts.
LEMMA SumMonotone ==
    ASSUME NEW g, NEW h, NEW U, IsFiniteSet(U), NEW V, V \subseteq U, Numbers(h, U), Numbers(g, V),
           \A e \in U : 0 <= h[e], \A e \in V : g[e] <= h[e]
    PROVE  Below(g, V, h, U)
<1> DEFINE Bad == {S \in SUBSET U : ~Below(g, V \cap S, h, S)}
<1>1. Bad \subseteq SUBSET U
    OBVIOUS
<1>2. ASSUME Bad # {} PROVE FALSE
    <2> HIDE DEF Bad
    <2>1. PICK S \in Bad : \A R \in Bad : R \subseteq S => R = S
        BY <1>1, <1>2, SmallestSet
    <2> USE DEF Bad
    <2>2. CASE S = {}
        <3>1. V \cap S = {}
            BY <2>2
        <3>2. SumFunctionOnSet(g, V \cap S) = 0 /\ SumFunctionOnSet(h, S) = 0
            BY <2>2, <3>1, SumEmpty
        <3> QED BY <2>1, <3>2 DEF Below
    <2>3. CASE S # {}
        <3>1. PICK x \in S : TRUE
            BY <2>3
        <3> DEFINE Q == S \ {x}
        <3>2. Q \in SUBSET U /\ Q \subseteq S /\ Q # S /\ x \notin Q /\ S = Q \cup {x}
            BY <2>1, <3>1
        <3>3. IsFiniteSet(Q) /\ IsFiniteSet(V \cap Q)
            BY <3>2, FS_Subset
        <3>4. Below(g, V \cap Q, h, Q)
            BY <2>1, <3>2
        <3>5. /\ SumFunctionOnSet(h, S) = SumFunctionOnSet(h, Q) + h[x]
              /\ SumFunctionOnSet(h, Q) \in Int /\ h[x] \in Int /\ 0 <= h[x]
            <4>1. Numbers(h, Q \cup {x})
                BY <2>1, <3>2 DEF Numbers
            <4> HIDE DEF Q
            <4> QED BY <2>1, <3>2, <3>3, <4>1, SumAdd
        <3>6. SumFunctionOnSet(g, V \cap Q) \in Int
            <4>1. IsFiniteSet(V) /\ V \cap Q \in SUBSET V
                BY FS_Subset
            <4> QED BY <4>1, SumType
        <3>7. CASE x \in V
            <4>1. V \cap S = (V \cap Q) \cup {x} /\ x \notin V \cap Q
                BY <3>1, <3>7
            <4>2. Numbers(g, (V \cap Q) \cup {x})
                BY <3>7 DEF Numbers
            <4>3. SumFunctionOnSet(g, V \cap S) = SumFunctionOnSet(g, V \cap Q) + g[x] /\ g[x] \in Int
                <5> HIDE DEF Q
                <5> QED BY <3>3, <4>1, <4>2, SumAdd
            <4>4. g[x] <= h[x]
                BY <3>7
            <4> QED BY <2>1, <3>4, <3>5, <3>6, <4>3, <4>4 DEF Below
        <3>8. CASE x \notin V
            <4>1. V \cap S = V \cap Q
                BY <3>8
            <4>2. SumFunctionOnSet(g, V \cap S) = SumFunctionOnSet(g, V \cap Q)
                BY <4>1
            <4>3. SumFunctionOnSet(g, V \cap Q) <= SumFunctionOnSet(h, Q)
                BY <3>4 DEF Below
            <4>4. SumFunctionOnSet(g, V \cap S) <= SumFunctionOnSet(h, S)
                <5> HIDE DEF Q
                <5> QED BY <3>5, <3>6, <4>2, <4>3
            <4> QED BY <2>1, <4>4 DEF Below
        <3> QED BY <3>7, <3>8
    <2> QED BY <2>2, <2>3
<1>3. U \in SUBSET U /\ V \cap U = V
    OBVIOUS
<1>4. Below(g, V \cap U, h, U)
    BY <1>2, <1>3
<1> QED BY <1>3, <1>4

\* Amounts that are the same on a set add up to the same there.
LEMMA SumExtensional ==
    ASSUME NEW g, NEW h, NEW U, IsFiniteSet(U), \A e \in U : g[e] = h[e]
    PROVE  SumFunctionOnSet(g, U) = SumFunctionOnSet(h, U)
<1> DEFINE Bad == {S \in SUBSET U : SumFunctionOnSet(g, S) # SumFunctionOnSet(h, S)}
<1>1. Bad \subseteq SUBSET U
    OBVIOUS
<1>2. ASSUME Bad # {} PROVE FALSE
    <2> HIDE DEF Bad
    <2>1. PICK S \in Bad : \A R \in Bad : R \subseteq S => R = S
        BY <1>1, <1>2, SmallestSet
    <2> USE DEF Bad
    <2> DEFINE Q == S \ {Chosen(S)}
    <2>2. IsFiniteSet(S)
        BY <2>1, FS_Subset
    <2>3. /\ S = {} => SumFunctionOnSet(g, S) = 0
          /\ S # {} => /\ Chosen(S) \in S
                       /\ SumFunctionOnSet(g, S) = g[Chosen(S)] + SumFunctionOnSet(g, Q)
        BY <2>2, SumRecurrence
    <2>4. /\ S = {} => SumFunctionOnSet(h, S) = 0
          /\ S # {} => SumFunctionOnSet(h, S) = h[Chosen(S)] + SumFunctionOnSet(h, Q)
        BY <2>2, SumRecurrence
    <2>5. S # {} => SumFunctionOnSet(g, Q) = SumFunctionOnSet(h, Q)
        BY <2>1, <2>3
    <2>6. S # {} => g[Chosen(S)] = h[Chosen(S)]
        BY <2>1, <2>3
    <2> HIDE DEF Q
    <2>7. SumFunctionOnSet(g, S) = SumFunctionOnSet(h, S)
        BY <2>3, <2>4, <2>5, <2>6
    <2> QED BY <2>1, <2>7
<1>3. U \in SUBSET U
    OBVIOUS
<1> QED BY <1>2, <1>3

\* One amount of a sum changes.
LEMMA SumUpdate ==
    ASSUME NEW g, NEW h, NEW U, IsFiniteSet(U), Numbers(g, U), Numbers(h, U), NEW x \in U,
           \A e \in U : e # x => g[e] = h[e]
    PROVE  /\ SumFunctionOnSet(h, U) = SumFunctionOnSet(g, U) + (h[x] - g[x])
           /\ SumFunctionOnSet(g, U) \in Int /\ h[x] \in Int /\ g[x] \in Int
<1> DEFINE Q == U \ {x}
<1>1. IsFiniteSet(Q) /\ \A e \in Q : g[e] = h[e]
    BY FS_Subset
<1>2. U \in SUBSET U /\ Q \in SUBSET U
    OBVIOUS
<1> HIDE DEF Q
<1>3. SumFunctionOnSet(g, Q) = SumFunctionOnSet(h, Q)
    BY <1>1, SumExtensional
<1>4. Takes(g, U) /\ Takes(h, U)
    BY <1>2, AnyElementFirst
<1>5. /\ SumFunctionOnSet(g, U) = g[x] + SumFunctionOnSet(g, Q)
      /\ SumFunctionOnSet(h, U) = h[x] + SumFunctionOnSet(h, Q)
    BY <1>4 DEF Takes, Q
<1>6. SumFunctionOnSet(g, Q) \in Int /\ g[x] \in Int /\ h[x] \in Int
    BY <1>2, SumType DEF Numbers
<1> QED BY <1>3, <1>5, <1>6

\* Sums of sets with no element in common.
LEMMA SumDisjoint ==
    ASSUME NEW g, NEW A, NEW B, IsFiniteSet(A), IsFiniteSet(B), A \cap B = {}, Numbers(g, A \cup B)
    PROVE  /\ SumFunctionOnSet(g, A \cup B) = SumFunctionOnSet(g, A) + SumFunctionOnSet(g, B)
           /\ SumFunctionOnSet(g, A) \in Int /\ SumFunctionOnSet(g, B) \in Int
<1> DEFINE Bad == {S \in SUBSET B : SumFunctionOnSet(g, A \cup S) #
                                        SumFunctionOnSet(g, A) + SumFunctionOnSet(g, S)}
<1>1. Bad \subseteq SUBSET B
    OBVIOUS
<1>2. SumFunctionOnSet(g, A) \in Int /\ \A S \in SUBSET B : SumFunctionOnSet(g, S) \in Int
    <2>1. Numbers(g, A) /\ Numbers(g, B) /\ A \in SUBSET A
        BY DEF Numbers
    <2> QED BY <2>1, SumType
<1>3. ASSUME Bad # {} PROVE FALSE
    <2> HIDE DEF Bad
    <2>1. PICK S \in Bad : \A R \in Bad : R \subseteq S => R = S
        BY <1>1, <1>3, SmallestSet
    <2> USE DEF Bad
    <2>2. CASE S = {}
        <3>1. A \cup S = A /\ SumFunctionOnSet(g, S) = 0
            BY <2>2, SumEmpty
        <3>2. SumFunctionOnSet(g, A \cup S) = SumFunctionOnSet(g, A)
            BY <3>1
        <3>3. SumFunctionOnSet(g, A \cup S) = SumFunctionOnSet(g, A) + SumFunctionOnSet(g, S)
            BY <1>2, <3>1, <3>2
        <3> QED BY <2>1, <3>3
    <2>3. CASE S # {}
        <3>1. PICK x \in S : TRUE
            BY <2>3
        <3> DEFINE Q == S \ {x}
        <3>2. /\ Q \in SUBSET B /\ Q \subseteq S /\ Q # S /\ x \notin Q /\ S = Q \cup {x}
              /\ x \notin A \cup Q /\ A \cup S = (A \cup Q) \cup {x}
            BY <2>1, <3>1
        <3>3. IsFiniteSet(Q) /\ IsFiniteSet(A \cup Q)
            BY <3>2, FS_Subset, FS_Union
        <3>4. Numbers(g, Q \cup {x}) /\ Numbers(g, (A \cup Q) \cup {x})
            BY <2>1, <3>1 DEF Numbers
        <3>5. SumFunctionOnSet(g, A \cup Q) = SumFunctionOnSet(g, A) + SumFunctionOnSet(g, Q)
            BY <2>1, <3>2
        <3> HIDE DEF Q
        <3>6. SumFunctionOnSet(g, S) = SumFunctionOnSet(g, Q) + g[x] /\ g[x] \in Int
            BY <3>2, <3>3, <3>4, SumAdd
        <3>7. SumFunctionOnSet(g, A \cup S) = SumFunctionOnSet(g, A \cup Q) + g[x]
            BY <3>2, <3>3, <3>4, SumAdd
        <3>8. SumFunctionOnSet(g, Q) \in Int
            BY <1>2, <3>2
        <3>9. SumFunctionOnSet(g, A \cup S) = SumFunctionOnSet(g, A) + SumFunctionOnSet(g, S)
            BY <1>2, <3>5, <3>6, <3>7, <3>8
        <3> QED BY <2>1, <3>9
    <2> QED BY <2>2, <2>3
<1>4. B \in SUBSET B
    OBVIOUS
<1> QED BY <1>2, <1>3, <1>4

-----------------------------------------------------------------------------
(* The inductive invariant. *)

\* A process of the previous release writes what is over; what counts as pending or abandoned is a
\* call's, a pending call counts what it reserved, and only recovery leaves one abandoned.
EventsOK ==
    \A e \in Events :
        /\ event[e].status \in {"pending", "abandoned"} => e \in Calls
        /\ e \in Callers => event[e].counted \in Nat
        /\ event[e].status = "pending" => event[e].counted = Reserved[e]
        /\ event[e].status = "abandoned" => event[e].released

\* A caller that still counts has written no event and may start counters again; the counters on
\* which an event of a caller was counted are there for good.
CallersOK ==
    \A c \in Callers :
        /\ pc[c] \in {"count", "insert"} => event[c].status = "none" /\ tries[c] < 3
        /\ event[c].status # "none" => \A p \in PeriodsOf(event[c].day) : counter[p] # Null

\* An amount is what some events of the previous release hold on the counter of a period.
HeldByLegacy(p, amount) == \E E \in SUBSET (EventsOf(p) \cap Legacy) : amount = CountedBy(E)

\* What startCounters read of a period without a counter is that.
SeenOK ==
    /\ DOMAIN seen = Callers
    /\ \A c \in Callers : /\ DOMAIN seen[c] \subseteq Periods
                          /\ \A p \in DOMAIN seen[c] : HeldByLegacy(p, seen[c][p])

\* The reconciliation under way compares counters that are there.
ReconOK ==
    /\ recon.since \in Days
    /\ \A p \in DOMAIN recon.drift : p \in Periods /\ counter[p] # Null

\* What a reconciliation found a counter to be short of is some of what it lacks: events of the
\* previous release, which it has lacked since.
Drifted(p, missed) ==
    p \in DOMAIN recon.drift =>
        \E late \in SUBSET missed : recon.drift[p] = Minus(Nothing, CountedBy(late))

\* CountersMatchEvents, with what the reconciliation under way knows of the missing events.
CountersOK ==
    \A p \in Periods : counter[p] # Null =>
        \E missed \in SUBSET (EventsOf(p) \cap Legacy) :
            counter[p] = CountedBy(EventsOf(p) \ missed) /\ Drifted(p, missed)

\* The limits of NeverOverbooked, period by period.
Kept(p) ==
    /\ p[1] = "day" => /\ holds(CallsPerDay, Cardinality(admitted(p)))
                       /\ holds(TokensPerDay, booked(p))
    /\ p[1] = "month" => holds(TokensPerMonth, booked(p))

LimitsOK == \A p \in Periods : Kept(p)

IInv == /\ TypeOK /\ EventsOK /\ CallersOK /\ SeenOK /\ ReconOK
        /\ CountersOK /\ SumsMatchEvents /\ LimitsOK

-----------------------------------------------------------------------------
(* Amounts of events. *)

\* What the events E come to when each counts what g gives it: CountedBy is the amount of held,
\* SummedBy that of used.
Amount(g, E) == [calls |-> Cardinality(E), tokens |-> SumFunctionOnSet(g, E)]

\* Amounts are amounts.
LEMMA AmountType ==
    ASSUME NEW g, NEW E, IsFiniteSet(E), Numbers(g, E)
    PROVE  Amount(g, E) \in Amounts /\ Amount(g, E).calls \in Nat
<1>1. SumFunctionOnSet(g, E) \in Int
    BY SumType
<1>2. Cardinality(E) \in Nat
    BY FS_CardinalityType
<1> QED BY <1>1, <1>2 DEF Amount, Amounts

\* What is added to an amount is one.
LEMMA PlusType ==
    ASSUME NEW a \in Amounts, NEW calls \in Int, NEW tokens \in Int
    PROVE  Plus(a, calls, tokens) \in Amounts
BY DEF Plus, Amounts

\* An event more.
LEMMA AmountAdd ==
    ASSUME NEW g, NEW h, NEW E, IsFiniteSet(E), NEW x, x \notin E, Numbers(g, E), h[x] \in Int,
           \A e \in E : h[e] = g[e]
    PROVE  Amount(h, E \cup {x}) = Plus(Amount(g, E), 1, h[x])
<1>1. Numbers(h, E \cup {x})
    BY DEF Numbers
<1>2. SumFunctionOnSet(h, E \cup {x}) = SumFunctionOnSet(h, E) + h[x]
    BY <1>1, SumAdd
<1>3. SumFunctionOnSet(h, E) = SumFunctionOnSet(g, E)
    BY SumExtensional
<1>4. Cardinality(E \cup {x}) = Cardinality(E) + 1
    BY FS_AddElement
<1> QED BY <1>2, <1>3, <1>4 DEF Amount, Plus

\* The same events that count the same.
LEMMA AmountSame ==
    ASSUME NEW g, NEW h, NEW E, IsFiniteSet(E), \A e \in E : h[e] = g[e]
    PROVE  Amount(h, E) = Amount(g, E)
BY SumExtensional DEF Amount

\* One event counts something else.
LEMMA AmountUpdate ==
    ASSUME NEW g, NEW h, NEW E, IsFiniteSet(E), NEW x \in E, Numbers(g, E), Numbers(h, E),
           \A e \in E : e # x => h[e] = g[e]
    PROVE  Amount(h, E) = Plus(Amount(g, E), 0, h[x] - g[x])
<1>1. SumFunctionOnSet(h, E) = SumFunctionOnSet(g, E) + (h[x] - g[x])
    BY SumUpdate
<1>2. Cardinality(E) \in Nat
    BY FS_CardinalityType
<1> QED BY <1>1, <1>2 DEF Amount, Plus

\* What some of the events are short of is what the others come to.
LEMMA AmountShort ==
    ASSUME NEW g, NEW E, IsFiniteSet(E), Numbers(g, E), NEW R, R \subseteq E
    PROVE  /\ Minus(Amount(g, E \ R), Amount(g, E)) = Minus(Nothing, Amount(g, R))
           /\ Minus(Amount(g, E \ R), Minus(Nothing, Amount(g, R))) = Amount(g, E)
<1> DEFINE Q == E \ R
<1>1. IsFiniteSet(R) /\ IsFiniteSet(Q) /\ Q \cap R = {} /\ Q \cup R = E
    BY FS_Subset
<1> HIDE DEF Q
<1>2. /\ SumFunctionOnSet(g, E) = SumFunctionOnSet(g, Q) + SumFunctionOnSet(g, R)
      /\ SumFunctionOnSet(g, Q) \in Int /\ SumFunctionOnSet(g, R) \in Int
    BY <1>1, SumDisjoint
<1>3. Cardinality(Q) \in Nat /\ Cardinality(R) \in Nat
    BY <1>1, FS_CardinalityType
<1>4. Cardinality(E) = Cardinality(Q) + Cardinality(R)
    <2>1. Cardinality(Q \cap R) = 0
        BY <1>1, FS_EmptySet
    <2> QED BY <1>1, <1>3, <2>1, FS_Union
<1>5. /\ Minus(Amount(g, Q), Amount(g, E)) = Minus(Nothing, Amount(g, R))
      /\ Minus(Amount(g, Q), Minus(Nothing, Amount(g, R))) = Amount(g, E)
    BY <1>2, <1>3, <1>4 DEF Minus, Plus, Nothing, Amount
<1> QED BY <1>5 DEF Q

-----------------------------------------------------------------------------
(* The tables. *)

\* Events are finitely many.
LEMMA EventsFinite == IsFiniteSet(Events)
BY UsageLedgerConstants, FS_Union DEF Events, Callers

\* An amount no event of the previous release has.
LEMMA NullIsNoAmount == \A a \in Amounts : a # Null
BY UsageLedgerConstants

\* What events hold and used are natural numbers.
LEMMA HeldType ==
    ASSUME TypeOK
    PROVE  /\ held \in [Events -> Nat] /\ used \in [Events -> Nat]
           /\ \A e \in Events : held[e] = countedTokens(event[e]) /\ used[e] = event[e].tokens
BY DEF TypeOK, Event, held, used, countedTokens

\* Some of the events are finitely many, and what they hold and used are numbers.
LEMMA SomeEvents ==
    ASSUME TypeOK, NEW E, E \subseteq Events
    PROVE  IsFiniteSet(E) /\ Numbers(held, E) /\ Numbers(used, E)
BY EventsFinite, FS_Subset, HeldType DEF Numbers

\* The two ways in which an event changes: it is written, and a row that is there is written again.
\* Nothing takes a row away or moves it to another day.
NewRow(e, row) ==
    /\ event[e].status = "none" /\ row.status # "none"
    /\ event' = [event EXCEPT ![e] = row]
SameRow(e, row) ==
    /\ event[e].status # "none" /\ row.status # "none" /\ row.day = event[e].day
    /\ event' = [event EXCEPT ![e] = row]

\* What the other events hold stays.
LEMMA RowHeld ==
    ASSUME TypeOK, NEW e \in Events, NEW row \in Event, event' = [event EXCEPT ![e] = row]
    PROVE  /\ event' \in [Events -> Event] /\ event'[e] = row
           /\ held' \in [Events -> Nat] /\ used' \in [Events -> Nat]
           /\ held'[e] = countedTokens(row) /\ used'[e] = row.tokens
           /\ \A x \in Events : x # e => /\ event'[x] = event[x]
                                         /\ held'[x] = held[x] /\ used'[x] = used[x]
BY DEF TypeOK, Event, held, used, countedTokens

\* A new event joins its day and its month.
LEMMA NewRowEvents ==
    ASSUME TypeOK, NEW e \in Events, NEW row \in Event, NewRow(e, row), NEW p
    PROVE  /\ e \notin EventsOf(p) /\ EventsOf(p) \subseteq Events
           /\ p \in PeriodsOf(row.day) => EventsOf(p)' = EventsOf(p) \cup {e}
           /\ p \notin PeriodsOf(row.day) => EventsOf(p)' = EventsOf(p)
<1>1. /\ event'[e] = row /\ \A x \in Events : x # e => event'[x] = event[x]
    BY RowHeld DEF NewRow
<1>2. e \notin EventsOf(p) /\ EventsOf(p) \subseteq Events
    BY DEF EventsOf, Written, NewRow
<1>3. \A x \in Events : x # e => (x \in EventsOf(p)' <=> x \in EventsOf(p))
    BY <1>1 DEF EventsOf, Written
<1>4. e \in EventsOf(p)' <=> p \in PeriodsOf(row.day)
    BY <1>1 DEF EventsOf, Written, NewRow
<1>5. EventsOf(p)' \subseteq Events
    BY DEF EventsOf, Written
<1> QED BY <1>2, <1>3, <1>4, <1>5

\* An event that is written again stays in its periods.
LEMMA SameRowEvents ==
    ASSUME TypeOK, NEW e \in Events, NEW row \in Event, SameRow(e, row), NEW p
    PROVE  /\ EventsOf(p)' = EventsOf(p) /\ EventsOf(p) \subseteq Events
           /\ e \in EventsOf(p) <=> p \in PeriodsOf(event[e].day)
<1>1. /\ event'[e] = row /\ \A x \in Events : x # e => event'[x] = event[x]
    BY RowHeld DEF SameRow
<1>2. \A x \in Events : x \in EventsOf(p)' <=> x \in EventsOf(p)
    BY <1>1 DEF EventsOf, Written, SameRow
<1>3. EventsOf(p)' \subseteq Events /\ EventsOf(p) \subseteq Events
    BY DEF EventsOf, Written
<1>4. e \in EventsOf(p) <=> p \in PeriodsOf(event[e].day)
    BY DEF EventsOf, Written, SameRow
<1> QED BY <1>2, <1>3, <1>4

\* The missing events of a period hold what they held.
SameHeld(E) == \A e \in E : held'[e] = held[e]

\* What the reconciliation knows of missing events stays true when more are missing.
LEMMA DriftStays ==
    ASSUME NEW p, NEW missed, NEW more, missed \subseteq more, missed \subseteq Events,
           SameHeld(missed), recon' = recon, Drifted(p, missed)
    PROVE  Drifted(p, more)'
<1> SUFFICES ASSUME p \in DOMAIN recon.drift
             PROVE  \E late \in SUBSET more : recon.drift[p] = Minus(Nothing, CountedBy(late)')
    BY DEF Drifted
<1>1. PICK late \in SUBSET missed : recon.drift[p] = Minus(Nothing, CountedBy(late))
    BY DEF Drifted
<1>2. IsFiniteSet(late)
    BY EventsFinite, FS_Subset
<1>3. Amount(held', late) = Amount(held, late)
    BY <1>1, <1>2, AmountSame DEF SameHeld
<1>4. CountedBy(late)' = CountedBy(late)
    BY <1>3 DEF CountedBy, Amount
<1> QED BY <1>1, <1>4

\* A caller counts its event on the counters of the day it writes it.
LEMMA CountersCount ==
    ASSUME TypeOK, CountersOK, NEW e \in Callers, NEW row \in Event, NewRow(e, row),
           \A p \in PeriodsOf(row.day) : counter[p] # Null, recon' = recon,
           counter' = [p \in Periods |-> IF p \in PeriodsOf(row.day)
                                         THEN Plus(counter[p], 1, countedTokens(row))
                                         ELSE counter[p]]
    PROVE  CountersOK'
<1> SUFFICES ASSUME NEW p \in Periods, counter'[p] # Null
             PROVE  \E missed \in SUBSET (EventsOf(p)' \cap Legacy) :
                        /\ counter'[p] = CountedBy(EventsOf(p) \ missed)'
                        /\ Drifted(p, missed)'
    BY DEF CountersOK
<1>1. e \in Events /\ e \notin Legacy
    BY UsageLedgerConstants DEF Events, Callers
<1>2. counter[p] # Null
    BY DEF CountersOK
<1>3. PICK missed \in SUBSET (EventsOf(p) \cap Legacy) :
          counter[p] = CountedBy(EventsOf(p) \ missed) /\ Drifted(p, missed)
    BY <1>2 DEF CountersOK
<1>4. /\ e \notin EventsOf(p) /\ EventsOf(p) \subseteq Events
      /\ p \in PeriodsOf(row.day) => EventsOf(p)' = EventsOf(p) \cup {e}
      /\ p \notin PeriodsOf(row.day) => EventsOf(p)' = EventsOf(p)
    BY <1>1, NewRowEvents
<1>5. /\ held'[e] = countedTokens(row) /\ held'[e] \in Int
      /\ \A x \in Events : x # e => held'[x] = held[x]
    <2>1. event' = [event EXCEPT ![e] = row]
        BY DEF NewRow
    <2>2. /\ held' \in [Events -> Nat] /\ held'[e] = countedTokens(row)
          /\ \A x \in Events : x # e => held'[x] = held[x]
        BY <1>1, <2>1, RowHeld
    <2> QED BY <1>1, <2>2
<1> DEFINE E == EventsOf(p) \ missed
<1>6. E \subseteq Events /\ e \notin E
    BY <1>4
<1>7. IsFiniteSet(E) /\ Numbers(held, E)
    <2> HIDE DEF E
    <2> QED BY <1>6, SomeEvents
<1>8. counter'[p] = CountedBy(EventsOf(p) \ missed)'
    <2>1. CASE p \in PeriodsOf(row.day)
        <3>1. EventsOf(p)' \ missed = E \cup {e}
            BY <1>3, <1>4, <2>1
        <3> HIDE DEF E
        <3>2. Amount(held', E \cup {e}) = Plus(Amount(held, E), 1, held'[e])
            BY <1>5, <1>6, <1>7, AmountAdd
        <3>3. counter'[p] = Plus(Amount(held, E), 1, held'[e])
            BY <1>3, <1>5, <2>1 DEF CountedBy, Amount, E
        <3> QED BY <3>1, <3>2, <3>3 DEF CountedBy, Amount
    <2>2. CASE p \notin PeriodsOf(row.day)
        <3>1. EventsOf(p)' \ missed = E
            BY <1>4, <2>2
        <3> HIDE DEF E
        <3>2. Amount(held', E) = Amount(held, E)
            BY <1>5, <1>6, <1>7, AmountSame
        <3>3. counter'[p] = Amount(held, E)
            BY <1>3, <2>2 DEF CountedBy, Amount, E
        <3> QED BY <3>1, <3>2, <3>3 DEF CountedBy, Amount
    <2> QED BY <2>1, <2>2
<1>9. Drifted(p, missed)'
    <2>1. missed \subseteq Events /\ SameHeld(missed)
        BY <1>3, <1>4, <1>5 DEF SameHeld
    <2> QED BY <1>3, <2>1, DriftStays
<1>10. missed \in SUBSET (EventsOf(p)' \cap Legacy)
    BY <1>3, <1>4
<1> QED BY <1>8, <1>9, <1>10

\* A process of the previous release writes an event: it is missing on the counters there are.
LEMMA CountersLegacy ==
    ASSUME TypeOK, CountersOK, NEW e \in Legacy, NEW row \in Event, NewRow(e, row),
           counter' = counter, recon' = recon
    PROVE  CountersOK'
<1> SUFFICES ASSUME NEW p \in Periods, counter[p] # Null
             PROVE  \E more \in SUBSET (EventsOf(p)' \cap Legacy) :
                        /\ counter[p] = CountedBy(EventsOf(p) \ more)'
                        /\ Drifted(p, more)'
    BY DEF CountersOK
<1>1. e \in Events
    BY DEF Events
<1>2. PICK missed \in SUBSET (EventsOf(p) \cap Legacy) :
          counter[p] = CountedBy(EventsOf(p) \ missed) /\ Drifted(p, missed)
    BY DEF CountersOK
<1>3. /\ e \notin EventsOf(p) /\ EventsOf(p) \subseteq Events
      /\ p \in PeriodsOf(row.day) => EventsOf(p)' = EventsOf(p) \cup {e}
      /\ p \notin PeriodsOf(row.day) => EventsOf(p)' = EventsOf(p)
    BY <1>1, NewRowEvents
<1>4. \A x \in Events : x # e => held'[x] = held[x]
    <2>1. event' = [event EXCEPT ![e] = row]
        BY DEF NewRow
    <2> QED BY <1>1, <2>1, RowHeld
<1> DEFINE E == EventsOf(p) \ missed
           more == IF p \in PeriodsOf(row.day) THEN missed \cup {e} ELSE missed
<1>5. EventsOf(p)' \ more = E /\ E \subseteq Events /\ e \notin E
    BY <1>2, <1>3
<1>6. more \in SUBSET (EventsOf(p)' \cap Legacy) /\ missed \subseteq more
    BY <1>2, <1>3
<1>7. counter[p] = CountedBy(EventsOf(p) \ more)'
    <2> HIDE DEF E, more
    <2>1. IsFiniteSet(E)
        BY <1>5, SomeEvents
    <2>2. Amount(held', E) = Amount(held, E)
        BY <1>4, <1>5, <2>1, AmountSame
    <2>3. counter[p] = Amount(held, E)
        BY <1>2 DEF CountedBy, Amount, E
    <2> QED BY <1>5, <2>2, <2>3 DEF CountedBy, Amount
<1>8. Drifted(p, more)'
    <2>1. missed \subseteq Events /\ SameHeld(missed)
        BY <1>2, <1>3, <1>4 DEF SameHeld
    <2> HIDE DEF more
    <2>2. PICK m : m = more
        OBVIOUS
    <2>3. Drifted(p, m)'
        BY <1>2, <1>6, <2>1, <2>2, DriftStays
    <2> QED BY <1>2, <1>6, <2>1, <2>2, <2>3 DEF Drifted
<1> QED BY <1>6, <1>7, <1>8

\* An event that is written again and holds something else: the difference goes to the counters of
\* its own day and month.
LEMMA CountersSettle ==
    ASSUME TypeOK, CountersOK, NEW e \in Calls, NEW row \in Event, SameRow(e, row), recon' = recon,
           counter' = [p \in Periods |-> IF p \in PeriodsOf(event[e].day) /\ counter[p] # Null
                                         THEN Plus(counter[p], 0, countedTokens(row) - held[e])
                                         ELSE counter[p]]
    PROVE  CountersOK'
<1> SUFFICES ASSUME NEW p \in Periods, counter'[p] # Null
             PROVE  \E missed \in SUBSET (EventsOf(p)' \cap Legacy) :
                        /\ counter'[p] = CountedBy(EventsOf(p) \ missed)'
                        /\ Drifted(p, missed)'
    BY DEF CountersOK
<1>1. e \in Events /\ e \notin Legacy
    BY UsageLedgerConstants DEF Events, Callers
<1>2. counter[p] # Null
    OBVIOUS
<1>3. PICK missed \in SUBSET (EventsOf(p) \cap Legacy) :
          counter[p] = CountedBy(EventsOf(p) \ missed) /\ Drifted(p, missed)
    BY <1>2 DEF CountersOK
<1>4. /\ EventsOf(p)' = EventsOf(p) /\ EventsOf(p) \subseteq Events
      /\ e \in EventsOf(p) <=> p \in PeriodsOf(event[e].day)
    BY <1>1, SameRowEvents
<1>5. /\ held' \in [Events -> Nat] /\ held'[e] = countedTokens(row)
      /\ \A x \in Events : x # e => held'[x] = held[x]
    <2>1. event' = [event EXCEPT ![e] = row]
        BY DEF SameRow
    <2> QED BY <1>1, <2>1, RowHeld
<1> DEFINE E == EventsOf(p) \ missed
<1>6. E \subseteq Events /\ (e \in E <=> p \in PeriodsOf(event[e].day))
    BY <1>1, <1>3, <1>4
<1>7. IsFiniteSet(E) /\ Numbers(held, E) /\ Numbers(held', E)
    <2> HIDE DEF E
    <2>1. IsFiniteSet(E) /\ Numbers(held, E)
        BY <1>6, SomeEvents
    <2> QED BY <1>5, <1>6, <2>1 DEF Numbers
<1>8. counter'[p] = CountedBy(EventsOf(p) \ missed)'
    <2>1. CASE p \in PeriodsOf(event[e].day)
        <3>1. counter'[p] = Plus(Amount(held, E), 0, held'[e] - held[e])
            BY <1>2, <1>3, <1>5, <2>1 DEF CountedBy, Amount
        <3> HIDE DEF E
        <3>2. Amount(held', E) = Plus(Amount(held, E), 0, held'[e] - held[e])
            BY <1>5, <1>6, <1>7, <2>1, AmountUpdate
        <3>3. counter'[p] = Amount(held', E)
            BY <3>1, <3>2
        <3> QED BY <1>4, <3>3 DEF CountedBy, Amount, E
    <2>2. CASE p \notin PeriodsOf(event[e].day)
        <3>1. counter'[p] = Amount(held, E)
            BY <1>3, <2>2 DEF CountedBy, Amount
        <3> HIDE DEF E
        <3>2. Amount(held', E) = Amount(held, E)
            BY <1>5, <1>6, <1>7, <2>2, AmountSame
        <3>3. counter'[p] = Amount(held', E)
            BY <3>1, <3>2
        <3> QED BY <1>4, <3>3 DEF CountedBy, Amount, E
    <2> QED BY <2>1, <2>2
<1>9. Drifted(p, missed)'
    <2>1. missed \subseteq Events /\ SameHeld(missed)
        BY <1>1, <1>3, <1>4, <1>5 DEF SameHeld
    <2> QED BY <1>3, <2>1, DriftStays
<1>10. missed \in SUBSET (EventsOf(p)' \cap Legacy)
    BY <1>3, <1>4
<1> QED BY <1>8, <1>9, <1>10

\* An event that is written again and holds what it held.
LEMMA CountersSameHeld ==
    ASSUME TypeOK, CountersOK, NEW e \in Events, NEW row \in Event, SameRow(e, row),
           countedTokens(row) = held[e], counter' = counter, recon' = recon
    PROVE  CountersOK'
<1> SUFFICES ASSUME NEW p \in Periods, counter[p] # Null
             PROVE  \E missed \in SUBSET (EventsOf(p)' \cap Legacy) :
                        /\ counter[p] = CountedBy(EventsOf(p) \ missed)'
                        /\ Drifted(p, missed)'
    BY DEF CountersOK
<1>1. PICK missed \in SUBSET (EventsOf(p) \cap Legacy) :
          counter[p] = CountedBy(EventsOf(p) \ missed) /\ Drifted(p, missed)
    BY DEF CountersOK
<1>2. EventsOf(p)' = EventsOf(p) /\ EventsOf(p) \subseteq Events
    BY SameRowEvents
<1>3. \A x \in Events : held'[x] = held[x]
    <2>1. event' = [event EXCEPT ![e] = row]
        BY DEF SameRow
    <2> QED BY <2>1, RowHeld
<1> DEFINE E == EventsOf(p) \ missed
<1>4. E \subseteq Events
    BY <1>2
<1>5. counter[p] = CountedBy(EventsOf(p) \ missed)'
    <2>1. counter[p] = Amount(held, E)
        BY <1>1 DEF CountedBy, Amount
    <2> HIDE DEF E
    <2>2. Amount(held', E) = Amount(held, E)
        BY <1>3, <1>4, SomeEvents, AmountSame
    <2>3. counter[p] = Amount(held', E)
        BY <2>1, <2>2
    <2> QED BY <1>2, <2>3 DEF CountedBy, Amount, E
<1>6. Drifted(p, missed)'
    <2>1. missed \subseteq Events /\ SameHeld(missed)
        BY <1>1, <1>2, <1>3 DEF SameHeld
    <2> QED BY <1>1, <2>1, DriftStays
<1>7. missed \in SUBSET (EventsOf(p)' \cap Legacy)
    BY <1>1, <1>2
<1> QED BY <1>5, <1>6, <1>7

\* A period without a counter has events of the previous release alone.
LEMMA UncountedAreLegacy ==
    ASSUME CallersOK, NEW p, counter[p] = Null
    PROVE  EventsOf(p) \subseteq Legacy
<1> SUFFICES ASSUME NEW e \in EventsOf(p), e \notin Legacy PROVE FALSE
    OBVIOUS
<1>1. e \in Callers /\ event[e].status # "none" /\ p \in PeriodsOf(event[e].day)
    BY DEF EventsOf, Written, Events
<1> QED BY <1>1 DEF CallersOK

\* startCounters starts the counters that are missing from what it read: what came since is missing
\* on them.
LEMMA CountersStart ==
    ASSUME TypeOK, CallersOK, SeenOK, ReconOK, CountersOK, NEW c \in Callers,
           counter' = started(c), event' = event, recon' = recon
    PROVE  CountersOK'
<1> SUFFICES ASSUME NEW p \in Periods, counter'[p] # Null
             PROVE  \E missed \in SUBSET (EventsOf(p)' \cap Legacy) :
                        /\ counter'[p] = CountedBy(EventsOf(p) \ missed)'
                        /\ Drifted(p, missed)'
    BY DEF CountersOK
<1>0. EventsOf(p)' = EventsOf(p) /\ held' = held
    BY DEF EventsOf, Written, held
<1> SUFFICES \E missed \in SUBSET (EventsOf(p) \cap Legacy) :
                 counter'[p] = CountedBy(EventsOf(p) \ missed) /\ Drifted(p, missed)
    BY <1>0 DEF CountedBy, Drifted
<1>1. CASE p \in DOMAIN seen[c] /\ counter[p] = Null
    <2>1. counter'[p] = seen[c][p]
        BY <1>1 DEF started
    <2>2. PICK E \in SUBSET (EventsOf(p) \cap Legacy) : seen[c][p] = CountedBy(E)
        BY <1>1 DEF SeenOK, HeldByLegacy
    <2> DEFINE missed == EventsOf(p) \ E
    <2>3. EventsOf(p) \ missed = E
        BY <2>2
    <2>4. missed \in SUBSET (EventsOf(p) \cap Legacy)
        BY <1>1, UncountedAreLegacy
    <2>5. p \notin DOMAIN recon.drift
        BY <1>1 DEF ReconOK
    <2>6. CountedBy(EventsOf(p) \ missed) = CountedBy(E)
        BY <2>3
    <2> HIDE DEF missed
    <2> QED BY <2>1, <2>2, <2>4, <2>5, <2>6 DEF Drifted
<1>2. CASE ~(p \in DOMAIN seen[c] /\ counter[p] = Null)
    <2>1. counter'[p] = counter[p]
        BY <1>2 DEF started
    <2> QED BY <2>1 DEF CountersOK
<1> QED BY <1>1, <1>2

\* The reconciliation reads what the counters hold beyond their events: the missing ones, below zero.
LEMMA CountersRead ==
    ASSUME TypeOK, CountersOK, event' = event, counter' = counter,
           recon'.drift = [p \in {q \in PeriodsOf(day) : counter[q] # Null} |->
                               Minus(counter[p], CountedBy(EventsOf(p)))]
    PROVE  CountersOK'
<1> SUFFICES ASSUME NEW p \in Periods, counter[p] # Null
             PROVE  \E missed \in SUBSET (EventsOf(p) \cap Legacy) :
                        counter[p] = CountedBy(EventsOf(p) \ missed) /\ Drifted(p, missed)'
    BY DEF CountersOK, EventsOf, Written, CountedBy, held
<1>1. PICK missed \in SUBSET (EventsOf(p) \cap Legacy) :
          counter[p] = CountedBy(EventsOf(p) \ missed)
    BY DEF CountersOK
<1>2. ASSUME p \in DOMAIN recon'.drift
      PROVE  recon'.drift[p] = Minus(Nothing, CountedBy(missed)')
    <2>1. recon'.drift[p] = Minus(CountedBy(EventsOf(p) \ missed), CountedBy(EventsOf(p)))
        BY <1>1, <1>2
    <2>2. EventsOf(p) \subseteq Events
        BY DEF EventsOf, Written
    <2>3. IsFiniteSet(EventsOf(p)) /\ Numbers(held, EventsOf(p)) /\ missed \subseteq EventsOf(p)
        BY <1>1, <2>2, SomeEvents
    <2>4. Minus(Amount(held, EventsOf(p) \ missed), Amount(held, EventsOf(p))) =
              Minus(Nothing, Amount(held, missed))
        BY <2>3, AmountShort
    <2>5. CountedBy(missed)' = CountedBy(missed)
        BY DEF CountedBy, held
    <2> QED BY <2>1, <2>4, <2>5 DEF CountedBy, Amount
<1>3. Drifted(p, missed)'
    BY <1>2 DEF Drifted
<1> QED BY <1>1, <1>3

\* The reconciliation corrects a counter: what it was short of then is no longer missing, what has
\* come to be missing since still is.
LEMMA CountersCommit ==
    ASSUME TypeOK, ReconOK, CountersOK, event' = event, recon' = Idle,
           counter' = [p \in Periods |-> IF p \in DOMAIN recon.drift THEN corrected(p)
                                         ELSE counter[p]]
    PROVE  CountersOK'
<1> SUFFICES ASSUME NEW p \in Periods, counter'[p] # Null
             PROVE  \E missed \in SUBSET (EventsOf(p)' \cap Legacy) :
                        /\ counter'[p] = CountedBy(EventsOf(p) \ missed)'
                        /\ Drifted(p, missed)'
    BY DEF CountersOK
<1>0. EventsOf(p)' = EventsOf(p) /\ held' = held /\ p \notin DOMAIN recon'.drift
    BY DEF EventsOf, Written, held, Idle
<1> SUFFICES \E missed \in SUBSET (EventsOf(p) \cap Legacy) :
                 counter'[p] = CountedBy(EventsOf(p) \ missed)
    BY <1>0 DEF CountedBy, Drifted
<1>1. counter[p] # Null
    BY DEF ReconOK
<1>2. PICK missed \in SUBSET (EventsOf(p) \cap Legacy) :
          counter[p] = CountedBy(EventsOf(p) \ missed) /\ Drifted(p, missed)
    BY <1>1 DEF CountersOK
<1>3. CASE p \in DOMAIN recon.drift
    <2>1. PICK late \in SUBSET missed : recon.drift[p] = Minus(Nothing, CountedBy(late))
        BY <1>2, <1>3 DEF Drifted
    <2> DEFINE E == EventsOf(p) \ (missed \ late)
    <2>2. E \subseteq Events /\ late \subseteq E /\ E \ late = EventsOf(p) \ missed
        BY <1>2, <2>1 DEF EventsOf, Written
    <2>3. counter'[p] = Minus(CountedBy(EventsOf(p) \ missed), Minus(Nothing, CountedBy(late)))
        BY <1>2, <1>3, <2>1 DEF corrected
    <2> HIDE DEF E
    <2>4. IsFiniteSet(E) /\ Numbers(held, E)
        BY <2>2, SomeEvents
    <2>5. Minus(Amount(held, E \ late), Minus(Nothing, Amount(held, late))) = Amount(held, E)
        BY <2>2, <2>4, AmountShort
    <2>6. counter'[p] = CountedBy(E)
        BY <2>2, <2>3, <2>5 DEF CountedBy, Amount
    <2>7. missed \ late \in SUBSET (EventsOf(p) \cap Legacy)
        BY <1>2
    <2> QED BY <2>6, <2>7 DEF E
<1>4. CASE p \notin DOMAIN recon.drift
    BY <1>2, <1>4
<1> QED BY <1>3, <1>4

\* A step leaves the events of the previous release where they are, with what they hold.
LegacyStays ==
    \A e \in Legacy : event[e].status # "none" =>
        /\ event'[e].status # "none" /\ event'[e].day = event[e].day
        /\ held'[e] = held[e]

\* What startCounters read stays an amount of such events.
LEMMA SeenStays ==
    ASSUME TypeOK, NEW p, NEW amount, HeldByLegacy(p, amount), LegacyStays
    PROVE  HeldByLegacy(p, amount)'
<1>1. PICK E \in SUBSET (EventsOf(p) \cap Legacy) : amount = CountedBy(E)
    BY DEF HeldByLegacy
<1>2. E \in SUBSET (EventsOf(p)' \cap Legacy)
    BY <1>1 DEF EventsOf, Written, LegacyStays
<1>3. E \subseteq Events /\ \A e \in E : held'[e] = held[e]
    BY <1>1 DEF EventsOf, Written, LegacyStays
<1>4. Amount(held', E) = Amount(held, E)
    BY <1>3, SomeEvents, AmountSame
<1>5. amount = CountedBy(E)'
    BY <1>1, <1>4 DEF CountedBy, Amount
<1> QED BY <1>2, <1>5 DEF HeldByLegacy

-----------------------------------------------------------------------------
(* The limits. *)

\* The calls whose reservation still counts.
counting(p) == {c \in admitted(p) : ~event[c].released}

\* What admission knew of a call is a number, and no more than the call holds.
LEMMA ForeseenType ==
    ASSUME TypeOK, EventsOK
    PROVE  /\ foreseen \in [Calls -> Nat]
           /\ \A c \in Calls : /\ foreseen[c] <= held[c] /\ foreseen[c] <= Reserved[c]
                               /\ foreseen[c] = IF event[c].counted > Reserved[c]
                                                THEN Reserved[c] ELSE event[c].counted
<1>1. \A c \in Calls : c \in Events /\ event[c].counted \in Nat /\ Reserved[c] \in Nat
    BY UsageLedgerConstants DEF EventsOK, Callers, Events
<1>2. \A c \in Calls : held[c] = event[c].counted
    BY <1>1, UsageLedgerConstants DEF held, countedTokens
<1> QED BY <1>1, <1>2 DEF foreseen

\* The calls of a period are finitely many.
LEMMA CountingType ==
    ASSUME TypeOK, EventsOK, NEW p
    PROVE  /\ IsFiniteSet(counting(p)) /\ counting(p) \subseteq Calls
           /\ IsFiniteSet(admitted(p)) /\ Numbers(foreseen, counting(p))
           /\ booked(p) = SumFunctionOnSet(foreseen, counting(p)) /\ booked(p) \in Int
<1>1. counting(p) \subseteq Calls /\ admitted(p) \subseteq Calls
    BY DEF counting, admitted
<1>2. IsFiniteSet(counting(p)) /\ IsFiniteSet(admitted(p))
    BY <1>1, FS_Subset, UsageLedgerConstants
<1>3. Numbers(foreseen, counting(p))
    BY <1>1, ForeseenType DEF Numbers
<1>4. booked(p) = SumFunctionOnSet(foreseen, counting(p))
    BY DEF booked, counting
<1>5. SumFunctionOnSet(foreseen, counting(p)) \in Int
    BY <1>2, <1>3, SumType
<1> QED BY <1>1, <1>2, <1>3, <1>4, <1>5

\* A step that admits no call: none moves to another day, and what was foreseen of it does not grow
\* unless it is released.
CallsStay ==
    \A c \in Calls :
        /\ event'[c].status = "none" <=> event[c].status = "none"
        /\ event[c].status # "none" => /\ event'[c].day = event[c].day
                                       /\ event[c].released => event'[c].released
                                       /\ event'[c].released \/ foreseen'[c] <= foreseen[c]

\* Such a step keeps the limits.
LEMMA LimitsStay ==
    ASSUME TypeOK, EventsOK, EventsOK', LimitsOK, CallsStay
    PROVE  LimitsOK'
<1> SUFFICES ASSUME NEW p \in Periods PROVE Kept(p)'
    BY DEF LimitsOK
<1>1. admitted(p)' = admitted(p)
    BY DEF admitted, EventsOf, Written, Events, Callers, CallsStay
<1>2. counting(p)' \subseteq counting(p)
    BY <1>1 DEF counting, admitted, EventsOf, Written, CallsStay
<1>3. /\ IsFiniteSet(counting(p)) /\ counting(p) \subseteq Calls /\ Numbers(foreseen, counting(p))
      /\ booked(p) = SumFunctionOnSet(foreseen, counting(p)) /\ booked(p) \in Int
    BY CountingType
<1>4. foreseen' \in [Calls -> Nat]
    <2>1. \A c \in Calls : event'[c].counted \in Nat /\ Reserved[c] \in Nat
        BY UsageLedgerConstants DEF EventsOK, Events, Callers
    <2> QED BY <2>1 DEF foreseen
<1>5. booked(p)' = SumFunctionOnSet(foreseen', counting(p)')
    BY DEF booked, counting
<1>6. \A c \in counting(p)' : foreseen'[c] <= foreseen[c]
    BY <1>2 DEF counting, admitted, EventsOf, Written, CallsStay
<1>7. Numbers(foreseen', counting(p)') /\ \A c \in counting(p) : 0 <= foreseen[c]
    BY <1>2, <1>3, <1>4, ForeseenType DEF Numbers
<1>8. Below(foreseen', counting(p)', foreseen, counting(p))
    BY <1>2, <1>3, <1>6, <1>7, SumMonotone
<1>9. booked(p)' <= booked(p) /\ booked(p)' \in Int
    <2>1. IsFiniteSet(counting(p)')
        BY <1>2, <1>3, FS_Subset
    <2>2. SumFunctionOnSet(foreseen', counting(p)') \in Int
        BY <1>7, <2>1, SumType
    <2> QED BY <1>3, <1>5, <1>8, <2>2 DEF Below
<1>10. \A limit \in Limit : holds(limit, booked(p)) => holds(limit, booked(p)')
    BY <1>3, <1>9, UsageLedgerConstants DEF holds, Limit
<1> QED BY <1>1, <1>10, UsageLedgerConstants DEF LimitsOK, Kept, holds

\* What a counter shows is no less than its calls and what is booked on it.
LEMMA BookedIsCounted ==
    ASSUME TypeOK, EventsOK, CountersOK, NEW p \in Periods, counter[p] # Null
    PROVE  /\ Cardinality(admitted(p)) <= counter[p].calls /\ Cardinality(admitted(p)) \in Nat
           /\ booked(p) <= counter[p].tokens /\ booked(p) \in Int
           /\ counter[p].calls \in Int /\ counter[p].tokens \in Int
<1>1. PICK missed \in SUBSET (EventsOf(p) \cap Legacy) :
          counter[p] = CountedBy(EventsOf(p) \ missed)
    BY DEF CountersOK
<1> DEFINE E == EventsOf(p) \ missed
<1>2. E \subseteq Events /\ admitted(p) \subseteq E
    <2>1. Calls \cap Legacy = {}
        BY UsageLedgerConstants
    <2> QED BY <1>1, <2>1 DEF EventsOf, Written, admitted
<1>3. counter[p].calls = Cardinality(E) /\ counter[p].tokens = SumFunctionOnSet(held, E)
    BY <1>1 DEF CountedBy
<1> HIDE DEF E
<1>4. IsFiniteSet(E) /\ Numbers(held, E)
    BY <1>2, SomeEvents
<1>5. /\ Cardinality(admitted(p)) <= Cardinality(E) /\ Cardinality(admitted(p)) \in Nat
      /\ Cardinality(E) \in Nat
    BY <1>2, <1>4, FS_Subset, FS_CardinalityType
<1>6. /\ counting(p) \subseteq Calls /\ Numbers(foreseen, counting(p))
      /\ booked(p) = SumFunctionOnSet(foreseen, counting(p)) /\ booked(p) \in Int
    BY CountingType
<1>7. counting(p) \subseteq E
    BY <1>2 DEF counting
<1>8. \A c \in counting(p) : foreseen[c] <= held[c]
    BY <1>6, ForeseenType
<1>9. \A e \in E : 0 <= held[e]
    BY <1>2, HeldType
<1>10. Below(foreseen, counting(p), held, E)
    BY <1>4, <1>6, <1>7, <1>8, <1>9, SumMonotone
<1>11. SumFunctionOnSet(held, E) \in Int
    BY <1>4, SumType
<1> QED BY <1>3, <1>5, <1>6, <1>10, <1>11 DEF Below

\* Admission compares with what the counters show, which is no less: the limits hold with the call
\* it admits.
LEMMA LimitsAdmit ==
    ASSUME TypeOK, EventsOK, CountersOK, LimitsOK, NEW e \in Calls, NEW row \in Event,
           NewRow(e, row), row.counted = Reserved[e], ~row.released,
           \A p \in PeriodsOf(row.day) : p \in Periods /\ counter[p] # Null /\ within(p, Reserved[e])
    PROVE  LimitsOK'
<1> SUFFICES ASSUME NEW p \in Periods PROVE Kept(p)'
    BY DEF LimitsOK
<1>1. e \in Events /\ Reserved[e] \in Nat
    BY UsageLedgerConstants DEF Events, Callers
<1>2. /\ e \notin EventsOf(p) /\ EventsOf(p) \subseteq Events
      /\ p \in PeriodsOf(row.day) => EventsOf(p)' = EventsOf(p) \cup {e}
      /\ p \notin PeriodsOf(row.day) => EventsOf(p)' = EventsOf(p)
    BY <1>1, NewRowEvents
<1>3. /\ event'[e] = row /\ \A x \in Events : x # e => event'[x] = event[x]
    <2>1. event' = [event EXCEPT ![e] = row]
        BY DEF NewRow
    <2> QED BY <1>1, <2>1, RowHeld
<1>4. \A c \in Calls : c # e => event'[c] = event[c] /\ foreseen'[c] = foreseen[c]
    BY <1>3 DEF foreseen, Events, Callers
<1>5. foreseen'[e] = Reserved[e]
    BY <1>1, <1>3 DEF foreseen
<1>6. /\ IsFiniteSet(counting(p)) /\ counting(p) \subseteq Calls /\ Numbers(foreseen, counting(p))
      /\ booked(p) = SumFunctionOnSet(foreseen, counting(p)) /\ booked(p) \in Int
      /\ IsFiniteSet(admitted(p))
    BY CountingType
<1>7. booked(p)' = SumFunctionOnSet(foreseen', counting(p)')
    BY DEF booked, counting
<1>8. e \notin admitted(p) /\ e \notin counting(p)
    BY <1>2 DEF admitted, counting
<1>9. \A c \in counting(p) : foreseen'[c] = foreseen[c]
    BY <1>4, <1>6, <1>8
<1>10. CASE p \notin PeriodsOf(row.day)
    <2>1. admitted(p)' = admitted(p)
        BY <1>2, <1>10 DEF admitted
    <2>2. counting(p)' = counting(p)
        <3>1. \A c \in admitted(p) : event'[c] = event[c]
            BY <1>4, <1>8 DEF admitted
        <3> QED BY <2>1, <3>1 DEF counting
    <2>3. booked(p)' = booked(p)
        BY <1>6, <1>7, <1>9, <2>2, SumExtensional
    <2> QED BY <2>1, <2>3 DEF LimitsOK, Kept
<1>11. CASE p \in PeriodsOf(row.day)
    <2>1. admitted(p)' = admitted(p) \cup {e}
        BY <1>2, <1>11 DEF admitted
    <2>2. counting(p)' = counting(p) \cup {e}
        <3>1. \A c \in admitted(p) : event'[c] = event[c]
            BY <1>4, <1>8 DEF admitted
        <3> QED BY <1>3, <2>1, <3>1 DEF counting
    <2>3. booked(p)' = booked(p) + Reserved[e]
        <3>1. Numbers(foreseen', counting(p) \cup {e})
            BY <1>1, <1>5, <1>6, <1>9 DEF Numbers
        <3>2. SumFunctionOnSet(foreseen', counting(p) \cup {e}) =
                  SumFunctionOnSet(foreseen', counting(p)) + foreseen'[e]
            BY <1>6, <1>8, <3>1, SumAdd
        <3>3. SumFunctionOnSet(foreseen', counting(p)) = SumFunctionOnSet(foreseen, counting(p))
            BY <1>6, <1>9, SumExtensional
        <3> QED BY <1>5, <1>6, <1>7, <2>2, <3>2, <3>3
    <2>4. Cardinality(admitted(p)') = Cardinality(admitted(p)) + 1
        BY <1>6, <1>8, <2>1, FS_AddElement
    <2>5. /\ Cardinality(admitted(p)) <= counter[p].calls /\ Cardinality(admitted(p)) \in Nat
          /\ booked(p) <= counter[p].tokens /\ booked(p) \in Int
          /\ counter[p].calls \in Int /\ counter[p].tokens \in Int
        BY <1>11, BookedIsCounted
    <2>6. \A limit \in Limit :
              /\ holds(limit, counter[p].calls + 1) => holds(limit, Cardinality(admitted(p)'))
              /\ holds(limit, counter[p].tokens + Reserved[e]) => holds(limit, booked(p)')
        BY <1>1, <2>3, <2>4, <2>5, UsageLedgerConstants DEF holds, Limit
    <2>7. within(p, Reserved[e])
        BY <1>11
    <2>8. /\ p[1] = "day" => /\ holds(CallsPerDay, Cardinality(admitted(p)'))
                             /\ holds(TokensPerDay, booked(p)')
          /\ p[1] = "month" => holds(TokensPerMonth, booked(p)')
        BY <2>6, <2>7, UsageLedgerConstants DEF within
    <2> QED BY <2>8 DEF Kept, holds
<1> QED BY <1>10, <1>11

-----------------------------------------------------------------------------
(* The daily sums. *)

\* The ended events of a sum that are not missing.
Summed(s, missed) == {e \in Ended \ missed : SumOf(e) = s}

\* The sums hold all but the missing events.
SumsAre(missed) ==
    missed \in SUBSET (Ended \cap Legacy) /\ \A s \in DOMAIN sums : sums[s] = SummedBy(Summed(s, missed))

\* SumsMatchEvents in these terms.
LEMMA SumsMatchAre == SumsMatchEvents <=> (~backfill.repairNeeded => \E missed : SumsAre(missed))
BY DEF SumsMatchEvents, SumsAre, Summed

\* What ends an event adds it to the sum of its day and attribution.
LEMMA SumsAdd ==
    ASSUME TypeOK, NEW e \in Callers, NEW row \in Event, event' = [event EXCEPT ![e] = row],
           e \notin Ended, row.status \notin {"none", "pending"}, NEW missed, SumsAre(missed),
           sums' = [sums EXCEPT ![<<row.day, row.attribution>>] = Plus(@, 1, row.tokens)]
    PROVE  SumsAre(missed)'
<1>1. e \in Events /\ e \notin Legacy
    BY UsageLedgerConstants DEF Events, Callers
<1>2. /\ event'[e] = row /\ used' \in [Events -> Nat] /\ used'[e] = row.tokens
      /\ \A x \in Events : x # e => event'[x] = event[x] /\ used'[x] = used[x]
    BY <1>1, RowHeld
<1>3. Ended' = Ended \cup {e}
    <2>1. \A x \in Events : x # e => (x \in Ended' <=> x \in Ended)
        BY <1>2 DEF Ended, Written
    <2>2. e \in Ended' /\ Ended' \subseteq Events /\ Ended \subseteq Events
        BY <1>1, <1>2 DEF Ended, Written
    <2> QED BY <2>1, <2>2
<1>4. missed \in SUBSET (Ended' \cap Legacy) /\ e \notin missed
    BY <1>1, <1>3 DEF SumsAre
<1>5. ASSUME NEW s \in DOMAIN sums'
      PROVE  sums'[s] = SummedBy(Summed(s, missed))'
    <2> DEFINE E == Summed(s, missed)
    <2>1. s \in DOMAIN sums /\ sums[s] = SummedBy(E)
        BY <1>5 DEF SumsAre, TypeOK
    <2>2. E \subseteq Events /\ e \notin E
        BY DEF Summed, Ended, Written
    <2>3. \A x \in E : used'[x] = used[x]
        BY <1>2, <2>2
    <2>4. \A x \in Ended : event'[x] = event[x]
        BY <1>2 DEF Ended, Written
    <2>5. CASE s = <<row.day, row.attribution>>
        <3>1. Summed(s, missed)' = E \cup {e}
            <4>1. SumOf(e)' = s
                BY <1>2, <2>5 DEF SumOf
            <4>2. \A x \in Ended : SumOf(x)' = SumOf(x)
                BY <2>4 DEF SumOf
            <4> QED BY <1>3, <1>4, <4>1, <4>2 DEF Summed
        <3>2. sums'[s] = Plus(SummedBy(E), 1, used'[e])
            BY <1>2, <2>1, <2>5
        <3> HIDE DEF E
        <3>3. IsFiniteSet(E) /\ Numbers(used, E) /\ used'[e] \in Int
            BY <1>1, <1>2, <2>2, SomeEvents
        <3>4. Amount(used', E \cup {e}) = Plus(Amount(used, E), 1, used'[e])
            BY <2>2, <2>3, <3>3, AmountAdd
        <3>5. sums'[s] = Amount(used', E \cup {e})
            BY <3>2, <3>4 DEF SummedBy, Amount
        <3> QED BY <3>1, <3>5 DEF SummedBy, Amount
    <2>6. CASE s # <<row.day, row.attribution>>
        <3>1. Summed(s, missed)' = E
            <4>1. SumOf(e)' # s
                BY <1>2, <2>6 DEF SumOf
            <4>2. \A x \in Ended : SumOf(x)' = SumOf(x)
                BY <2>4 DEF SumOf
            <4> QED BY <1>3, <1>4, <4>1, <4>2 DEF Summed
        <3>2. sums'[s] = SummedBy(E)
            BY <2>1, <2>6
        <3> HIDE DEF E
        <3>3. IsFiniteSet(E)
            BY <2>2, SomeEvents
        <3>4. Amount(used', E) = Amount(used, E)
            BY <2>3, <3>3, AmountSame
        <3>5. sums'[s] = Amount(used', E)
            BY <3>2, <3>4 DEF SummedBy, Amount
        <3> QED BY <3>1, <3>5 DEF SummedBy, Amount
    <2> QED BY <2>5, <2>6
<1> QED BY <1>4, <1>5 DEF SumsAre

\* A step in which no event ends, moves to another sum or turns out to have used something else.
SumsStay ==
    /\ Ended' = Ended /\ sums' = sums
    /\ \A e \in Ended : SumOf(e)' = SumOf(e) /\ used'[e] = used[e]

\* Such a step leaves the sums right.
LEMMA SumsUntouched ==
    ASSUME TypeOK, SumsStay, NEW missed, SumsAre(missed)
    PROVE  SumsAre(missed)'
<1>1. missed \in SUBSET (Ended' \cap Legacy)
    BY DEF SumsAre, SumsStay
<1>2. ASSUME NEW s \in DOMAIN sums
      PROVE  sums'[s] = SummedBy(Summed(s, missed))'
    <2> DEFINE E == Summed(s, missed)
    <2>1. sums'[s] = SummedBy(E)
        BY DEF SumsAre, SumsStay
    <2>2. Summed(s, missed)' = E
        BY DEF Summed, SumsStay
    <2>3. E \subseteq Events /\ \A x \in E : used'[x] = used[x]
        BY DEF Summed, Ended, Written, SumsStay
    <2> HIDE DEF E
    <2>4. Amount(used', E) = Amount(used, E)
        BY <2>3, SomeEvents, AmountSame
    <2>5. sums'[s] = Amount(used', E)
        BY <2>1, <2>4 DEF SummedBy, Amount
    <2> QED BY <2>2, <2>5 DEF SummedBy, Amount
<1> QED BY <1>1, <1>2 DEF SumsAre, SumsStay

\* An ended event of a caller is settled after all: its sum gets the difference.
LEMMA SumsResettle ==
    ASSUME TypeOK, NEW e \in Callers, NEW row \in Event, event' = [event EXCEPT ![e] = row],
           e \in Ended, row.status \notin {"none", "pending"}, row.day = event[e].day,
           row.attribution = event[e].attribution, NEW missed, SumsAre(missed),
           sums' = [sums EXCEPT ![SumOf(e)] = Plus(@, 0, row.tokens - event[e].tokens)]
    PROVE  SumsAre(missed)'
<1>1. e \in Events /\ e \notin Legacy
    BY UsageLedgerConstants DEF Events, Callers
<1>2. /\ event'[e] = row /\ used' \in [Events -> Nat] /\ used'[e] = row.tokens
      /\ \A x \in Events : x # e => event'[x] = event[x] /\ used'[x] = used[x]
    BY <1>1, RowHeld
<1>3. Ended' = Ended /\ \A x \in Ended : SumOf(x)' = SumOf(x)
    <2>1. \A x \in Events : (x \in Ended' <=> x \in Ended) /\ SumOf(x)' = SumOf(x)
        BY <1>2 DEF Ended, Written, SumOf
    <2>2. Ended' \subseteq Events /\ Ended \subseteq Events
        BY DEF Ended, Written
    <2> QED BY <2>1, <2>2
<1>4. missed \in SUBSET (Ended' \cap Legacy) /\ e \notin missed
    BY <1>1, <1>3 DEF SumsAre
<1>5. ASSUME NEW s \in DOMAIN sums'
      PROVE  sums'[s] = SummedBy(Summed(s, missed))'
    <2> DEFINE E == Summed(s, missed)
    <2>1. s \in DOMAIN sums /\ sums[s] = SummedBy(E)
        BY <1>5 DEF SumsAre, TypeOK
    <2>2. E \subseteq Events /\ (e \in E <=> s = SumOf(e))
        BY <1>4 DEF Summed, Ended, Written
    <2>3. Summed(s, missed)' = E
        BY <1>3 DEF Summed
    <2>4. used \in [Events -> Nat] /\ used[e] = event[e].tokens
        BY <1>1, HeldType
    <2>5. CASE s = SumOf(e)
        <3>1. sums'[s] = Plus(SummedBy(E), 0, used'[e] - used[e])
            BY <1>2, <2>1, <2>4, <2>5
        <3> HIDE DEF E
        <3>2. IsFiniteSet(E) /\ Numbers(used, E) /\ Numbers(used', E)
            BY <1>2, <2>2, SomeEvents DEF Numbers
        <3>3. Amount(used', E) = Plus(Amount(used, E), 0, used'[e] - used[e])
            BY <1>2, <2>2, <2>5, <3>2, AmountUpdate
        <3>4. sums'[s] = Amount(used', E)
            BY <3>1, <3>3 DEF SummedBy, Amount
        <3> QED BY <2>3, <3>4 DEF SummedBy, Amount
    <2>6. CASE s # SumOf(e)
        <3>1. sums'[s] = SummedBy(E)
            BY <2>1, <2>6
        <3> HIDE DEF E
        <3>2. \A x \in E : used'[x] = used[x]
            BY <1>2, <2>2, <2>6
        <3>3. Amount(used', E) = Amount(used, E)
            BY <2>2, <3>2, SomeEvents, AmountSame
        <3>4. sums'[s] = Amount(used', E)
            BY <3>1, <3>3 DEF SummedBy, Amount
        <3> QED BY <2>3, <3>4 DEF SummedBy, Amount
    <2> QED BY <2>5, <2>6
<1> QED BY <1>4, <1>5 DEF SumsAre

\* An event of the previous release is missing in its sum.
LEMMA SumsLegacy ==
    ASSUME TypeOK, NEW e \in Legacy, NEW row \in Event, NewRow(e, row), row.status # "pending",
           sums' = sums, NEW missed, SumsAre(missed)
    PROVE  SumsAre(missed \cup {e})'
<1>1. e \in Events /\ event' = [event EXCEPT ![e] = row]
    BY DEF Events, NewRow
<1>2. /\ event'[e] = row
      /\ \A x \in Events : x # e => event'[x] = event[x] /\ used'[x] = used[x]
    BY <1>1, RowHeld
<1>3. Ended' = Ended \cup {e} /\ e \notin Ended
    <2>1. \A x \in Events : x # e => (x \in Ended' <=> x \in Ended)
        BY <1>2 DEF Ended, Written
    <2>2. e \in Ended' /\ e \notin Ended /\ Ended' \subseteq Events /\ Ended \subseteq Events
        BY <1>1, <1>2 DEF Ended, Written, NewRow
    <2> QED BY <2>1, <2>2
<1>4. missed \cup {e} \in SUBSET (Ended' \cap Legacy)
    BY <1>3 DEF SumsAre
<1>5. ASSUME NEW s \in DOMAIN sums
      PROVE  sums[s] = SummedBy(Summed(s, missed \cup {e}))'
    <2> DEFINE E == Summed(s, missed)
    <2>1. sums[s] = SummedBy(E)
        BY DEF SumsAre
    <2>2. E \subseteq Events /\ E \subseteq Ended
        BY DEF Summed, Ended, Written
    <2>3. Summed(s, missed \cup {e})' = E
        <3>1. \A x \in Ended : SumOf(x)' = SumOf(x)
            BY <1>2, <1>3 DEF SumOf, Ended, Written
        <3> QED BY <1>3, <3>1 DEF Summed
    <2> HIDE DEF E
    <2>4. \A x \in E : used'[x] = used[x]
        BY <1>2, <1>3, <2>2
    <2>5. Amount(used', E) = Amount(used, E)
        BY <2>2, <2>4, SomeEvents, AmountSame
    <2>6. sums[s] = Amount(used', E)
        BY <2>1, <2>5 DEF SummedBy, Amount
    <2> QED BY <2>3, <2>6 DEF SummedBy, Amount
<1> QED BY <1>4, <1>5 DEF SumsAre

\* The reconciliation adds to the sums from a day on what is missing there.
LEMMA SumsCommit ==
    ASSUME TypeOK, event' = event, NEW from \in Int,
           sums' = [s \in DOMAIN sums |-> IF s[1] >= from THEN SummedBy({e \in Ended : SumOf(e) = s})
                                          ELSE sums[s]],
           NEW missed, missed \in SUBSET (Ended \cap Legacy),
           \A e \in missed : event[e].day < from,
           \A s \in DOMAIN sums : s[1] < from => sums[s] = SummedBy(Summed(s, missed))
    PROVE  SumsAre(missed)'
<1>1. Ended' = Ended /\ used' = used
    BY DEF Ended, Written, used
<1>2. ASSUME NEW s \in DOMAIN sums
      PROVE  sums'[s] = SummedBy(Summed(s, missed))
    <2>1. s[1] \in Int
        BY UsageLedgerConstants DEF TypeOK, Days
    <2>2. CASE s[1] >= from
        <3>1. \A e \in missed : SumOf(e) # s
            <4>1. \A e \in missed : event[e].day \in Int
                BY UsageLedgerConstants DEF Ended, Written, TypeOK, Event, Days
            <4> QED BY <2>1, <2>2, <4>1 DEF SumOf
        <3>2. {e \in Ended : SumOf(e) = s} = Summed(s, missed)
            BY <3>1 DEF Summed
        <3> QED BY <2>2, <3>2
    <2>3. CASE ~(s[1] >= from)
        BY <2>1, <2>3
    <2> QED BY <2>2, <2>3
<1>3. \A s : Summed(s, missed)' = Summed(s, missed)
    BY <1>1 DEF Summed, SumOf
<1>4. \A s \in DOMAIN sums : SummedBy(Summed(s, missed))' = SummedBy(Summed(s, missed))
    BY <1>1, <1>3 DEF SummedBy
<1> QED BY <1>1, <1>2, <1>4 DEF SumsAre

-----------------------------------------------------------------------------
(* What the steps have in common. *)

\* The days of the clock have their counters.
LEMMA PeriodsOfDay == \A d \in Days : PeriodsOf(d) \subseteq Periods
BY DEF PeriodsOf, Periods

\* The ledger's part of TypeOK.
LedgerTypes ==
    /\ event \in [Events -> Event]
    /\ counter \in [Periods -> Amounts \cup {Null}]
    /\ sums \in [Days \X Attribution -> Amounts]

\* A counter that is there stays, and so do the rows of the callers.
CountersStay == \A p \in Periods : counter[p] # Null => counter'[p] # Null
RowsStay ==
    \A c \in Callers : /\ event'[c].status = "none" <=> event[c].status = "none"
                       /\ event[c].status # "none" => event'[c].day = event[c].day

\* Who still counts did before, with as many attempts.
PlacesStay ==
    \A c \in Callers : pc'[c] \in {"count", "insert"} =>
        pc[c] \in {"count", "insert"} /\ tries'[c] = tries[c]

\* Such a step keeps what is said of callers.
LEMMA CallersStay ==
    ASSUME TypeOK, CallersOK, RowsStay, CountersStay, PlacesStay
    PROVE  CallersOK'
<1> SUFFICES ASSUME NEW c \in Callers
             PROVE  /\ pc'[c] \in {"count", "insert"} => event'[c].status = "none" /\ tries'[c] < 3
                    /\ event'[c].status # "none" =>
                           \A p \in PeriodsOf(event'[c].day) : counter'[p] # Null
    BY DEF CallersOK, PeriodsOf, MonthOf
<1>1. pc'[c] \in {"count", "insert"} => event'[c].status = "none" /\ tries'[c] < 3
    BY DEF CallersOK, RowsStay, PlacesStay
<1>2. ASSUME event'[c].status # "none"
      PROVE  \A p \in PeriodsOf(event'[c].day) : counter'[p] # Null
    <2>1. event[c].status # "none" /\ event'[c].day = event[c].day /\ event[c].day \in Days
        BY <1>2 DEF RowsStay, TypeOK, Event, Events
    <2>2. PeriodsOf(event'[c].day) = PeriodsOf(event[c].day)
        BY <2>1
    <2> QED BY <2>1, <2>2, PeriodsOfDay DEF CallersOK, CountersStay
<1> QED BY <1>1, <1>2

\* What callers read stays an amount of events of the previous release.
LEMMA SeenUntouched ==
    ASSUME TypeOK, SeenOK, LegacyStays, seen' = seen
    PROVE  SeenOK'
<1> SUFFICES ASSUME NEW c \in Callers
             PROVE  /\ DOMAIN seen[c] \subseteq Periods
                    /\ \A p \in DOMAIN seen[c] : HeldByLegacy(p, seen[c][p])'
    BY DEF SeenOK
<1>1. ASSUME NEW p \in DOMAIN seen[c] PROVE HeldByLegacy(p, seen[c][p])'
    <2>1. PICK amount : amount = seen[c][p]
        OBVIOUS
    <2>2. HeldByLegacy(p, amount)
        BY <2>1 DEF SeenOK
    <2>3. HeldByLegacy(p, amount)'
        BY <2>2, SeenStays
    <2> QED BY <2>1, <2>3 DEF HeldByLegacy
<1> QED BY <1>1 DEF SeenOK

\* The reconciliation under way is not touched.
LEMMA ReconUntouched ==
    ASSUME ReconOK, CountersStay, recon' = recon
    PROVE  ReconOK'
BY DEF ReconOK, CountersStay

\* The sums are right when they hold all but some events of the previous release.
LEMMA SumsRight ==
    ASSUME NEW missed, SumsAre(missed)'
    PROVE  SumsMatchEvents'
BY DEF SumsMatchEvents, SumsAre, Summed

\* A step on the ledger that keeps its parts of the invariant and its rows where they are.
LedgerStep ==
    /\ LedgerTypes' /\ EventsOK' /\ CountersOK' /\ SumsMatchEvents' /\ LimitsOK'
    /\ LegacyStays /\ CountersStay /\ RowsStay

\* A step that leaves the ledger alone is one.
LEMMA LedgerUntouched ==
    ASSUME IInv, event' = event, counter' = counter, sums' = sums, recon' = recon,
           backfill'.repairNeeded = backfill.repairNeeded
    PROVE  LedgerStep
<1>1. TypeOK /\ EventsOK /\ CountersOK /\ SumsMatchEvents /\ LimitsOK
    BY DEF IInv
<1>2. /\ \A p : EventsOf(p)' = EventsOf(p) /\ admitted(p)' = admitted(p)
      /\ held' = held /\ used' = used /\ foreseen' = foreseen /\ Ended' = Ended
      /\ \A e \in Ended : SumOf(e)' = SumOf(e)
    BY DEF EventsOf, Written, admitted, held, used, foreseen, Ended, SumOf
<1>3. LedgerTypes' /\ LegacyStays /\ CountersStay /\ RowsStay
    BY <1>1, <1>2 DEF TypeOK, LedgerTypes, LegacyStays, CountersStay, RowsStay
<1>4. EventsOK'
    BY <1>1 DEF EventsOK
<1>5. CountersOK'
    <2> SUFFICES ASSUME NEW p \in Periods, counter[p] # Null
                 PROVE  \E missed \in SUBSET (EventsOf(p)' \cap Legacy) :
                            /\ counter[p] = CountedBy(EventsOf(p) \ missed)'
                            /\ Drifted(p, missed)'
        BY DEF CountersOK
    <2>1. PICK missed \in SUBSET (EventsOf(p) \cap Legacy) :
              counter[p] = CountedBy(EventsOf(p) \ missed) /\ Drifted(p, missed)
        BY <1>1 DEF CountersOK
    <2>2. CountedBy(EventsOf(p) \ missed)' = CountedBy(EventsOf(p) \ missed)
        BY <1>2 DEF CountedBy
    <2>3. Drifted(p, missed)'
        BY <1>2, <2>1 DEF Drifted, CountedBy
    <2> QED BY <1>2, <2>1, <2>2, <2>3
<1>6. SumsMatchEvents'
    <2> SUFFICES ASSUME ~backfill.repairNeeded PROVE SumsMatchEvents'
        BY DEF SumsMatchEvents
    <2>1. PICK missed : SumsAre(missed)
        BY <1>1, SumsMatchAre
    <2>2. SumsStay
        BY <1>2 DEF SumsStay
    <2>3. SumsAre(missed)'
        BY <1>1, <2>1, <2>2, SumsUntouched
    <2> QED BY <2>3, SumsRight
<1>7. LimitsOK'
    <2>1. \A p : booked(p)' = booked(p)
        BY <1>2 DEF booked
    <2> QED BY <1>1, <1>2, <2>1 DEF LimitsOK, Kept, holds
<1> QED BY <1>3, <1>4, <1>5, <1>6, <1>7 DEF LedgerStep

\* settleModelUsageEvent is such a step, whoever settles, from whichever status: an event that
\* ended before is left alone, and one that recovery took as abandoned is taken out of the sums.
LEMMA SettleStep ==
    ASSUME IInv, NEW e \in Callers, NEW from \in SUBSET {"pending", "abandoned"},
           NEW status \in {"settled", "failed", "abandoned"}, NEW counted \in Nat, NEW tokens \in Nat,
           SettleModelUsageEvent(e, from, status, counted, tokens),
           recon' = recon, backfill' = backfill
    PROVE  LedgerStep
<1>1. TypeOK /\ EventsOK /\ CountersOK /\ SumsMatchEvents /\ LimitsOK
    BY DEF IInv
<1>2. e \in Events /\ event[e] \in Event
    BY <1>1 DEF TypeOK, Events
<1>3. CASE event[e].status \notin from
    <2>1. event' = event /\ counter' = counter /\ sums' = sums
        BY <1>3 DEF SettleModelUsageEvent, ledger
    <2> QED BY <2>1, LedgerUntouched
<1>4. CASE event[e].status \in from
    <2>1. PICK row : row = [event[e] EXCEPT
              !.status = status, !.counted = counted, !.tokens = tokens, !.aged = FALSE,
              !.released = event[e].released \/ status = "abandoned"]
        OBVIOUS
    <2>2. /\ row \in Event /\ row.status = status /\ row.counted = counted /\ row.tokens = tokens
          /\ row.day = event[e].day /\ row.attribution = event[e].attribution
          /\ row.released = (event[e].released \/ status = "abandoned")
        BY <1>2, <2>1 DEF Event
    <2>3. e \in Calls /\ event[e].status \in {"pending", "abandoned"}
        BY <1>1, <1>2, <1>4 DEF EventsOK
    <2>4. /\ event' = [event EXCEPT ![e] = row]
          /\ counter' = settledCounters(event[e], counted)
          /\ sums' = [sums EXCEPT ![SumOf(e)] =
                         Plus(@, IF event[e].status = "pending" THEN 1 ELSE 0,
                              tokens - (IF event[e].status = "pending" THEN 0 ELSE event[e].tokens))]
        BY <1>4, <2>1 DEF SettleModelUsageEvent
    <2> HIDE <2>1
    <2>5. SameRow(e, row)
        BY <2>2, <2>3, <2>4 DEF SameRow
    <2>6. /\ countedTokens(row) = counted /\ held[e] = countedTokens(event[e])
          /\ held[e] \in Nat /\ event[e].tokens \in Nat
        BY <1>1, <1>2, <2>2, HeldType, UsageLedgerConstants DEF countedTokens, Event
    <2>7. CountersOK'
        BY <1>1, <2>2, <2>3, <2>4, <2>5, <2>6, CountersSettle DEF settledCounters
    <2>8. /\ event' \in [Events -> Event] /\ event'[e] = row
          /\ \A x \in Events : x # e => event'[x] = event[x] /\ held'[x] = held[x]
        BY <1>1, <1>2, <2>2, <2>4, RowHeld
    <2>9. EventsOK'
        BY <1>1, <2>2, <2>3, <2>8 DEF EventsOK
    <2>10. LegacyStays /\ RowsStay
        <3>1. e \notin Legacy /\ Legacy \subseteq Events /\ Callers \subseteq Events
            BY UsageLedgerConstants DEF Callers, Events
        <3> QED BY <2>2, <2>3, <2>8, <3>1 DEF LegacyStays, RowsStay
    <2>11. LimitsOK'
        <3>1. /\ foreseen \in [Calls -> Nat]
              /\ \A c \in Calls : foreseen[c] = IF event[c].counted > Reserved[c]
                                                THEN Reserved[c] ELSE event[c].counted
            BY <1>1, ForeseenType
        <3>2. \A c \in Calls : c # e => foreseen'[c] = foreseen[c]
            BY <2>8 DEF foreseen, Events, Callers
        <3>3. foreseen'[e] <= Reserved[e]
            BY <2>2, <2>3, <2>8, UsageLedgerConstants DEF foreseen
        <3>4. event'[e].released \/ foreseen'[e] <= foreseen[e]
            <4>1. event'[e].released \/ event[e].counted = Reserved[e]
                BY <1>1, <1>2, <2>2, <2>3, <2>8 DEF EventsOK
            <4> QED BY <2>3, <3>1, <3>3, <4>1, UsageLedgerConstants
        <3>5. \A c \in Calls : c # e => event'[c] = event[c]
            BY <2>8 DEF Events, Callers
        <3>6. \A c \in Calls : foreseen[c] <= foreseen[c]
            BY <3>1
        <3>7. CallsStay
            BY <2>2, <2>3, <2>8, <3>2, <3>4, <3>5, <3>6 DEF CallsStay
        <3> QED BY <1>1, <2>9, <3>7, LimitsStay
    <2>12. counter' \in [Periods -> Amounts \cup {Null}] /\ CountersStay
        <3>1. \A p \in Periods : counter[p] # Null =>
                  Plus(counter[p], 0, counted - countedTokens(event[e])) \in Amounts
            BY <1>1, <2>6, PlusType DEF TypeOK
        <3> QED BY <1>1, <2>4, <3>1, NullIsNoAmount DEF TypeOK, settledCounters, CountersStay
    <2>13. sums' \in [Days \X Attribution -> Amounts]
        <3>1. SumOf(e) \in Days \X Attribution
            BY <1>2 DEF SumOf, Event
        <3>2. sums[SumOf(e)] \in Amounts
            BY <1>1, <3>1 DEF TypeOK
        <3>3. Plus(sums[SumOf(e)], IF event[e].status = "pending" THEN 1 ELSE 0,
                   tokens - (IF event[e].status = "pending" THEN 0 ELSE event[e].tokens)) \in Amounts
            BY <2>6, <3>2, PlusType
        <3> QED BY <1>1, <2>4, <3>1, <3>3 DEF TypeOK
    <2>14. SumsMatchEvents'
        <3> SUFFICES ASSUME ~backfill.repairNeeded PROVE SumsMatchEvents'
            BY DEF SumsMatchEvents
        <3>1. PICK missed : SumsAre(missed)
            BY <1>1, SumsMatchAre
        <3>2. CASE event[e].status = "pending"
            <4>1. e \notin Ended
                BY <3>2 DEF Ended
            <4>2. sums' = [sums EXCEPT ![<<row.day, row.attribution>>] = Plus(@, 1, row.tokens)]
                BY <2>2, <2>4, <2>6, <3>2 DEF SumOf
            <4>3. SumsAre(missed)'
                BY <1>1, <2>2, <2>4, <3>1, <4>1, <4>2, SumsAdd
            <4> QED BY <4>3, SumsRight
        <3>3. CASE event[e].status = "abandoned"
            <4>1. e \in Ended
                BY <1>2, <3>3 DEF Ended, Written
            <4>2. sums' = [sums EXCEPT ![SumOf(e)] = Plus(@, 0, row.tokens - event[e].tokens)]
                BY <2>2, <2>4, <2>6, <3>3
            <4>3. SumsAre(missed)'
                BY <1>1, <2>2, <2>4, <3>1, <4>1, <4>2, SumsResettle
            <4> QED BY <4>3, SumsRight
        <3> QED BY <2>3, <3>2, <3>3
    <2> QED BY <2>7, <2>8, <2>9, <2>10, <2>11, <2>12, <2>13, <2>14 DEF LedgerStep, LedgerTypes
<1> QED BY <1>3, <1>4

-----------------------------------------------------------------------------
(* The steps. *)

\* What a step that leaves the rows and the places of callers alone has to show.
LEMMA StepKeeps ==
    ASSUME IInv, LedgerStep, TypeOK', PlacesStay, seen' = seen, recon' = recon
    PROVE  IInv'
<1>1. CallersOK'
    BY CallersStay DEF IInv, LedgerStep
<1>2. SeenOK'
    BY SeenUntouched DEF IInv, LedgerStep
<1>3. ReconOK'
    BY ReconUntouched DEF IInv, LedgerStep
<1> QED BY <1>1, <1>2, <1>3 DEF IInv, LedgerStep

\* What admission and the recording of reported usage have in common: countAndInsert.
Counted(c, row, place) ==
    /\ NewRow(c, row) /\ row.day = day /\ row.counted \in Nat
    /\ Present /\ Count(row.counted)
    /\ pc' = [pc EXCEPT ![c] = place]
    /\ tries' = tries /\ seen' = seen /\ recon' = recon

\* It keeps what is said of counters and of callers.
LEMMA CountedKeeps ==
    ASSUME IInv, NEW c \in Callers, NEW row \in Event, NEW place \in {"calling", "ended"},
           Counted(c, row, place)
    PROVE  /\ event' \in [Events -> Event] /\ counter' \in [Periods -> Amounts \cup {Null}]
           /\ pc' \in [Callers -> {"count", "insert", "calling", "ended", "refused", "failed"}]
           /\ CountersOK' /\ CallersOK' /\ SeenOK' /\ ReconOK'
<1>1. TypeOK /\ EventsOK /\ CallersOK /\ SeenOK /\ ReconOK /\ CountersOK
    BY DEF IInv
<1>2. c \in Events /\ c \notin Legacy /\ day \in Days /\ PeriodsOf(day) \subseteq Periods
    BY <1>1, PeriodsOfDay, UsageLedgerConstants DEF TypeOK, Events, Callers
<1>3. /\ event' \in [Events -> Event] /\ event'[c] = row
      /\ \A x \in Events : x # c => event'[x] = event[x] /\ held'[x] = held[x]
    <2>1. event' = [event EXCEPT ![c] = row]
        BY DEF Counted, NewRow
    <2> QED BY <1>1, <1>2, <2>1, RowHeld
<1>4. countedTokens(row) = row.counted /\ row.counted \in Nat /\ PeriodsOf(row.day) = PeriodsOf(day)
    BY UsageLedgerConstants DEF Counted, countedTokens
<1>5. /\ \A p \in PeriodsOf(row.day) : counter[p] # Null
      /\ counter' = [p \in Periods |-> IF p \in PeriodsOf(row.day)
                                       THEN Plus(counter[p], 1, countedTokens(row))
                                       ELSE counter[p]]
    BY <1>4 DEF Counted, Present, Count
<1>6. CountersOK'
    BY <1>1, <1>5, CountersCount DEF Counted
<1>7. \A p \in PeriodsOf(row.day) : Plus(counter[p], 1, countedTokens(row)) \in Amounts
    <2> SUFFICES ASSUME NEW p \in PeriodsOf(row.day)
                 PROVE  Plus(counter[p], 1, countedTokens(row)) \in Amounts
        OBVIOUS
    <2>1. counter[p] \in Amounts
        BY <1>1, <1>2, <1>4, <1>5 DEF TypeOK
    <2> QED BY <1>4, <2>1, PlusType
<1>8. counter' \in [Periods -> Amounts \cup {Null}]
    BY <1>1, <1>5, <1>7 DEF TypeOK
<1>9. CountersStay /\ \A p \in PeriodsOf(row.day) : counter'[p] # Null
    BY <1>2, <1>4, <1>5, <1>7, NullIsNoAmount DEF CountersStay
<1>10. LegacyStays
    <2>1. c \notin Legacy /\ Legacy \subseteq Events
        BY <1>2 DEF Events
    <2> QED BY <1>3, <2>1 DEF LegacyStays
<1>11. SeenOK' /\ ReconOK'
    BY <1>1, <1>9, <1>10, SeenUntouched, ReconUntouched DEF Counted
<1>12. CallersOK'
    <2> SUFFICES ASSUME NEW x \in Callers
                 PROVE  /\ pc'[x] \in {"count", "insert"} => event'[x].status = "none" /\ tries'[x] < 3
                        /\ event'[x].status # "none" =>
                               \A p \in PeriodsOf(event'[x].day) : counter'[p] # Null
        BY DEF CallersOK, PeriodsOf, MonthOf
    <2>1. CASE x = c
        <3>1. pc'[x] \notin {"count", "insert"}
            BY <1>1, <2>1 DEF Counted, TypeOK
        <3>2. PeriodsOf(event'[x].day) = PeriodsOf(row.day)
            BY <1>3, <2>1
        <3> QED BY <1>9, <3>1, <3>2
    <2>2. CASE x # c
        <3>1. event'[x] = event[x] /\ pc'[x] = pc[x] /\ tries'[x] = tries[x] /\ event[x].day \in Days
            BY <1>1, <1>3, <2>2 DEF Counted, TypeOK, Events, Event
        <3>2. PeriodsOf(event'[x].day) = PeriodsOf(event[x].day)
            BY <3>1
        <3> QED BY <1>1, <1>9, <3>1, <3>2, PeriodsOfDay DEF CallersOK, CountersStay
    <2> QED BY <2>1, <2>2
<1>13. pc' \in [Callers -> {"count", "insert", "calling", "ended", "refused", "failed"}]
    BY <1>1 DEF Counted, TypeOK
<1> QED BY <1>3, <1>6, <1>8, <1>11, <1>12, <1>13

\* Admission.
LEMMA AdmitKeeps ==
    ASSUME IInv, NEW c \in Callers, AdmitModelUsageEvent(c)
    PROVE  IInv'
<1>1. TypeOK /\ EventsOK /\ CallersOK /\ CountersOK /\ LimitsOK /\ SumsMatchEvents
    BY DEF IInv
<1>2. c \in Calls /\ c \in Events /\ pc[c] = "count" /\ event[c].status = "none" /\ day \in Days
    BY <1>1 DEF AdmitModelUsageEvent, CallersOK, Events, TypeOK
<1>3. CASE /\ \A p \in PeriodsOf(day) : within(p, Reserved[c])
           /\ Count(Reserved[c]) /\ Insert(c, "pending", Reserved[c], 0, "named") /\ Goto(c, "calling")
    <2>1. PICK row : row = [status |-> "pending", day |-> day, counted |-> Reserved[c], tokens |-> 0,
                            attribution |-> "named", aged |-> FALSE, released |-> FALSE]
        OBVIOUS
    <2>2. row \in Event
        BY <1>2, <2>1, UsageLedgerConstants DEF Event, Attribution
    <2>3. event' = [event EXCEPT ![c] = row]
        BY <1>3, <2>1 DEF Insert
    <2>4. Counted(c, row, "calling") /\ NewRow(c, row)
        BY <1>2, <1>3, <2>1, <2>3, UsageLedgerConstants
        DEF AdmitModelUsageEvent, Counted, NewRow, Goto, upkeep
    <2>5. /\ event' \in [Events -> Event] /\ counter' \in [Periods -> Amounts \cup {Null}]
          /\ pc' \in [Callers -> {"count", "insert", "calling", "ended", "refused", "failed"}]
          /\ CountersOK' /\ CallersOK' /\ SeenOK' /\ ReconOK'
        BY <2>2, <2>4, CountedKeeps
    <2>6. event'[c] = row /\ \A x \in Events : x # c => event'[x] = event[x] /\ used'[x] = used[x]
        BY <1>1, <1>2, <2>2, <2>3, RowHeld
    <2>7. EventsOK'
        BY <1>1, <1>2, <2>1, <2>6, UsageLedgerConstants DEF EventsOK
    <2>8. LimitsOK'
        <3>1. \A p \in PeriodsOf(row.day) :
                  p \in Periods /\ counter[p] # Null /\ within(p, Reserved[c])
            BY <1>2, <1>3, <2>1, PeriodsOfDay DEF AdmitModelUsageEvent, Present
        <3> QED BY <1>1, <1>2, <2>1, <2>2, <2>4, <3>1, LimitsAdmit
    <2>9. SumsMatchEvents'
        <3>1. Ended' = Ended /\ \A x \in Ended : SumOf(x)' = SumOf(x) /\ used'[x] = used[x]
            <4>1. c \notin Ended /\ c \notin Ended' /\ Ended \subseteq Events /\ Ended' \subseteq Events
                BY <1>2, <2>1, <2>6 DEF Ended, Written
            <4>2. \A x \in Events : x # c => (x \in Ended' <=> x \in Ended) /\ SumOf(x)' = SumOf(x)
                BY <2>6 DEF Ended, Written, SumOf
            <4> QED BY <2>6, <4>1, <4>2
        <3>2. SumsStay /\ backfill' = backfill
            BY <3>1 DEF SumsStay, AdmitModelUsageEvent, upkeep
        <3> SUFFICES ASSUME ~backfill.repairNeeded PROVE SumsMatchEvents'
            BY <3>2 DEF SumsMatchEvents
        <3>3. PICK missed : SumsAre(missed)
            BY <1>1, SumsMatchAre
        <3>4. SumsAre(missed)'
            BY <1>1, <3>2, <3>3, SumsUntouched
        <3> QED BY <3>4, SumsRight
    <2>10. TypeOK'
        BY <1>1, <2>5 DEF TypeOK, AdmitModelUsageEvent, upkeep
    <2> QED BY <2>5, <2>7, <2>8, <2>9, <2>10 DEF IInv
<1>4. CASE Goto(c, "refused") /\ UNCHANGED <<event, counter>>
    <2>1. /\ event' = event /\ counter' = counter /\ sums' = sums /\ recon' = recon
          /\ backfill' = backfill /\ seen' = seen /\ tries' = tries
        BY <1>4 DEF AdmitModelUsageEvent, upkeep
    <2>2. LedgerStep
        BY <2>1, LedgerUntouched
    <2>3. PlacesStay
        BY <1>1, <1>4, <2>1 DEF PlacesStay, Goto, TypeOK
    <2>4. TypeOK'
        BY <1>1, <1>4 DEF TypeOK, AdmitModelUsageEvent, Goto, upkeep
    <2> QED BY <2>1, <2>2, <2>3, <2>4, StepKeeps
<1> QED BY <1>3, <1>4 DEF AdmitModelUsageEvent

\* What a tool reports is counted and summed at once.
LEMMA AppendKeeps ==
    ASSUME IInv, NEW c \in Callers, NEW tokens \in Uses, AppendModelUsageEvent(c, tokens)
    PROVE  IInv'
<1>1. TypeOK /\ EventsOK /\ CallersOK /\ CountersOK /\ LimitsOK /\ SumsMatchEvents
    BY DEF IInv
<1>2. /\ c \in Records /\ c \notin Calls /\ c \in Events /\ pc[c] = "count"
      /\ event[c].status = "none" /\ day \in Days /\ tokens \in Nat
    BY <1>1, UsageLedgerConstants DEF AppendModelUsageEvent, CallersOK, Events, TypeOK
<1>3. PICK row : row = [status |-> "settled", day |-> day, counted |-> tokens, tokens |-> tokens,
                        attribution |-> "named", aged |-> FALSE, released |-> FALSE]
    OBVIOUS
<1>4. row \in Event
    BY <1>2, <1>3 DEF Event, Attribution
<1>5. event' = [event EXCEPT ![c] = row]
    BY <1>3 DEF Insert, AppendModelUsageEvent
<1>6. Counted(c, row, "ended") /\ NewRow(c, row)
    BY <1>2, <1>3, <1>5 DEF AppendModelUsageEvent, Counted, NewRow, Goto, upkeep
<1>7. /\ event' \in [Events -> Event] /\ counter' \in [Periods -> Amounts \cup {Null}]
      /\ pc' \in [Callers -> {"count", "insert", "calling", "ended", "refused", "failed"}]
      /\ CountersOK' /\ CallersOK' /\ SeenOK' /\ ReconOK'
    BY <1>4, <1>6, CountedKeeps
<1>8. event'[c] = row /\ \A x \in Events : x # c => event'[x] = event[x]
    BY <1>1, <1>2, <1>4, <1>5, RowHeld
<1>9. EventsOK'
    BY <1>1, <1>2, <1>3, <1>8 DEF EventsOK
<1>10. LimitsOK'
    <2>1. Calls \subseteq Events
        BY DEF Events, Callers
    <2>2. \A x \in Calls : event'[x] = event[x] /\ foreseen'[x] = foreseen[x]
        BY <1>2, <1>8, <2>1 DEF foreseen
    <2>3. \A x \in Calls : foreseen[x] <= foreseen[x]
        BY <1>1, ForeseenType
    <2>4. CallsStay
        BY <2>2, <2>3 DEF CallsStay
    <2> QED BY <1>1, <1>9, <2>4, LimitsStay
<1>11. sums' = [sums EXCEPT ![<<row.day, row.attribution>>] = Plus(@, 1, row.tokens)]
       /\ backfill' = backfill
    BY <1>3 DEF AppendModelUsageEvent, upkeep
<1>12. SumsMatchEvents'
    <2> SUFFICES ASSUME ~backfill.repairNeeded PROVE SumsMatchEvents'
        BY <1>11 DEF SumsMatchEvents
    <2>1. PICK missed : SumsAre(missed)
        BY <1>1, SumsMatchAre
    <2>2. c \notin Ended /\ row.status \notin {"none", "pending"}
        BY <1>2, <1>3 DEF Ended, Written
    <2>3. SumsAre(missed)'
        BY <1>1, <1>4, <1>5, <1>11, <2>1, <2>2, SumsAdd
    <2> QED BY <2>3, SumsRight
<1>13. TypeOK'
    <2>1. <<row.day, row.attribution>> \in Days \X Attribution
        BY <1>4 DEF Event
    <2>2. sums[<<row.day, row.attribution>>] \in Amounts
        BY <1>1, <2>1 DEF TypeOK
    <2>3. Plus(sums[<<row.day, row.attribution>>], 1, row.tokens) \in Amounts
        BY <1>2, <1>3, <2>2, PlusType
    <2>4. sums' \in [Days \X Attribution -> Amounts]
        BY <1>1, <1>11, <2>1, <2>3 DEF TypeOK
    <2> QED BY <1>1, <1>7, <2>4 DEF TypeOK, AppendModelUsageEvent, upkeep
<1> QED BY <1>7, <1>9, <1>10, <1>12, <1>13 DEF IInv

\* startCounters reads the events of the periods without a counter.
LEMMA StartReadsKeeps ==
    ASSUME IInv, NEW c \in Callers, StartCountersReads(c)
    PROVE  IInv'
<1>1. TypeOK /\ CallersOK /\ SeenOK /\ ReconOK
    BY DEF IInv
<1>2. /\ event' = event /\ counter' = counter /\ sums' = sums /\ recon' = recon
      /\ backfill' = backfill /\ tries' = tries
    BY DEF StartCountersReads, ledger, upkeep
<1>3. LedgerStep
    BY <1>2, LedgerUntouched
<1>4. PlacesStay
    BY <1>1, <1>2 DEF PlacesStay, StartCountersReads, Goto, TypeOK
<1>5. TypeOK'
    BY <1>1, <1>2 DEF TypeOK, StartCountersReads, Goto, upkeep
<1>6. CallersOK' /\ ReconOK'
    BY <1>1, <1>2, <1>3, <1>4, CallersStay, ReconUntouched DEF LedgerStep
<1>7. SeenOK'
    <2>1. /\ seen' = [seen EXCEPT ![c] = [p \in {q \in PeriodsOf(day) : counter[q] = Null} |->
                                              CountedBy(EventsOf(p))]]
          /\ DOMAIN seen = Callers /\ DOMAIN seen' = Callers
        BY <1>1 DEF StartCountersReads, SeenOK
    <2> SUFFICES ASSUME NEW x \in Callers
                 PROVE  /\ DOMAIN seen'[x] \subseteq Periods
                        /\ \A p \in DOMAIN seen'[x] : HeldByLegacy(p, seen[x][p])'
        BY <2>1 DEF SeenOK
    <2>2. \A p, amount : HeldByLegacy(p, amount) => HeldByLegacy(p, amount)'
        BY <1>1, <1>3, SeenStays DEF LedgerStep
    <2>3. CASE x = c
        <3>1. seen'[x] = [p \in {q \in PeriodsOf(day) : counter[q] = Null} |-> CountedBy(EventsOf(p))]
            BY <2>1, <2>3
        <3>2. DOMAIN seen'[x] \subseteq Periods
            BY <1>1, <3>1, PeriodsOfDay DEF TypeOK
        <3>3. ASSUME NEW p \in DOMAIN seen'[x] PROVE HeldByLegacy(p, seen[x][p])'
            <4>1. counter[p] = Null /\ seen'[x][p] = CountedBy(EventsOf(p))
                BY <3>1
            <4>2. EventsOf(p) \in SUBSET (EventsOf(p) \cap Legacy)
                BY <1>1, <4>1, UncountedAreLegacy
            <4>3. EventsOf(p)' = EventsOf(p) /\ CountedBy(EventsOf(p))' = CountedBy(EventsOf(p))
                BY <1>2 DEF EventsOf, Written, CountedBy, held
            <4> QED BY <4>1, <4>2, <4>3 DEF HeldByLegacy
        <3> QED BY <3>2, <3>3
    <2>4. CASE x # c
        <3>1. seen'[x] = seen[x]
            BY <2>1, <2>4
        <3>2. ASSUME NEW p \in DOMAIN seen[x] PROVE HeldByLegacy(p, seen[x][p])'
            <4>1. HeldByLegacy(p, seen[x][p])
                BY <1>1 DEF SeenOK
            <4>2. PICK amount : amount = seen[x][p] /\ amount = seen'[x][p]
                BY <3>1
            <4>3. HeldByLegacy(p, amount)'
                BY <2>2, <4>1, <4>2
            <4> QED BY <4>2, <4>3 DEF HeldByLegacy
        <3> QED BY <1>1, <3>1, <3>2 DEF SeenOK
    <2> QED BY <2>3, <2>4
<1> QED BY <1>3, <1>5, <1>6, <1>7 DEF IInv, LedgerStep

\* startCounters inserts what it read, and the caller tries again or gives up.
LEMMA StartInsertsKeeps ==
    ASSUME IInv, NEW c \in Callers, StartCountersInserts(c)
    PROVE  IInv'
<1>1. /\ TypeOK /\ EventsOK /\ CallersOK /\ SeenOK /\ ReconOK /\ CountersOK /\ SumsMatchEvents
      /\ LimitsOK
    BY DEF IInv
<1>2. /\ event' = event /\ sums' = sums /\ recon' = recon /\ backfill' = backfill /\ day' = day
      /\ reconciled' = reconciled /\ recovery' = recovery /\ counter' = started(c)
      /\ pc[c] = "insert"
    BY DEF StartCountersInserts, upkeep
<1>3. CountersOK'
    BY <1>1, <1>2, CountersStart
<1>4. \A p \in Periods : p \in DOMAIN seen[c] => seen[c][p] \in Amounts
    <2> SUFFICES ASSUME NEW p \in Periods, p \in DOMAIN seen[c] PROVE seen[c][p] \in Amounts
        OBVIOUS
    <2>1. PICK E \in SUBSET (EventsOf(p) \cap Legacy) : seen[c][p] = CountedBy(E)
        BY <1>1 DEF SeenOK, HeldByLegacy
    <2>2. E \subseteq Events
        BY DEF Events
    <2>3. Amount(held, E) \in Amounts
        BY <1>1, <2>2, SomeEvents, AmountType
    <2> QED BY <2>1, <2>3 DEF CountedBy, Amount
<1>5. counter' \in [Periods -> Amounts \cup {Null}] /\ CountersStay
    BY <1>1, <1>2, <1>4 DEF started, TypeOK, CountersStay
<1>6. EventsOK' /\ LegacyStays /\ RowsStay
    BY <1>1, <1>2 DEF EventsOK, LegacyStays, RowsStay, held
<1>7. SumsMatchEvents'
    <2>1. SumsStay
        BY <1>2 DEF SumsStay, Ended, Written, SumOf, used
    <2> SUFFICES ASSUME ~backfill.repairNeeded PROVE SumsMatchEvents'
        BY <1>2 DEF SumsMatchEvents
    <2>2. PICK missed : SumsAre(missed)
        BY <1>1, SumsMatchAre
    <2>3. SumsAre(missed)'
        BY <1>1, <2>1, <2>2, SumsUntouched
    <2> QED BY <2>3, SumsRight
<1>8. LimitsOK'
    <2>1. \A x \in Calls : event'[x] = event[x] /\ foreseen'[x] = foreseen[x]
        BY <1>2 DEF foreseen
    <2>2. \A x \in Calls : foreseen[x] <= foreseen[x]
        BY <1>1, ForeseenType
    <2>3. CallsStay
        BY <2>1, <2>2 DEF CallsStay
    <2> QED BY <1>1, <1>6, <2>3, LimitsStay
<1>9. tries[c] \in 0..2 /\ event[c].status = "none"
    BY <1>1, <1>2 DEF CallersOK, TypeOK
<1>10. TypeOK'
    <2>1. tries' \in [Callers -> 0..3]
        BY <1>1, <1>9 DEF StartCountersInserts, TypeOK
    <2>2. pc' \in [Callers -> {"count", "insert", "calling", "ended", "refused", "failed"}]
        BY <1>1 DEF StartCountersInserts, Goto, TypeOK
    <2> QED BY <1>1, <1>2, <1>5, <2>1, <2>2 DEF TypeOK
<1>11. CallersOK'
    <2> SUFFICES ASSUME NEW x \in Callers
                 PROVE  /\ pc'[x] \in {"count", "insert"} => event[x].status = "none" /\ tries'[x] < 3
                        /\ event[x].status # "none" =>
                               \A p \in PeriodsOf(event[x].day) : counter'[p] # Null
        BY <1>2 DEF CallersOK
    <2>1. event[x].status # "none" => \A p \in PeriodsOf(event[x].day) : counter'[p] # Null
        <3>1. PeriodsOf(event[x].day) \subseteq Periods
            BY <1>1, PeriodsOfDay DEF TypeOK, Event, Events
        <3> QED BY <1>1, <1>5, <3>1 DEF CallersOK, CountersStay
    <2>2. CASE x = c
        <3>1. tries'[c] = tries[c] + 1 /\ pc'[c] = IF tries[c] + 1 < 3 THEN "count" ELSE "failed"
            BY <1>1 DEF StartCountersInserts, Goto, TypeOK
        <3> QED BY <1>9, <2>1, <2>2, <3>1
    <2>3. CASE x # c
        <3>1. tries'[x] = tries[x] /\ pc'[x] = pc[x]
            BY <1>1, <2>3 DEF StartCountersInserts, Goto, TypeOK
        <3> QED BY <1>1, <2>1, <3>1 DEF CallersOK
    <2> QED BY <2>2, <2>3
<1>12. SeenOK'
    <2>1. /\ seen' = [seen EXCEPT ![c] = <<>>] /\ DOMAIN seen = Callers /\ DOMAIN seen' = Callers
        BY <1>1 DEF StartCountersInserts, SeenOK
    <2> SUFFICES ASSUME NEW x \in Callers
                 PROVE  /\ DOMAIN seen'[x] \subseteq Periods
                        /\ \A p \in DOMAIN seen'[x] : HeldByLegacy(p, seen[x][p])'
        BY <2>1 DEF SeenOK
    <2>2. CASE x = c
        <3>1. seen'[x] = <<>> /\ DOMAIN seen'[x] = {}
            BY <2>1, <2>2
        <3> QED BY <3>1
    <2>3. CASE x # c
        <3>1. seen'[x] = seen[x]
            BY <2>1, <2>3
        <3>2. ASSUME NEW p \in DOMAIN seen[x] PROVE HeldByLegacy(p, seen[x][p])'
            <4>1. HeldByLegacy(p, seen[x][p])
                BY <1>1 DEF SeenOK
            <4>2. PICK amount : amount = seen[x][p] /\ amount = seen'[x][p]
                BY <3>1
            <4>3. HeldByLegacy(p, amount)'
                BY <1>1, <1>6, <4>1, <4>2, SeenStays
            <4> QED BY <4>2, <4>3 DEF HeldByLegacy
        <3> QED BY <1>1, <3>1, <3>2 DEF SeenOK
    <2> QED BY <2>2, <2>3
<1>13. ReconOK'
    BY <1>1, <1>2, <1>5, ReconUntouched
<1> QED BY <1>3, <1>6, <1>7, <1>8, <1>10, <1>11, <1>12, <1>13 DEF IInv

\* A call ends.
LEMMA SettleKeeps ==
    ASSUME IInv, NEW c \in Callers, SettleModelCall(c)
    PROVE  IInv'
<1>1. TypeOK
    BY DEF IInv
<1>2. recon' = recon /\ backfill' = backfill /\ seen' = seen /\ tries' = tries
    BY DEF SettleModelCall, upkeep
<1>3. settlesFrom \in SUBSET {"pending", "abandoned"} /\ Uses \subseteq Nat
    BY UsageLedgerConstants DEF settlesFrom
<1>4. LedgerStep
    <2>1. ASSUME NEW tokens \in Uses,
                 SettleModelUsageEvent(c, settlesFrom, "settled", tokens, tokens)
          PROVE  LedgerStep
        <3>1. tokens \in Nat
            BY <1>3
        <3> QED BY <1>2, <1>3, <2>1, <3>1, SettleStep
    <2>2. ASSUME SettleModelUsageEvent(c, settlesFrom, "settled", Reserved[c], 0) PROVE LedgerStep
        <3>1. CASE c \in Calls
            <4>1. Reserved[c] \in Nat
                BY <3>1, UsageLedgerConstants
            <4> QED BY <1>2, <1>3, <2>2, <4>1, SettleStep
        <3>2. CASE c \notin Calls
            <4>1. event[c].status \notin settlesFrom
                BY <3>2 DEF IInv, EventsOK, Callers, Events, settlesFrom
            <4>2. SettleModelUsageEvent(c, settlesFrom, "failed", 0, 0)
                BY <2>2, <4>1 DEF SettleModelUsageEvent
            <4> QED BY <1>2, <1>3, <4>2, SettleStep
        <3> QED BY <3>1, <3>2
    <2>3. ASSUME SettleModelUsageEvent(c, settlesFrom, "failed", 0, 0) PROVE LedgerStep
        BY <1>2, <1>3, <2>3, SettleStep
    <2> QED BY <2>1, <2>2, <2>3 DEF SettleModelCall
<1>5. PlacesStay
    BY <1>1, <1>2 DEF PlacesStay, SettleModelCall, Goto, TypeOK
<1>6. TypeOK'
    BY <1>1, <1>4 DEF TypeOK, LedgerStep, LedgerTypes, SettleModelCall, Goto, upkeep
<1> QED BY <1>2, <1>4, <1>5, <1>6, StepKeeps

\* Recovery takes a call as abandoned, unless it ended since recovery listed it.
LEMMA ReleaseKeeps ==
    ASSUME IInv, NEW c \in Calls, ReleaseAbandonedModelCall(c)
    PROVE  IInv'
<1>1. TypeOK /\ c \in Callers
    BY DEF IInv, Callers
<1>2. recon' = recon /\ backfill' = backfill /\ seen' = seen /\ tries' = tries /\ pc' = pc
    BY DEF ReleaseAbandonedModelCall, callers
<1>3. releasesFrom \in SUBSET {"pending", "abandoned"} /\ 0 \in Nat
    BY DEF releasesFrom
<1>4. LedgerStep
    BY <1>1, <1>2, <1>3, SettleStep DEF ReleaseAbandonedModelCall
<1>5. PlacesStay
    BY <1>2 DEF PlacesStay
<1>6. TypeOK'
    BY <1>1, <1>4 DEF TypeOK, LedgerStep, LedgerTypes, ReleaseAbandonedModelCall, callers
<1> QED BY <1>2, <1>4, <1>5, <1>6, StepKeeps

\* The steps that change nothing the invariant speaks of but days and what is under way.
LEMMA UpkeepKeeps ==
    ASSUME IInv, ListPendingModelUsageEvents \/ BackfillPassEnds \/ ClockTick
    PROVE  IInv'
<1>1. TypeOK
    BY DEF IInv
<1>2. /\ event' = event /\ counter' = counter /\ sums' = sums /\ recon' = recon
      /\ backfill'.repairNeeded = backfill.repairNeeded
      /\ seen' = seen /\ tries' = tries /\ pc' = pc
    BY DEF ListPendingModelUsageEvents, BackfillPassEnds, ClockTick, ledger, callers, upkeep
<1>3. LedgerStep
    BY <1>2, LedgerUntouched
<1>4. PlacesStay
    BY <1>2 DEF PlacesStay
<1>5. TypeOK'
    <2>1. CASE ListPendingModelUsageEvents
        BY <1>1, <1>2, <2>1
        DEF TypeOK, ListPendingModelUsageEvents, pendingCalls, callers
    <2>2. CASE BackfillPassEnds
        BY <1>1, <1>2, <2>2 DEF TypeOK, BackfillPassEnds, callers, ledger
    <2>3. CASE ClockTick
        BY <1>1, <1>2, <2>3, UsageLedgerConstants DEF TypeOK, ClockTick, Days, upkeep
    <2> QED BY <2>1, <2>2, <2>3
<1> QED BY <1>2, <1>3, <1>4, <1>5, StepKeeps

\* A row that is written again with all it holds, used and was summed under.
LEMMA RowUntouched ==
    ASSUME IInv, NEW e \in Events, NEW row \in Event, SameRow(e, row), row.status = event[e].status,
           row.counted = event[e].counted, row.tokens = event[e].tokens,
           row.released = event[e].released, counter' = counter, sums' = sums, recon' = recon,
           \/ row.attribution = event[e].attribution /\ backfill' = backfill
           \/ backfill'.repairNeeded
           \/ row = event[e] /\ backfill'.repairNeeded = backfill.repairNeeded
    PROVE  LedgerStep
<1>1. TypeOK /\ EventsOK /\ CountersOK /\ SumsMatchEvents /\ LimitsOK
    BY DEF IInv
<1>2. /\ event' \in [Events -> Event] /\ event'[e] = row
      /\ \A x \in Events : x # e => /\ event'[x] = event[x]
                                    /\ held'[x] = held[x] /\ used'[x] = used[x]
      /\ held'[e] = countedTokens(row) /\ used'[e] = row.tokens
    <2>1. event' = [event EXCEPT ![e] = row]
        BY DEF SameRow
    <2> QED BY <1>1, <2>1, RowHeld
<1>3. countedTokens(row) = held[e] /\ row.tokens = used[e]
    BY <1>1, HeldType DEF countedTokens
<1>4. CountersOK'
    BY <1>1, <1>3, CountersSameHeld
<1>5. EventsOK'
    BY <1>1, <1>2 DEF EventsOK
<1>6. LimitsOK'
    <2>1. Calls \subseteq Events
        BY DEF Events, Callers
    <2>2. \A x \in Calls : foreseen'[x] = foreseen[x]
        BY <1>2, <2>1 DEF foreseen
    <2>3. \A x \in Calls : foreseen[x] <= foreseen[x]
        BY <1>1, ForeseenType
    <2>4. \A x \in Calls : /\ event'[x].status = event[x].status /\ event'[x].day = event[x].day
                           /\ event'[x].released = event[x].released
        BY <1>2, <2>1 DEF SameRow
    <2>5. CallsStay
        BY <2>2, <2>3, <2>4 DEF CallsStay
    <2> QED BY <1>1, <1>5, <2>5, LimitsStay
<1>7. SumsMatchEvents'
    <2> SUFFICES ASSUME ~backfill'.repairNeeded PROVE SumsMatchEvents'
        BY DEF SumsMatchEvents
    <2>1. row.attribution = event[e].attribution /\ ~backfill.repairNeeded
        OBVIOUS
    <2>2. PICK missed : SumsAre(missed)
        BY <1>1, <2>1, SumsMatchAre
    <2>3. \A x \in Events : /\ SumOf(x)' = SumOf(x) /\ used'[x] = used[x]
                            /\ x \in Ended' <=> x \in Ended
        BY <1>2, <1>3, <2>1 DEF SumOf, Ended, Written, SameRow
    <2>4. Ended' = Ended /\ Ended \subseteq Events
        BY <2>3 DEF Ended, Written
    <2>5. SumsStay
        BY <2>3, <2>4 DEF SumsStay
    <2>6. SumsAre(missed)'
        BY <1>1, <2>2, <2>5, SumsUntouched
    <2> QED BY <2>6, SumsRight
<1>8. LedgerTypes' /\ LegacyStays /\ CountersStay /\ RowsStay
    <2>1. LedgerTypes' /\ CountersStay
        BY <1>1, <1>2 DEF LedgerTypes, CountersStay, TypeOK
    <2>2. Legacy \subseteq Events /\ Callers \subseteq Events
        BY DEF Events
    <2> QED BY <1>2, <1>3, <2>1, <2>2 DEF LegacyStays, RowsStay, SameRow
<1> QED BY <1>4, <1>5, <1>6, <1>7, <1>8 DEF LedgerStep

\* Time passes for a call.
LEMMA AgeKeeps ==
    ASSUME IInv, NEW c \in Calls, Age(c)
    PROVE  IInv'
<1>1. TypeOK /\ c \in Events
    BY DEF IInv, Events, Callers
<1>2. /\ counter' = counter /\ sums' = sums /\ recon' = recon /\ backfill' = backfill
      /\ seen' = seen /\ tries' = tries /\ pc' = pc
    BY DEF Age, callers, upkeep
<1>3. PICK row : row = [event[c] EXCEPT !.aged = TRUE]
    OBVIOUS
<1>4. /\ row \in Event /\ row.status = event[c].status /\ row.counted = event[c].counted
      /\ row.tokens = event[c].tokens /\ row.released = event[c].released
      /\ row.day = event[c].day /\ row.attribution = event[c].attribution
    <2>1. event[c] \in Event
        BY <1>1 DEF TypeOK
    <2> QED BY <1>3, <2>1 DEF Event
<1>5. SameRow(c, row)
    BY <1>3, <1>4 DEF SameRow, Age
<1>6. LedgerStep
    BY <1>1, <1>2, <1>4, <1>5, RowUntouched
<1>7. PlacesStay
    BY <1>2 DEF PlacesStay
<1>8. TypeOK'
    BY <1>1, <1>2, <1>6 DEF TypeOK, LedgerStep, LedgerTypes, Age, upkeep
<1> QED BY <1>2, <1>6, <1>7, <1>8, StepKeeps

\* The backfill fills in a row, and owes a repair of the sums from the moment it does.
LEMMA BatchKeeps ==
    ASSUME IInv, NEW e \in Legacy, BackfillBatch(e)
    PROVE  IInv'
<1>1. TypeOK /\ e \in Events /\ event[e] \in Event
    BY DEF IInv, Events, TypeOK
<1>2. /\ counter' = counter /\ sums' = sums /\ recon' = recon
      /\ seen' = seen /\ tries' = tries /\ pc' = pc
    BY DEF BackfillBatch, callers
<1>3. PICK row : row = filled(event[e])
    OBVIOUS
<1>4. /\ row \in Event /\ row.status = event[e].status /\ row.counted = event[e].counted
      /\ row.tokens = event[e].tokens /\ row.released = event[e].released
      /\ row.day = event[e].day
      /\ event[e].attribution # "plain" => row = event[e]
    BY <1>1, <1>3 DEF Event, filled, Attribution
<1>5. SameRow(e, row)
    BY <1>3, <1>4 DEF SameRow, BackfillBatch, Unread, Written
<1>6. /\ backfill' = [after |-> backfill.after \cup {e},
                      changed |-> backfill.changed \/ event[e].attribution = "plain",
                      verifiedAt |-> Null, repairNeeded |-> owed(event[e].attribution = "plain")]
    BY DEF BackfillBatch
<1>7. backfill'.repairNeeded = (backfill.repairNeeded \/ event[e].attribution = "plain")
    BY <1>6 DEF owed
<1>8. LedgerStep
    <2>1. CASE event[e].attribution = "plain"
        BY <1>1, <1>2, <1>4, <1>5, <1>7, <2>1, RowUntouched
    <2>2. CASE event[e].attribution # "plain"
        <3>1. row = event[e] /\ backfill'.repairNeeded = backfill.repairNeeded
            BY <1>1, <1>4, <1>7, <2>2 DEF TypeOK
        <3> QED BY <1>1, <1>2, <1>4, <1>5, <3>1, RowUntouched
    <2> QED BY <2>1, <2>2
<1>9. PlacesStay
    BY <1>2 DEF PlacesStay
<1>10. TypeOK'
    <2>1. backfill' \in [after: SUBSET Legacy, changed: BOOLEAN, verifiedAt: Days \cup {Null},
                         repairNeeded: BOOLEAN]
        BY <1>1, <1>6 DEF TypeOK, owed
    <2> QED BY <1>1, <1>2, <1>8, <2>1 DEF TypeOK, LedgerStep, LedgerTypes, BackfillBatch
<1> QED BY <1>2, <1>8, <1>9, <1>10, StepKeeps

\* A process of the previous release writes an event.
LEMMA LegacyKeeps ==
    ASSUME IInv, NEW e \in Legacy, NEW tokens \in Uses, NEW attribution \in Attribution,
           LegacyWrites(e, tokens, attribution)
    PROVE  IInv'
<1>1. TypeOK /\ EventsOK /\ CountersOK /\ SumsMatchEvents /\ LimitsOK
    BY DEF IInv
<1>2. /\ e \in Events /\ e \notin Callers /\ e \notin Calls /\ event[e].status = "none" /\ day \in Days
      /\ tokens \in Nat
    BY <1>1, UsageLedgerConstants DEF Events, Callers, TypeOK, LegacyWrites
<1>3. /\ counter' = counter /\ sums' = sums /\ recon' = recon /\ backfill' = backfill
      /\ seen' = seen /\ tries' = tries /\ pc' = pc
    BY DEF LegacyWrites, callers, upkeep
<1>4. PICK row : row = [status |-> "settled", day |-> day, counted |-> Null, tokens |-> tokens,
                        attribution |-> attribution, aged |-> FALSE, released |-> FALSE]
    OBVIOUS
<1>5. row \in Event /\ row.status = "settled"
    BY <1>2, <1>4 DEF Event
<1>6. event' = [event EXCEPT ![e] = row] /\ NewRow(e, row)
    BY <1>2, <1>4 DEF LegacyWrites, Insert, NewRow
<1>7. /\ event' \in [Events -> Event] /\ event'[e] = row
      /\ \A x \in Events : x # e => event'[x] = event[x] /\ held'[x] = held[x]
    BY <1>1, <1>2, <1>5, <1>6, RowHeld
<1>8. EventsOK'
    BY <1>1, <1>2, <1>5, <1>7 DEF EventsOK
<1>9. CountersOK'
    BY <1>1, <1>3, <1>5, <1>6, CountersLegacy
<1>10. SumsMatchEvents'
    <2> SUFFICES ASSUME ~backfill.repairNeeded PROVE SumsMatchEvents'
        BY <1>3 DEF SumsMatchEvents
    <2>1. PICK missed : SumsAre(missed)
        BY <1>1, SumsMatchAre
    <2>2. PICK more : more = missed \cup {e}
        OBVIOUS
    <2>3. SumsAre(more)'
        <3>1. SumsAre(missed \cup {e})'
            BY <1>1, <1>3, <1>5, <1>6, <2>1, SumsLegacy
        <3> QED BY <2>2, <3>1
    <2> QED BY <2>3, SumsRight
<1>11. LimitsOK'
    <2>1. Calls \subseteq Events
        BY DEF Events, Callers
    <2>2. \A x \in Calls : event'[x] = event[x] /\ foreseen'[x] = foreseen[x]
        BY <1>2, <1>7, <2>1 DEF foreseen
    <2>3. \A x \in Calls : foreseen[x] <= foreseen[x]
        BY <1>1, ForeseenType
    <2>4. CallsStay
        BY <2>2, <2>3 DEF CallsStay
    <2> QED BY <1>1, <1>8, <2>4, LimitsStay
<1>12. LedgerTypes' /\ LegacyStays /\ CountersStay /\ RowsStay
    <2>1. Legacy \subseteq Events /\ Callers \subseteq Events
        BY DEF Events
    <2>2. LedgerTypes' /\ CountersStay
        BY <1>1, <1>3, <1>7 DEF TypeOK, LedgerTypes, CountersStay
    <2> QED BY <1>2, <1>7, <2>1, <2>2 DEF LegacyStays, RowsStay
<1>13. LedgerStep
    BY <1>8, <1>9, <1>10, <1>11, <1>12 DEF LedgerStep
<1>14. PlacesStay
    BY <1>3 DEF PlacesStay
<1>15. TypeOK'
    BY <1>1, <1>3, <1>12 DEF TypeOK, LedgerTypes, LegacyWrites, upkeep
<1> QED BY <1>3, <1>13, <1>14, <1>15, StepKeeps

\* The reconciliation reads.
LEMMA ReadsKeeps ==
    ASSUME IInv, NEW by \in Reconcilers, ReconcileReads(by)
    PROVE  IInv'
<1>1. TypeOK /\ EventsOK /\ CallersOK /\ SeenOK /\ CountersOK /\ LimitsOK /\ SumsMatchEvents
    BY DEF IInv
<1>2. /\ event' = event /\ counter' = counter /\ sums' = sums /\ backfill' = backfill
      /\ seen' = seen /\ tries' = tries /\ pc' = pc /\ day' = day
      /\ recovery' = recovery /\ reconciled' = reconciled
    BY DEF ReconcileReads, ledger, callers
<1>3. /\ recon'.by = by /\ recon'.since = day
      /\ recon'.drift = [p \in {q \in PeriodsOf(day) : counter[q] # Null} |->
                             Minus(counter[p], CountedBy(EventsOf(p)))]
    BY DEF ReconcileReads
<1>4. CountersOK'
    BY <1>1, <1>2, <1>3, CountersRead
<1>5. ReconOK'
    BY <1>1, <1>2, <1>3, PeriodsOfDay DEF ReconOK, TypeOK
<1>6. /\ \A p : EventsOf(p)' = EventsOf(p) /\ admitted(p)' = admitted(p)
      /\ held' = held /\ used' = used /\ foreseen' = foreseen /\ Ended' = Ended
      /\ \A e \in Ended : SumOf(e)' = SumOf(e)
    BY <1>2 DEF EventsOf, Written, admitted, held, used, foreseen, Ended, SumOf
<1>7. EventsOK' /\ CallersOK' /\ LegacyStays
    BY <1>1, <1>2, <1>6 DEF EventsOK, CallersOK, LegacyStays
<1>8. SeenOK'
    BY <1>1, <1>2, <1>7, SeenUntouched
<1>9. LimitsOK'
    <2>1. \A p : booked(p)' = booked(p)
        BY <1>2, <1>6 DEF booked
    <2> QED BY <1>1, <1>6, <2>1 DEF LimitsOK, Kept, holds
<1>10. SumsMatchEvents'
    <2> SUFFICES ASSUME ~backfill.repairNeeded PROVE SumsMatchEvents'
        BY <1>2 DEF SumsMatchEvents
    <2>1. PICK missed : SumsAre(missed)
        BY <1>1, SumsMatchAre
    <2>2. SumsStay
        BY <1>2, <1>6 DEF SumsStay
    <2>3. SumsAre(missed)'
        BY <1>1, <2>1, <2>2, SumsUntouched
    <2> QED BY <2>3, SumsRight
<1>11. TypeOK'
    BY <1>1, <1>2, <1>3 DEF TypeOK, Reconcilers
<1> QED BY <1>4, <1>5, <1>7, <1>8, <1>9, <1>10, <1>11 DEF IInv

\* The difference of two amounts is one.
LEMMA MinusType ==
    ASSUME NEW a \in Amounts, NEW b \in Amounts
    PROVE  Minus(a, b) \in Amounts
BY DEF Minus, Plus, Amounts

\* What the reconciliation corrects a counter to is an amount.
LEMMA CorrectedType ==
    ASSUME TypeOK, ReconOK, CountersOK, NEW p \in DOMAIN recon.drift
    PROVE  corrected(p) \in Amounts
<1>1. p \in Periods /\ counter[p] # Null /\ counter[p] \in Amounts
    BY DEF ReconOK, TypeOK
<1>2. PICK missed \in SUBSET (EventsOf(p) \cap Legacy) : Drifted(p, missed)
    BY <1>1 DEF CountersOK
<1>3. PICK late \in SUBSET missed : recon.drift[p] = Minus(Nothing, CountedBy(late))
    BY <1>2 DEF Drifted
<1>4. late \subseteq Events
    BY DEF Events
<1>5. Amount(held, late) \in Amounts
    BY <1>4, SomeEvents, AmountType
<1>6. recon.drift[p] \in Amounts
    BY <1>3, <1>5, MinusType DEF CountedBy, Amount, Nothing, Amounts
<1> QED BY <1>1, <1>6, MinusType DEF corrected

\* The reconciliation commits.
LEMMA CommitsKeeps ==
    ASSUME IInv, NEW by \in Reconcilers, ReconcileCommits(by)
    PROVE  IInv'
<1>1. TypeOK /\ EventsOK /\ CallersOK /\ SeenOK /\ ReconOK /\ CountersOK /\ LimitsOK /\ SumsMatchEvents
    BY DEF IInv
<1>2. /\ event' = event /\ seen' = seen /\ tries' = tries /\ pc' = pc /\ day' = day
      /\ recovery' = recovery /\ recon' = Idle
      /\ counter' = [p \in Periods |-> IF p \in DOMAIN recon.drift THEN corrected(p)
                                       ELSE counter[p]]
      /\ sums' = [s \in DOMAIN sums |-> IF s[1] >= comparedFrom(by, recon.since)
                                        THEN SummedBy({e \in Ended : SumOf(e) = s}) ELSE sums[s]]
    BY DEF ReconcileCommits, callers
<1>3. CountersOK'
    BY <1>1, <1>2, CountersCommit
<1>4. counter' \in [Periods -> Amounts \cup {Null}] /\ CountersStay
    <2>1. \A p \in DOMAIN recon.drift : corrected(p) \in Amounts /\ corrected(p) # Null
        BY <1>1, CorrectedType, NullIsNoAmount
    <2> QED BY <1>1, <1>2, <2>1 DEF TypeOK, CountersStay
<1>5. EventsOK' /\ LegacyStays /\ RowsStay /\ PlacesStay
    BY <1>1, <1>2 DEF EventsOK, LegacyStays, RowsStay, PlacesStay, held
<1>6. CallersOK' /\ SeenOK'
    BY <1>1, <1>2, <1>4, <1>5, CallersStay, SeenUntouched
<1>7. ReconOK'
    BY <1>2, UsageLedgerConstants DEF ReconOK, Idle, Days
<1>8. LimitsOK'
    <2>1. \A x \in Calls : event'[x] = event[x] /\ foreseen'[x] = foreseen[x]
        BY <1>2 DEF foreseen
    <2>2. \A x \in Calls : foreseen[x] <= foreseen[x]
        BY <1>1, ForeseenType
    <2>3. CallsStay
        BY <2>1, <2>2 DEF CallsStay
    <2> QED BY <1>1, <1>5, <2>3, LimitsStay
<1>9. PICK from : from = comparedFrom(by, recon.since)
    OBVIOUS
<1>10. from \in Int /\ (by = "repair" => from = 0)
    <2>1. \A d \in Int : MonthOf(d) * DaysPerMonth \in Int
        BY UsageLedgerConstants DEF MonthOf
    <2>2. recon.since \in Int /\ (reconciled # Null => reconciled \in Int)
        BY <1>1, UsageLedgerConstants DEF ReconOK, TypeOK, Days
    <2>3. reconciled # Null => (IF reconciled < recon.since THEN reconciled ELSE recon.since) - 1 \in Int
        BY <2>2
    <2> QED BY <1>9, <2>1, <2>3 DEF comparedFrom
<1>11. sums' = [s \in DOMAIN sums |-> IF s[1] >= from THEN SummedBy({e \in Ended : SumOf(e) = s})
                                      ELSE sums[s]]
    BY <1>2, <1>9
<1>12. SumsMatchEvents'
    <2>1. CASE by = "repair"
        <3>1. \A s \in DOMAIN sums : ~(s[1] < from)
            BY <1>1, <1>10, <2>1, UsageLedgerConstants DEF TypeOK, Days
        <3>2. SumsAre({})'
            BY <1>1, <1>2, <1>10, <1>11, <3>1, SumsCommit
        <3>3. PICK none : none = {}
            OBVIOUS
        <3>4. SumsAre(none)'
            BY <3>2, <3>3
        <3> QED BY <3>4, SumsRight
    <2>2. CASE by = "schedule"
        <3>1. backfill' = backfill
            BY <2>2 DEF ReconcileCommits
        <3> SUFFICES ASSUME ~backfill.repairNeeded PROVE SumsMatchEvents'
            BY <3>1 DEF SumsMatchEvents
        <3>2. PICK missed : SumsAre(missed)
            BY <1>1, SumsMatchAre
        <3>3. PICK still : still = {e \in missed : event[e].day < from}
            OBVIOUS
        <3>4. still \in SUBSET (Ended \cap Legacy) /\ \A e \in still : event[e].day < from
            BY <3>2, <3>3 DEF SumsAre
        <3>5. ASSUME NEW s \in DOMAIN sums, s[1] < from
              PROVE  sums[s] = SummedBy(Summed(s, still))
            <4>1. Summed(s, still) = Summed(s, missed)
                BY <3>3, <3>5 DEF Summed, SumOf
            <4> QED BY <3>2, <4>1 DEF SumsAre
        <3>6. SumsAre(still)'
            BY <1>1, <1>2, <1>10, <1>11, <3>4, <3>5, SumsCommit
        <3> QED BY <3>6, SumsRight
    <2> QED BY <2>1, <2>2 DEF Reconcilers
<1>13. sums' \in [Days \X Attribution -> Amounts]
    <2>1. ASSUME NEW s \in DOMAIN sums PROVE SummedBy({e \in Ended : SumOf(e) = s}) \in Amounts
        <3> DEFINE E == {e \in Ended : SumOf(e) = s}
        <3>1. E \subseteq Events
            BY DEF Ended, Written
        <3> HIDE DEF E
        <3>2. Amount(used, E) \in Amounts
            BY <1>1, <3>1, SomeEvents, AmountType
        <3> QED BY <3>2 DEF SummedBy, Amount, E
    <2> QED BY <1>1, <1>11, <2>1 DEF TypeOK
<1>14. TypeOK'
    <2>1. /\ recon'.by \in {Null, "schedule", "repair"} /\ reconciled' \in Days \cup {Null}
          /\ backfill' \in [after: SUBSET Legacy, changed: BOOLEAN, verifiedAt: Days \cup {Null},
                            repairNeeded: BOOLEAN]
        <3>1. recon'.by = Null
            BY <1>2 DEF Idle
        <3>2. CASE by = "schedule"
            BY <1>1, <3>1, <3>2 DEF ReconcileCommits, TypeOK, ReconOK
        <3>3. CASE by # "schedule"
            <4>1. backfill' = [backfill EXCEPT !.repairNeeded = FALSE] /\ reconciled' = reconciled
                BY <3>3 DEF ReconcileCommits
            <4>2. backfill' \in [after: SUBSET Legacy, changed: BOOLEAN,
                                 verifiedAt: Days \cup {Null}, repairNeeded: BOOLEAN]
                BY <1>1, <4>1 DEF TypeOK
            <4> QED BY <1>1, <3>1, <4>1, <4>2 DEF TypeOK
        <3> QED BY <3>2, <3>3
    <2> QED BY <1>1, <1>2, <1>4, <1>13, <2>1 DEF TypeOK
<1> QED BY <1>3, <1>5, <1>6, <1>7, <1>8, <1>12, <1>14 DEF IInv

-----------------------------------------------------------------------------
(* The theorems. *)

\* At first nothing is written, and no counter started.
LEMMA InitKeeps == Init => IInv
<1> SUFFICES ASSUME Init PROVE IInv
    OBVIOUS
<1>1. TypeOK
    <2>1. 0 \in Days /\ 0 \in Nat /\ 0 \in 0..3
        BY UsageLedgerConstants DEF Days
    <2>2. event \in [Events -> Event]
        BY <2>1 DEF Init, Event, Attribution
    <2>3. sums \in [Days \X Attribution -> Amounts]
        BY DEF Init, Amounts, Nothing
    <2>4. recon.by = Null
        BY DEF Init, Idle
    <2> QED BY <2>1, <2>2, <2>3, <2>4 DEF TypeOK, Init
<1>2. Written = {} /\ Ended = {} /\ \A p : EventsOf(p) = {}
    BY DEF Written, Ended, EventsOf, Init
<1>3. EventsOK
    BY DEF EventsOK, Init, Events
<1>4. CallersOK
    BY DEF CallersOK, Init, Events
<1>5. SeenOK
    BY DEF SeenOK, Init
<1>6. ReconOK
    BY UsageLedgerConstants DEF ReconOK, Init, Idle, Days
<1>7. CountersOK
    BY DEF CountersOK, Init
<1>8. SumsMatchEvents
    <2>1. \A s \in DOMAIN sums : Summed(s, {}) = {} /\ sums[s] = Nothing
        BY <1>2 DEF Summed, Init
    <2>2. SummedBy({}) = Nothing
        BY SumEmpty, FS_EmptySet DEF SummedBy, Nothing
    <2>3. SumsAre({})
        BY <2>1, <2>2 DEF SumsAre
    <2> QED BY <2>3, SumsMatchAre
<1>9. LimitsOK
    <2> SUFFICES ASSUME NEW p \in Periods PROVE Kept(p)
        BY DEF LimitsOK
    <2>1. admitted(p) = {} /\ Cardinality(admitted(p)) = 0
        BY <1>2, FS_EmptySet DEF admitted
    <2>2. booked(p) = 0
        <3>1. {c \in admitted(p) : ~event[c].released} = {}
            BY <2>1
        <3> QED BY <3>1, SumEmpty DEF booked
    <2>3. \A limit \in Limit : holds(limit, 0)
        BY DEF Limit, holds
    <2> QED BY <2>1, <2>2, <2>3, UsageLedgerConstants DEF Kept
<1> QED BY <1>1, <1>3, <1>4, <1>5, <1>6, <1>7, <1>8, <1>9 DEF IInv

\* Every step keeps the invariant.
LEMMA NextKeeps == IInv /\ [Next]_vars => IInv'
<1> SUFFICES ASSUME IInv, [Next]_vars PROVE IInv'
    OBVIOUS
<1>1. ASSUME NEW c \in Callers, Call(c) PROVE IInv'
    BY <1>1, StartReadsKeeps, StartInsertsKeeps, AdmitKeeps, SettleKeeps, AppendKeeps DEF Call
<1>2. ASSUME NEW e \in Legacy, NEW tokens \in Uses, NEW a \in Attribution, LegacyWrites(e, tokens, a)
      PROVE  IInv'
    BY <1>2, LegacyKeeps
<1>3. CASE Recovery
    BY <1>3, AgeKeeps, ReleaseKeeps, UpkeepKeeps DEF Recovery
<1>4. ASSUME NEW by \in Reconcilers, ReconcileReads(by) \/ ReconcileCommits(by) PROVE IInv'
    BY <1>4, ReadsKeeps, CommitsKeeps
<1>5. CASE Backfill
    BY <1>5, UpkeepKeeps, BatchKeeps DEF Backfill
<1>6. CASE ClockTick
    BY <1>6, UpkeepKeeps
<1>7. CASE UNCHANGED vars
    <2>1. /\ event' = event /\ counter' = counter /\ sums' = sums /\ recon' = recon
          /\ backfill' = backfill /\ seen' = seen /\ tries' = tries /\ pc' = pc
          /\ day' = day /\ recovery' = recovery /\ reconciled' = reconciled
        BY <1>7 DEF vars
    <2>2. LedgerStep
        BY <2>1, LedgerUntouched
    <2>3. PlacesStay /\ TypeOK'
        BY <2>1 DEF PlacesStay, TypeOK, IInv
    <2> QED BY <2>1, <2>2, <2>3, StepKeeps
<1> QED BY <1>1, <1>2, <1>3, <1>4, <1>5, <1>6, <1>7 DEF Next

\* The invariant holds in every reachable state.
THEOREM Invariance == Spec => []IInv
<1>1. IInv /\ [Next]_vars => IInv'
    BY NextKeeps
<1>2. Init => IInv
    BY InitKeeps
<1> QED BY <1>1, <1>2, PTL DEF Spec

\* Counters, sums and limits mean what they are read as: amounts and counts are numbers of their
\* kinds in every state (model_usage_counters, model_usage_daily_rollups).
THEOREM TypeCorrect == Spec => []TypeOK
<1>1. IInv => TypeOK
    BY DEF IInv
<1> QED BY <1>1, Invariance, PTL

\* What limits are judged by and what is shown agree with the events: each counter holds the events
\* of its period, each sum the ended events of its day, and what either may lack was written by a
\* process of the previous release.
THEOREM LedgerAgrees == Spec => []LedgerMatchesEvents
<1>1. IInv => LedgerMatchesEvents
    BY DEF IInv, CountersOK, LedgerMatchesEvents, CountersMatchEvents
<1> QED BY <1>1, Invariance, PTL

\* However many processes admit calls at once, a day and a month never hold more than their limits by
\* what admission knew.
THEOREM LimitsHold == Spec => []NeverOverbooked
<1>1. IInv => NeverOverbooked
    <2> SUFFICES ASSUME IInv, NEW d \in Days
                 PROVE  /\ holds(CallsPerDay, Cardinality(admitted(<<"day", d>>)))
                        /\ holds(TokensPerDay, booked(<<"day", d>>))
                        /\ holds(TokensPerMonth, booked(<<"month", MonthOf(d)>>))
        BY DEF NeverOverbooked
    <2>1. <<"day", d>> \in Periods /\ <<"month", MonthOf(d)>> \in Periods
        BY DEF Periods
    <2>2. Kept(<<"day", d>>) /\ Kept(<<"month", MonthOf(d)>>)
        BY <2>1 DEF IInv, LimitsOK
    <2> QED BY <2>2 DEF Kept
<1> QED BY <1>1, Invariance, PTL

\* A step leaves a settled or failed event as it is, but for the attribution the backfill fills in.
LEMMA FinalStep ==
    ASSUME IInv, [Next]_vars, NEW e \in Events, event[e].status \in {"settled", "failed"}
    PROVE  event'[e] = event[e] \/ event'[e] = filled(event[e])
<1>1. TypeOK /\ CallersOK
    BY DEF IInv
<1>2. ASSUME NEW c \in Callers, Call(c) PROVE event'[e] = event[e]
    <2>1. CASE StartCountersReads(c)
        BY <2>1 DEF StartCountersReads, ledger
    <2>2. CASE StartCountersInserts(c)
        BY <2>2 DEF StartCountersInserts
    <2>3. CASE AdmitModelUsageEvent(c)
        <3>1. event[c].status = "none"
            BY <1>1, <2>3 DEF AdmitModelUsageEvent, CallersOK
        <3> QED BY <1>1, <2>3, <3>1 DEF AdmitModelUsageEvent, Insert, TypeOK
    <2>4. CASE SettleModelCall(c)
        BY <1>1, <2>4 DEF SettleModelCall, SettleModelUsageEvent, settlesFrom, ledger, TypeOK
    <2>5. ASSUME NEW tokens \in Uses, AppendModelUsageEvent(c, tokens) PROVE event'[e] = event[e]
        <3>1. event[c].status = "none"
            BY <1>1, <2>5 DEF AppendModelUsageEvent, CallersOK
        <3> QED BY <1>1, <2>5, <3>1 DEF AppendModelUsageEvent, Insert, TypeOK
    <2> QED BY <1>2, <2>1, <2>2, <2>3, <2>4, <2>5 DEF Call
<1>3. ASSUME NEW l \in Legacy, NEW tokens \in Uses, NEW a \in Attribution,
             LegacyWrites(l, tokens, a)
      PROVE  event'[e] = event[e]
    BY <1>1, <1>3 DEF LegacyWrites, Insert, TypeOK
<1>4. CASE Recovery
    <2>1. ASSUME NEW c \in Calls, Age(c) PROVE event'[e] = event[e]
        BY <1>1, <2>1 DEF Age, TypeOK
    <2>2. ASSUME NEW c \in Calls, ReleaseAbandonedModelCall(c) PROVE event'[e] = event[e]
        BY <1>1, <2>2 DEF ReleaseAbandonedModelCall, SettleModelUsageEvent, releasesFrom, ledger, TypeOK
    <2>3. CASE ListPendingModelUsageEvents
        BY <2>3 DEF ListPendingModelUsageEvents, ledger
    <2> QED BY <1>4, <2>1, <2>2, <2>3 DEF Recovery
<1>5. ASSUME NEW by \in Reconcilers, ReconcileReads(by) \/ ReconcileCommits(by)
      PROVE  event'[e] = event[e]
    BY <1>5 DEF ReconcileReads, ReconcileCommits, ledger
<1>6. CASE Backfill
    <2>1. ASSUME NEW l \in Legacy, BackfillBatch(l)
          PROVE  event'[e] = event[e] \/ event'[e] = filled(event[e])
        BY <1>1, <2>1 DEF BackfillBatch, TypeOK
    <2>2. CASE BackfillPassEnds
        BY <2>2 DEF BackfillPassEnds, ledger
    <2> QED BY <1>6, <2>1, <2>2 DEF Backfill
<1>7. CASE ClockTick
    BY <1>7 DEF ClockTick, ledger
<1>8. CASE UNCHANGED vars
    BY <1>8 DEF vars
<1> QED BY <1>2, <1>3, <1>4, <1>5, <1>6, <1>7, <1>8 DEF Next

\* What a call was settled with stands: no later settlement, and no recovery that had listed the call
\* before, changes its row (settleModelUsageEvent).
THEOREM SettledStands == Spec => SettledIsFinal
<1>1. ASSUME IInv, [Next]_vars
      PROVE  \A e \in Events : event[e].status \in {"settled", "failed"} =>
                 [event'[e] EXCEPT !.attribution = "named"] = [event[e] EXCEPT !.attribution = "named"]
    <2> SUFFICES ASSUME NEW e \in Events, event[e].status \in {"settled", "failed"}
                 PROVE  [event'[e] EXCEPT !.attribution = "named"] =
                            [event[e] EXCEPT !.attribution = "named"]
        OBVIOUS
    <2>1. event'[e] = event[e] \/ event'[e] = filled(event[e])
        BY <1>1, FinalStep
    <2>2. event[e] \in Event
        BY <1>1 DEF IInv, TypeOK
    <2>3. [filled(event[e]) EXCEPT !.attribution = "named"] = [event[e] EXCEPT !.attribution = "named"]
        BY <2>2 DEF filled, Event
    <2> QED BY <2>1, <2>3
<1> QED BY <1>1, Invariance, PTL DEF Spec, SettledIsFinal

=============================================================================
