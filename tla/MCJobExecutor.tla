--------------------------- MODULE MCJobExecutor ---------------------------
(* Instances of JobExecutor for TLC. *)
EXTENDS JobExecutor, TLC

CONSTANTS j1, j2, j3, r1, r2, r3, w1, w2, work, tick, sole, key1, key2, group1

Uniform(n) == [k \in Kinds |-> n]
TwoAttempts == [k \in Kinds |-> IF k \in Scheduled THEN 1 ELSE 2]
UniformSlots(n) == [w \in Workers |-> Uniform(n)]
Ones == Uniform(1)
Twos == Uniform(2)
\* One of `sole' runs at a time; of `work' two, but one under a concurrency key (job-kinds.ts).
SoleAndWork == [k \in Kinds |-> IF k = sole THEN 1 ELSE 2]
OneSlot == UniformSlots(1)
TwoSlots == UniformSlots(2)
SoleAndWorkSlots == [w \in Workers |-> SoleAndWork]
BurialBeside == [w \in Workers |-> Uniform(IF w = w1 THEN 1 ELSE 0)]
OneTick == [k \in Scheduled |-> 1]

Request(k, key, group) == [kind |-> k, key |-> key, group |-> group, delay |-> 0]
PlainWork == {Request(work, key, Null) : key \in Keys \cup {Null}}
SoleKeysAndGroupWork ==
    {Request(sole, key, Null) : key \in Keys} \cup {Request(work, Null, group1)}

Symmetry == Permutations(Jobs) \cup Permutations(Runs) \cup Permutations(Workers)
SymmetryKeys == Symmetry \cup Permutations(Keys)
=============================================================================
