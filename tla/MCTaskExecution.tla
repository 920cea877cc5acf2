--------------------------- MODULE MCTaskExecution ---------------------------
(* Small instances of TaskExecution: tasks 1 and 2, accounts a1 and a2. *)
EXTENDS TaskExecution, TLC

CONSTANTS a1, a2, k1, k2, w1, w2

OneKey == [t \in Tasks |-> k1]
OwnKey == [t \in Tasks |-> IF t = 1 THEN k1 ELSE k2]
Ones == [a \in Accounts |-> 1]
Twos == [a \in Accounts |-> 2]
Zeros == [a \in Accounts |-> 0]
KeyOnes == [k \in Keys |-> 1]
KeyTwos == [k \in Keys |-> 2]

WorkerSymmetry == Permutations(Workers)

=============================================================================
