----------------------------- MODULE MCAdmission -----------------------------
(* Small instances of Admission: up to three requests, two accounts, one or  *)
(* two API keys.                                                             *)
EXTENDS Admission

CONSTANTS a1, a2, k1, k2, i1, i2, i3

OneKey == [t \in Tasks |-> k1]
SecondKey == [t \in Tasks |-> IF t = 2 THEN k2 ELSE k1]
OwnIdem == [t \in Tasks |-> IF t = 1 THEN i1 ELSE IF t = 2 THEN i2 ELSE i3]
SharedIdem == [t \in Tasks |-> IF t = 2 THEN i2 ELSE i1]
Zeros == [a \in Accounts |-> 0]
Ones == [a \in Accounts |-> 1]
Twos == [a \in Accounts |-> 2]
Tens == [a \in Accounts |-> 10]
TwoAndOne == [a \in Accounts |-> IF a = a1 THEN 2 ELSE 1]
KeyOnes == [k \in Keys |-> 1]
KeyTwos == [k \in Keys |-> 2]
CostOnes == [t \in Tasks |-> 1]

=============================================================================
