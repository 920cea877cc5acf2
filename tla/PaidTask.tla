------------------------------- MODULE PaidTask --------------------------------
(***************************************************************************)
(* What the gateway promises about a paid task, without queues, leases and *)
(* workers: at most one generation is bought for it, its credits are held  *)
(* as long as it is open, charged for a complete generation only, and      *)
(* given back only if nothing was or will be bought, if the provider says  *)
(* that the generation failed, or if an administrator decides so.          *)
(***************************************************************************)
CONSTANT Tasks

VARIABLE life   \* of each task: what the client sees, its credits, what was bought

Life == [state : {"absent", "open", "uncertain", "writtenOff", "failed", "cancelled", "succeeded"},
         credits : {"none", "held", "consumed", "released"},
         bought : {"none", "running", "complete", "failed"}]

NewLife == [state |-> "absent", credits |-> "none", bought |-> "none"]

Admitted(l) == IF l = NewLife THEN {[l EXCEPT !.state = "open", !.credits = "held"]} ELSE {}

\* A worker whose call is prepared makes it even if the task was given up
\* meanwhile; after any other end nobody calls.
Bought(l) ==
    IF l.state \in {"open", "uncertain", "writtenOff"} /\ l.bought = "none"
    THEN {[l EXCEPT !.bought = "running"]} ELSE {}

Finished(l) ==
    IF l.bought = "running" THEN {[l EXCEPT !.bought = "complete"], [l EXCEPT !.bought = "failed"]} ELSE {}

Ended(l) ==
    CASE l.state # "open" -> {}
      [] l.bought = "complete" -> {[l EXCEPT !.state = "succeeded", !.credits = "consumed"]}
      [] l.bought = "failed" -> {[l EXCEPT !.state = "failed", !.credits = "released"]}
      [] l.bought = "none" -> {[l EXCEPT !.state = s, !.credits = "released"] : s \in {"failed", "cancelled"}}
      [] OTHER -> {}

Doubted(l) == IF l.state = "open" THEN {[l EXCEPT !.state = "uncertain"]} ELSE {}

\* The administrator gives the credits back, or declares that nothing was created.
Decided(l) ==
    IF l.state = "uncertain"
    THEN {[l EXCEPT !.credits = "released"], [l EXCEPT !.state = "writtenOff", !.credits = "released"]}
    ELSE {}

Moves(l) == Admitted(l) \cup Bought(l) \cup Finished(l) \cup Ended(l) \cup Doubted(l) \cup Decided(l)

PaidInit == life = [t \in Tasks |-> NewLife]

\* One transaction may move several tasks, each by one move.
PaidNext ==
    /\ life' \in [Tasks -> Life]
    /\ \A t \in Tasks : life'[t] = life[t] \/ life'[t] \in Moves(life[t])

PaidSpec == PaidInit /\ [][PaidNext]_life

=============================================================================
