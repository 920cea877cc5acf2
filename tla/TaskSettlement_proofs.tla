------------------------ MODULE TaskSettlement_proofs ------------------------
(***************************************************************************)
(* Proofs about the settlement of a task with its credits and with what    *)
(* the provider did: the safety invariants of TaskExecution that concern   *)
(* money and lost work, the rule that only the holder of a live lease      *)
(* moves a task, the refinement of PaidTask, and at the end the order      *)
(* among an idle account's waiting tasks.                                  *)
(*                                                                         *)
(* Every step is described task by task: how a row, its reservation, its   *)
(* outbox row and the provider's record of it change together.             *)
(***************************************************************************)
EXTENDS TaskExecution_proofs, FiniteSetTheorems, WellFoundedInduction

\* The groups of a worker's program points are expanded everywhere.
USE DEF BeforeRecord, KnowsGeneration, Poll

Open == Executing \cup {"queued"}

\* What SettlementInv says of one task, of the values r, s, o and p of its row,
\* its reservation, its outbox row and the provider's record.
Settled(r, s, o, p) ==
    /\ r.live => r.lease # 0
    /\ r.status = "absent" => s.state = "none"
    /\ r.status \in Open => s.state = "held" /\ s.account = r.account
    /\ r.status \in Open /\ r.lease = 0 =>
         o \in {"due", "delayed"} /\ (r.status = "queued" \/ r.gen # 0)
    /\ r.status \in {"failed", "cancelled"} => s.state = "released"
    /\ r.status = "succeeded" => s.state = "consumed"
    /\ r.status = "submission_uncertain" =>
         s.state = "held" \/ (s.state = "released" /\ s.reason = "manual")
    /\ r.gen # 0 => p.state # "none"
    /\ p.calls = 0 => p.state = "none"
    /\ s.state = "consumed" => p.state = "complete"
    /\ s.state = "released" /\ s.reason \in {"unsubmitted", "rejected"} => p.state = "none"
    /\ s.state = "released" /\ s.reason = "upstream_failed" => p.state = "failed"

MayBeCalled(r, s) ==
    \/ r.status \in {"submitted", "submission_uncertain"}
    \/ r.status = "failed" /\ s.reason \in {"not_created", "manual"}

\* LifeOf, of the same values.
LifeState(r, s) ==
    CASE r.status \in Executing \cup {"queued"} -> "open"
      [] r.status = "submission_uncertain" -> "uncertain"
      [] r.status = "failed" /\ s.reason \in {"not_created", "manual"} -> "writtenOff"
      [] OTHER -> r.status

LifeVal(r, s, p) == [state |-> LifeState(r, s), credits |-> s.state, bought |-> p.state]

\* A move of one task: it stays settled, what workers know of it stays true, and
\* PaidTask allows it.
TaskMove(r, s, p, r2, s2, o2, p2) ==
    /\ Settled(r2, s2, o2, p2)
    /\ r2.lease # 0 /\ r2.lease = r.lease => r2.account = r.account
    /\ p.calls = 0 /\ MayBeCalled(r, s) => MayBeCalled(r2, s2)
    /\ p2.state = "none" <=> p.state = "none"
    /\ p.state \in {"complete", "failed"} => p2.state = p.state
    /\ \/ LifeVal(r2, s2, p2) = LifeVal(r, s, p)
       \/ LifeVal(r2, s2, p2) \in Paid!Moves(LifeVal(r, s, p))

-----------------------------------------------------------------------------
(* The moves of one task. *)

\* The state of a task's life, by its status.
LEMMA LifeStates ==
    ASSUME NEW r, NEW s
    PROVE  /\ r.status \in Open => LifeState(r, s) = "open"
           /\ r.status = "submission_uncertain" => LifeState(r, s) = "uncertain"
           /\ r.status = "failed" /\ s.reason \in {"not_created", "manual"} =>
                LifeState(r, s) = "writtenOff"
           /\ r.status = "failed" /\ s.reason \notin {"not_created", "manual"} =>
                LifeState(r, s) = "failed"
           /\ r.status \in {"absent", "cancelled", "succeeded"} => LifeState(r, s) = r.status
BY DEF LifeState, Open, Executing

\* LifeVal is a life.
LEMMA LifeType ==
    ASSUME NEW r \in TaskRow, NEW s \in ResRow, NEW p \in ProviderState
    PROVE  /\ LifeVal(r, s, p) \in Paid!Life
           /\ LifeVal(r, s, p).state = LifeState(r, s)
           /\ LifeVal(r, s, p).credits = s.state
           /\ LifeVal(r, s, p).bought = p.state
<1>1. r.status \in Status
  BY DEF TaskRow
<1>2. LifeState(r, s) \in {"absent", "open", "uncertain", "writtenOff", "failed", "cancelled", "succeeded"}
  BY <1>1, LifeStates DEF Status, Terminal, Open
<1> QED BY <1>2 DEF LifeVal, Paid!Life, ResRow, ProviderState

\* A task that keeps its status, credits and generation, and at most loses its
\* lease's time or is woken.
LEMMA SameMove ==
    ASSUME NEW r \in TaskRow, NEW s \in ResRow, NEW o, NEW p \in ProviderState,
           NEW r2 \in TaskRow, NEW s2 \in ResRow, NEW o2, NEW p2 \in ProviderState,
           Settled(r, s, o, p), p2 = p, r2.live => r.live,
           r2.status = r.status, r2.account = r.account, r2.gen = r.gen, r2.lease = r.lease,
           s2.state = s.state, s2.account = s.account, s2.reason = s.reason,
           r.status \in Open => o2 = o \/ o2 \in {"due", "delayed"}
    PROVE  TaskMove(r, s, p, r2, s2, o2, p2)
<1>1. Settled(r2, s2, o2, p2)
  BY DEF Settled
<1>2. LifeVal(r2, s2, p2) = LifeVal(r, s, p)
  BY DEF LifeVal, LifeState
<1> QED BY <1>1, <1>2 DEF TaskMove, MayBeCalled

\* An open task stays open, on the account of its reservation.
LEMMA OpenMove ==
    ASSUME NEW r \in TaskRow, NEW s \in ResRow, NEW o, NEW p \in ProviderState,
           NEW r2 \in TaskRow, NEW s2 \in ResRow, NEW o2, NEW p2 \in ProviderState,
           Settled(r, s, o, p), p2 = p, r.status \in Open, r2.status \in Open,
           r2.live => r2.lease # 0,
           r2.gen # 0 => p.state # "none",
           r2.lease = 0 => o2 \in {"due", "delayed"} /\ (r2.status = "queued" \/ r2.gen # 0),
           s2.state = s.state, s2.account = r2.account,
           r2.lease # 0 /\ r2.lease = r.lease => r2.account = r.account,
           p.calls = 0 /\ r.status = "submitted" => r2.status = "submitted"
    PROVE  TaskMove(r, s, p, r2, s2, o2, p2)
<1>1. Settled(r2, s2, o2, p2)
  BY DEF Settled, Open, Executing
<1>2. LifeVal(r2, s2, p2) = LifeVal(r, s, p)
  BY LifeStates DEF LifeVal
<1>3. p.calls = 0 /\ MayBeCalled(r, s) => MayBeCalled(r2, s2)
  BY DEF MayBeCalled, Open, Executing
<1> QED BY <1>1, <1>2, <1>3 DEF TaskMove

\* An open task becomes uncertain and keeps its credits held.
LEMMA DoubtMove ==
    ASSUME NEW r \in TaskRow, NEW s \in ResRow, NEW o, NEW p \in ProviderState,
           NEW r2 \in TaskRow, NEW s2 \in ResRow, NEW o2, NEW p2 \in ProviderState,
           Settled(r, s, o, p), p2 = p, r.status \in Open,
           r2.status = "submission_uncertain", r2.lease = 0, ~r2.live, r2.gen = r.gen,
           s2.state = s.state
    PROVE  TaskMove(r, s, p, r2, s2, o2, p2)
<1>1. Settled(r2, s2, o2, p2)
  BY DEF Settled, Open, Executing
<1>2. LifeVal(r2, s2, p2) \in Paid!Doubted(LifeVal(r, s, p))
  <2> DEFINE l == LifeVal(r, s, p)
             m == LifeVal(r2, s2, p2)
  <2>1. /\ l \in Paid!Life /\ m \in Paid!Life /\ l.state = "open"
        /\ m.state = "uncertain" /\ m.credits = l.credits /\ m.bought = l.bought
    BY LifeStates, LifeType
  <2>2. m \in Paid!Doubted(l)
    <3> HIDE DEF l, m
    <3>1. m = [l EXCEPT !.state = "uncertain"]
      BY <2>1 DEF Paid!Life
    <3> QED BY <2>1, <3>1 DEF Paid!Doubted
  <2> QED BY <2>2
<1> QED BY <1>1, <1>2 DEF TaskMove, MayBeCalled, Paid!Moves

\* An open task ends: nothing was bought, the generation failed, or it is complete.
LEMMA EndMove ==
    ASSUME NEW r \in TaskRow, NEW s \in ResRow, NEW o, NEW p \in ProviderState,
           NEW r2 \in TaskRow, NEW s2 \in ResRow, NEW o2, NEW p2 \in ProviderState,
           Settled(r, s, o, p), p2 = p, r.status \in Open,
           r2.lease = 0, ~r2.live, r2.gen # 0 => p.state # "none",
           p.calls = 0 => r.status \in {"queued", "reserving", "uploading", "polling"},
           \/ /\ p.state = "none" /\ r2.status \in {"failed", "cancelled"}
              /\ s2.state = "released" /\ s2.reason \in {"unsubmitted", "rejected"}
           \/ /\ p.state = "failed" /\ r2.status = "failed"
              /\ s2.state = "released" /\ s2.reason = "upstream_failed"
           \/ /\ p.state = "complete" /\ r2.status = "succeeded"
              /\ s2.state = "consumed"
    PROVE  TaskMove(r, s, p, r2, s2, o2, p2)
<1>1. Settled(r2, s2, o2, p2)
  BY DEF Settled, Open, Executing
<1>2. LifeVal(r2, s2, p2) \in Paid!Ended(LifeVal(r, s, p))
  <2> DEFINE l == LifeVal(r, s, p)
             m == LifeVal(r2, s2, p2)
  <2>1. /\ l \in Paid!Life /\ m \in Paid!Life /\ l.state = "open" /\ l.bought = p.state
        /\ m.state = r2.status /\ m.credits = s2.state /\ m.bought = p.state
    BY LifeStates, LifeType
  <2>2. m \in Paid!Ended(l)
    <3> HIDE DEF l, m
    <3>1. m = [l EXCEPT !.state = m.state, !.credits = m.credits]
      BY <2>1 DEF Paid!Life
    <3>2. Paid!Ended(l) =
            IF p.state = "complete" THEN {[l EXCEPT !.state = "succeeded", !.credits = "consumed"]}
            ELSE IF p.state = "failed" THEN {[l EXCEPT !.state = "failed", !.credits = "released"]}
            ELSE IF p.state = "none"
                   THEN {[l EXCEPT !.state = x, !.credits = "released"] : x \in {"failed", "cancelled"}}
            ELSE {}
      BY <2>1 DEF Paid!Ended
    <3>3. CASE p.state = "none"
      <4>1. m.state \in {"failed", "cancelled"} /\ m.credits = "released"
        BY <2>1, <3>3
      <4>2. m = [l EXCEPT !.state = m.state, !.credits = "released"]
        BY <3>1, <4>1
      <4>3. Paid!Ended(l) =
              {[l EXCEPT !.state = x, !.credits = "released"] : x \in {"failed", "cancelled"}}
        BY <3>2, <3>3
      <4> QED BY <4>1, <4>2, <4>3, Zenon
    <3>4. CASE p.state = "failed"
      <4>1. m = [l EXCEPT !.state = "failed", !.credits = "released"]
        BY <2>1, <3>1, <3>4
      <4> QED BY <3>2, <3>4, <4>1
    <3>5. CASE p.state = "complete"
      <4>1. m = [l EXCEPT !.state = "succeeded", !.credits = "consumed"]
        BY <2>1, <3>1, <3>5
      <4> QED BY <3>2, <3>5, <4>1
    <3> QED BY <3>3, <3>4, <3>5
  <2> QED BY <2>2
<1>3. p.calls = 0 => ~MayBeCalled(r, s)
  BY DEF MayBeCalled, Open, Executing
<1> QED BY <1>1, <1>2, <1>3 DEF TaskMove, Paid!Moves

\* A new task is admitted with its credits held.
LEMMA AdmitMove ==
    ASSUME NEW r \in TaskRow, NEW s \in ResRow, NEW o, NEW p \in ProviderState,
           NEW r2 \in TaskRow, NEW s2 \in ResRow, NEW o2, NEW p2 \in ProviderState,
           Settled(r, s, o, p), p2 = p, r.status = "absent", p.calls = 0,
           r2.status = "queued", ~r2.live, r2.gen = r.gen, o2 = "due",
           s2.state = "held", s2.account = r2.account,
           r2.lease # 0 /\ r2.lease = r.lease => r2.account = r.account
    PROVE  TaskMove(r, s, p, r2, s2, o2, p2)
<1>1. Settled(r2, s2, o2, p2)
  BY DEF Settled, Open, Executing
<1>2. LifeVal(r2, s2, p2) \in Paid!Admitted(LifeVal(r, s, p))
  <2> DEFINE l == LifeVal(r, s, p)
             m == LifeVal(r2, s2, p2)
  <2>1. /\ l \in Paid!Life /\ m \in Paid!Life
        /\ l.state = "absent" /\ l.credits = "none" /\ l.bought = "none"
        /\ m.state = "open" /\ m.credits = "held" /\ m.bought = l.bought
    BY LifeStates, LifeType DEF Settled, Open
  <2>2. m \in Paid!Admitted(l)
    <3> HIDE DEF l, m
    <3>1. l = Paid!NewLife /\ m = [l EXCEPT !.state = "open", !.credits = "held"]
      BY <2>1 DEF Paid!Life, Paid!NewLife
    <3> QED BY <3>1 DEF Paid!Admitted
  <2> QED BY <2>2
<1> QED BY <1>1, <1>2 DEF TaskMove, MayBeCalled, Paid!Moves

\* The administrator decides about an uncertain task.
LEMMA DecideMove ==
    ASSUME NEW r \in TaskRow, NEW s \in ResRow, NEW o, NEW p \in ProviderState,
           NEW r2 \in TaskRow, NEW s2 \in ResRow, NEW o2, NEW p2 \in ProviderState,
           Settled(r, s, o, p), p2 = p, r.status = "submission_uncertain",
           r2.lease = 0, ~r2.live, r2.gen = r.gen, s2.state = "released",
           \/ r2.status = "failed" /\ s2.reason \in {"not_created", "manual"}
           \/ r2.status = "submission_uncertain" /\ s2.reason = "manual"
    PROVE  TaskMove(r, s, p, r2, s2, o2, p2)
<1>1. Settled(r2, s2, o2, p2)
  BY DEF Settled, Open, Executing
<1>2. LifeVal(r2, s2, p2) \in Paid!Decided(LifeVal(r, s, p))
  <2> DEFINE l == LifeVal(r, s, p)
             m == LifeVal(r2, s2, p2)
  <2>1. /\ l \in Paid!Life /\ m \in Paid!Life /\ l.state = "uncertain"
        /\ m.state \in {"uncertain", "writtenOff"} /\ m.credits = "released" /\ m.bought = l.bought
    BY LifeStates, LifeType
  <2>2. m \in Paid!Decided(l)
    <3> HIDE DEF l, m
    <3>1. \/ m = [l EXCEPT !.credits = "released"]
          \/ m = [l EXCEPT !.state = "writtenOff", !.credits = "released"]
      BY <2>1 DEF Paid!Life
    <3> QED BY <2>1, <3>1 DEF Paid!Decided
  <2> QED BY <2>2
<1> QED BY <1>1, <1>2 DEF TaskMove, MayBeCalled, Paid!Moves

\* The provider finishes a generation.
LEMMA FinishMove ==
    ASSUME NEW r \in TaskRow, NEW s \in ResRow, NEW o, NEW p \in ProviderState,
           NEW p2 \in ProviderState,
           Settled(r, s, o, p), p.state = "running", p2.state \in {"complete", "failed"},
           p2.calls = p.calls
    PROVE  TaskMove(r, s, p, r, s, o, p2)
<1>1. Settled(r, s, o, p2)
  BY DEF Settled
<1>2. LifeVal(r, s, p2) \in Paid!Finished(LifeVal(r, s, p))
  <2> DEFINE l == LifeVal(r, s, p)
             m == LifeVal(r, s, p2)
  <2>1. /\ l \in Paid!Life /\ m \in Paid!Life /\ l.bought = "running"
        /\ m.state = l.state /\ m.credits = l.credits /\ m.bought \in {"complete", "failed"}
    BY LifeType
  <2>2. m \in Paid!Finished(l)
    <3> HIDE DEF l, m
    <3>1. m = [l EXCEPT !.bought = "complete"] \/ m = [l EXCEPT !.bought = "failed"]
      BY <2>1 DEF Paid!Life
    <3> QED BY <2>1, <3>1 DEF Paid!Finished
  <2> QED BY <2>2
<1> QED BY <1>1, <1>2 DEF TaskMove, Paid!Moves

-----------------------------------------------------------------------------
(* Steps, task by task. *)

\* What a step does to one task, and that it takes no new lease.
Moved(t) ==
    /\ TaskMove(task[t], res[t], up[t], task'[t], res'[t], outbox'[t], up'[t])
    /\ task'[t].lease \in {0, task[t].lease}

\* OnlyLeaseHolderWrites, of one task.
HolderWrites(t) ==
    task[t].live /\ Written(t)' # Written(t) =>
      \/ /\ task[t].upstreamLate /\ task[t].gen # 0
         /\ task'[t].status = "submission_uncertain" /\ res'[t] = res[t]
      \/ \E w \in Workers : /\ worker[w].task = t /\ worker[w].lease = task[t].lease
                             /\ worker'[w] # worker[w]

LifeMoves(t) ==
    \/ LifeOf(t)' = LifeOf(t)
    \/ LifeOf(t)' \in Paid!Moves(LifeOf(t))

RowsSettle == \A t \in Tasks : Moved(t) /\ HolderWrites(t)

\* What every step must do.
StepSettles ==
    /\ SettlementInv'
    /\ \A t \in Tasks : LifeMoves(t) /\ HolderWrites(t)

\* The types of one task's rows.
LEMMA TaskTypes ==
    ASSUME SubmissionInv, NEW t \in Tasks
    PROVE  /\ task[t] \in TaskRow /\ res[t] \in ResRow /\ up[t] \in ProviderState
           /\ task \in [Tasks -> TaskRow] /\ res \in [Tasks -> ResRow]
           /\ outbox \in [Tasks -> OutboxRow] /\ up \in [Tasks -> ProviderState]
BY DEF SubmissionInv, TypeOK, TablesTypeOK

\* The same of the next state.
LEMMA NextTaskTypes ==
    ASSUME SubmissionInv', NEW t \in Tasks
    PROVE  task'[t] \in TaskRow /\ res'[t] \in ResRow /\ up'[t] \in ProviderState
BY DEF SubmissionInv, TypeOK, TablesTypeOK

\* SettlementInv says Settled of every task.
LEMMA TasksSettled ==
    ASSUME SettlementInv, NEW t \in Tasks
    PROVE  Settled(task[t], res[t], outbox[t], up[t])
BY DEF SettlementInv, CreditsFollowGeneration, SettledWithTask, NoLostTask, RowSettled, Settled,
       Open

\* And follows from it, in the next state.
LEMMA SettledTasks ==
    ASSUME SubmissionInv', \A t \in Tasks : Settled(task'[t], res'[t], outbox'[t], up'[t]),
           \A w \in Workers : WorkerInformed(w)'
    PROVE  SettlementInv'
<1>1. CreditsFollowGeneration' /\ SettledWithTask'
  BY DEF CreditsFollowGeneration, SettledWithTask, Settled, Open
<1>2. NoLostTask'
  <2>1. \A t \in Tasks : task'[t].status = "queued" => task'[t].lease = 0
    BY DEF SubmissionInv, LeasesFresh
  <2> QED BY <2>1 DEF NoLostTask, Settled, Open
<1>3. \A t \in Tasks : RowSettled(t)'
  BY DEF RowSettled, Settled
<1> QED BY <1>1, <1>2, <1>3 DEF SettlementInv

\* A worker that makes no decisive step stays informed, whatever becomes of its
\* lease: its task gets no new lease that the worker would take for its own.
LEMMA WorkerStaysInformed ==
    ASSUME SettlementInv, NEW w \in Workers, WorkerMove(worker[w], worker'[w]),
           \A t \in Tasks : /\ TaskMove(task[t], res[t], up[t], task'[t], res'[t], outbox'[t], up'[t])
                            /\ up'[t].calls = up[t].calls,
           \A t \in Tasks : worker[w].task = t /\ worker[w].lease # 0 /\ worker[w].lease = task'[t].lease =>
                              task'[t].lease = task[t].lease
    PROVE  WorkerInformed(w)'
<1> DEFINE t == worker[w].task
<1>1. CASE worker'[w] = IdleWorker
  BY <1>1 DEF WorkerInformed, IdleWorker
<1>2. CASE worker'[w].pc = "claim" /\ worker'[w].lease = 0
  BY <1>2 DEF WorkerInformed
<1>3. CASE /\ worker'[w].task = t /\ worker'[w].lease = worker[w].lease
           /\ worker'[w].account = worker[w].account
           /\ \/ worker'[w].pc = worker[w].pc /\ worker[w].pc # "idle"
              \/ worker[w].pc \in BeforeRecord /\ worker'[w].pc \in BeforeRecord
              \/ /\ worker[w].pc \in KnowsGeneration /\ worker'[w].pc \in Poll
                 /\ worker'[w].pc = "sawComplete" => up[t].state = "complete"
                 /\ worker'[w].pc = "sawFailed" => up[t].state = "failed"
  <2>1. worker[w].pc # "idle" /\ t \in Tasks
    BY <1>3, WorkerFacts DEF SettlementInv
  <2>2. /\ TaskMove(task[t], res[t], up[t], task'[t], res'[t], outbox'[t], up'[t])
        /\ up'[t].calls = up[t].calls /\ WorkerInformed(w)
        /\ worker[w].lease # 0 /\ worker[w].lease = task'[t].lease => task'[t].lease = task[t].lease
    BY <2>1 DEF SettlementInv
  <2>3. worker[w].pc = "prepared" => up[t].calls = 0
    BY DEF SettlementInv, SubmissionInv, RecordedBeforeCall
  <2> HIDE DEF t
  <2>4. worker'[w].pc = "prepared" => Callable(t)'
    BY <1>3, <2>2, <2>3 DEF t, WorkerInformed, TaskMove, MayBeCalled, Callable
  <2>5. worker'[w].lease # 0 /\ worker'[w].lease = task'[t].lease =>
          worker'[w].account = task'[t].account
    BY <1>3, <2>2 DEF t, WorkerInformed, TaskMove
  <2> QED BY <1>3, <2>2, <2>4, <2>5 DEF t, WorkerInformed, TaskMove
<1> QED BY <1>1, <1>2, <1>3 DEF WorkerMove

\* Legal moves of the tasks, with informed workers, make a legal step.
LEMMA InformedSettle ==
    ASSUME SettlementInv, SubmissionInv',
           \A t \in Tasks : /\ TaskMove(task[t], res[t], up[t], task'[t], res'[t], outbox'[t], up'[t])
                            /\ HolderWrites(t),
           \A w \in Workers : WorkerInformed(w)'
    PROVE  StepSettles
<1>1. \A t \in Tasks : Settled(task'[t], res'[t], outbox'[t], up'[t])
  BY DEF TaskMove
<1>2. SettlementInv'
  BY <1>1, SettledTasks
<1>3. \A t \in Tasks : LifeMoves(t)
  BY DEF TaskMove, LifeMoves, LifeVal, LifeState, LifeOf
<1> QED BY <1>2, <1>3 DEF StepSettles

\* Legal moves of the tasks and of the workers make a legal step.
LEMMA MovesSettle ==
    ASSUME SettlementInv, SubmissionInv', RowsSettle, ExecMoves
    PROVE  StepSettles
<1>1. \A t \in Tasks : /\ TaskMove(task[t], res[t], up[t], task'[t], res'[t], outbox'[t], up'[t])
                       /\ HolderWrites(t) /\ task'[t].lease \in {0, task[t].lease}
                       /\ up'[t].calls = up[t].calls
  BY DEF RowsSettle, Moved, ExecMoves
<1>2. ASSUME NEW w \in Workers PROVE WorkerInformed(w)'
  BY <1>1, WorkerStaysInformed DEF ExecMoves
<1> QED BY <1>1, <1>2, InformedSettle

-----------------------------------------------------------------------------
(* One task moves, the others at most become due. *)

OthersStay(t) ==
    \A u \in Tasks \ {t} : /\ task'[u] = task[u] /\ res'[u] = res[u]
                           /\ outbox'[u] \in {outbox[u], "due"}

\* The statements that transactions share.
Wakes(t, a, o) == Wake(t, a, task', [outbox EXCEPT ![t] = o])
UpdatesRow(t, s, g, a) == task' = [task EXCEPT ![t].status = s, ![t].gen = g, ![t].account = a]
ClearsLease(t, s) == task' = [task EXCEPT ![t].status = s, ![t].lease = 0, ![t].live = FALSE]

\* A wake-up makes outbox rows due.
LEMMA WakeOthers ==
    ASSUME SubmissionInv, NEW t \in Tasks, NEW a, NEW o, Wakes(t, a, o)
    PROVE  /\ outbox'[t] \in {o, "due"}
           /\ \A u \in Tasks \ {t} : outbox'[u] \in {outbox[u], "due"}
BY TaskTypes DEF Wakes, Wake

\* A task whose rows stay, or that is woken.
LEMMA StayMoved ==
    ASSUME SettlementInv, SubmissionInv', NEW t \in Tasks, task'[t] = task[t], res'[t] = res[t],
           up'[t] = up[t],
           task[t].status \in Open => outbox'[t] = outbox[t] \/ outbox'[t] \in {"due", "delayed"}
    PROVE  Moved(t) /\ HolderWrites(t)
<1>1. TaskMove(task[t], res[t], up[t], task'[t], res'[t], outbox'[t], up'[t])
  BY TaskTypes, TasksSettled, SameMove DEF SettlementInv
<1> QED BY <1>1 DEF Moved, HolderWrites, Written

\* A legal move of t alone.
LEMMA OneTaskSettles ==
    ASSUME SettlementInv, SubmissionInv', NEW t \in Tasks, OthersStay(t), UNCHANGED up,
           Moved(t), HolderWrites(t)
    PROVE  RowsSettle
BY StayMoved DEF RowsSettle, OthersStay

\* Nothing moves.
LEMMA NoTaskMoves ==
    ASSUME SettlementInv, SubmissionInv', UNCHANGED <<task, res, outbox, up>>
    PROVE  RowsSettle
BY StayMoved DEF RowsSettle

\* The row that a task has after it lost its lease.
LEMMA LeaseCleared ==
    ASSUME SubmissionInv, NEW t \in Tasks, NEW s, ClearsLease(t, s)
    PROVE  /\ task'[t].status = s /\ task'[t].lease = 0 /\ ~task'[t].live
           /\ task'[t].gen = task[t].gen /\ task'[t].account = task[t].account
           /\ \A u \in Tasks \ {t} : task'[u] = task[u]
BY TaskTypes DEF ClearsLease, TaskRow

\* The reservation after its release.
LEMMA Released ==
    ASSUME SubmissionInv, NEW t \in Tasks, NEW why, res' = Release(t, why)
    PROVE  /\ res[t].state = "held" => res'[t].state = "released" /\ res'[t].reason = why
           /\ res[t].state # "held" => res'[t] = res[t]
           /\ res'[t].account = res[t].account
           /\ \A u \in Tasks \ {t} : res'[u] = res[u]
BY TaskTypes DEF Release, ResRow

\* The worker that holds the lease may move the task while it stops.
LEMMA HolderStops ==
    ASSUME NEW t \in Tasks, NEW w \in Workers, worker[w].task = t, Owns(t, worker[w].lease),
           worker[w].pc # "idle", worker'[w] = IdleWorker
    PROVE  HolderWrites(t)
BY DEF Owns, HolderWrites, IdleWorker

\* A worker that goes on to another program point changes.
LEMMA WorkerGoesOn ==
    ASSUME SubmissionInv, NEW w \in Workers, NEW p, worker[w].pc # p,
           worker' = [worker EXCEPT ![w].pc = p]
    PROVE  worker'[w] # worker[w]
BY WorkerFacts DEF SubmissionInv, TypeOK, WorkerState

\* A returning handler leaves an idle worker and the provider alone.
LEMMA ReturnIdles ==
    ASSUME SubmissionInv, NEW w \in Workers, ReturnNil(w) \/ ReturnError(w)
    PROVE  worker'[w] = IdleWorker /\ up' = up
BY DEF ReturnNil, ReturnError, Return, SubmissionInv, TypeOK

\* What the invariant says of a task that a worker works on with a live lease.
LEMMA OwnedFacts ==
    ASSUME SettlementInv, NEW t \in Tasks, NEW l, Owns(t, l)
    PROVE  /\ task[t].lease # 0 /\ task[t].lease = l
           /\ task[t].status \in Executing
           /\ res[t].state = "held" /\ res[t].account = task[t].account
           /\ task[t].status \in Unsubmitted => up[t].calls = 0 /\ up[t].state = "none"
           /\ task[t].status = "polling" => task[t].gen # 0 /\ up[t].calls # 0
<1>1. task[t] \in TaskRow /\ task[t].lease # 0 /\ task[t].lease = l
  BY TaskTypes DEF Owns, SettlementInv
<1>2. task[t].status \in Executing
  BY <1>1 DEF SettlementInv, SubmissionInv, LeasesFresh, TaskRow, Status
<1> QED BY <1>1, <1>2, TasksSettled DEF Settled, Open, SettlementInv, SubmissionInv, RecordedBeforeCall

-----------------------------------------------------------------------------
(* The owned updates. *)

\* FailTaskOwned, by a worker whose task was not created at the provider.
LEMMA FailTaskOwnedSettles ==
    ASSUME SettlementInv, SubmissionInv', NEW w \in Workers, NEW t \in Tasks, worker[w].task = t,
           worker[w].pc \in BeforeRecord \cup {"rejected"},
           NEW why \in {"unsubmitted", "rejected"},
           FailTaskOwned(t, worker[w].lease, why), ReturnNil(w)
    PROVE  RowsSettle
<1> DEFINE c == Owns(t, worker[w].lease) /\ task[t].gen = 0 /\ task[t].status \notin Terminal
<1>0. SubmissionInv /\ up' = up /\ worker'[w] = IdleWorker
  BY ReturnIdles DEF SettlementInv
<1>1. CASE c
  <2>1. /\ ClearsLease(t, "failed")
        /\ res' = Release(t, why)
        /\ Wakes(t, task[t].account, "delivered")
    BY <1>1 DEF ClearsLease, Wakes, FailTaskOwned
  <2>2. OthersStay(t)
    BY <1>0, <2>1, LeaseCleared, Released, WakeOthers DEF OthersStay
  <2>3. /\ task[t].status \in Open /\ up[t].state = "none"
        /\ up[t].calls = 0 => task[t].status \in {"reserving", "uploading"}
        /\ res[t].state = "held"
    <3>1. /\ task[t].status \in Executing /\ task[t].lease = worker[w].lease
          /\ res[t].state = "held"
          /\ task[t].status \in Unsubmitted => up[t].state = "none"
      BY <1>1, OwnedFacts
    <3>2. worker[w].pc \in BeforeRecord => task[t].status \in {"reserving", "uploading"}
      BY <1>0, <3>1 DEF SubmissionInv, RecordedBeforeCall
    <3>3. worker[w].pc = "rejected" => up[t].state = "none" /\ up[t].calls # 0
      BY DEF SettlementInv, WorkerInformed
    <3> QED BY <3>1, <3>2, <3>3 DEF Open, Unsubmitted
  <2>4. /\ task'[t].status = "failed" /\ task'[t].lease = 0 /\ ~task'[t].live
        /\ task'[t].gen = task[t].gen
        /\ res'[t].state = "released" /\ res'[t].reason = why
    BY <1>0, <2>1, <2>3, LeaseCleared, Released
  <2>5. TaskMove(task[t], res[t], up[t], task'[t], res'[t], outbox'[t], up'[t])
    BY <1>0, <1>1, <2>3, <2>4, TaskTypes, NextTaskTypes, TasksSettled, EndMove
  <2>6. HolderWrites(t)
    BY <1>0, <1>1, HolderStops
  <2> QED BY <1>0, <2>2, <2>4, <2>5, <2>6, OneTaskSettles DEF Moved
<1>2. CASE ~c
  BY <1>0, <1>2, NoTaskMoves DEF FailTaskOwned
<1> QED BY <1>1, <1>2

\* FailSubmittedTaskOwned, after the provider reported the generation failed.
LEMMA FailSubmittedTaskOwnedSettles ==
    ASSUME SettlementInv, SubmissionInv', NEW w \in Workers, NEW t \in Tasks, worker[w].task = t,
           worker[w].pc # "idle", up[t].state = "failed",
           FailSubmittedTaskOwned(t, worker[w].lease), ReturnNil(w)
    PROVE  RowsSettle
<1> DEFINE c == /\ Owns(t, worker[w].lease) /\ task[t].gen # 0
                /\ task[t].status \in {"submitted", "polling"}
<1>0. SubmissionInv /\ up' = up /\ worker'[w] = IdleWorker
  BY ReturnIdles DEF SettlementInv
<1>1. CASE c
  <2>1. /\ ClearsLease(t, "failed")
        /\ res' = Release(t, "upstream_failed")
        /\ Wakes(t, task[t].account, "delivered")
    BY <1>1 DEF ClearsLease, Wakes, FailSubmittedTaskOwned
  <2>2. OthersStay(t)
    BY <1>0, <2>1, LeaseCleared, Released, WakeOthers DEF OthersStay
  <2>3. task[t].status \in Open /\ res[t].state = "held" /\ up[t].calls # 0
    BY <1>1, OwnedFacts, TasksSettled DEF Open, Settled
  <2>4. /\ task'[t].status = "failed" /\ task'[t].lease = 0 /\ ~task'[t].live
        /\ task'[t].gen = task[t].gen
        /\ res'[t].state = "released" /\ res'[t].reason = "upstream_failed"
    BY <1>0, <2>1, <2>3, LeaseCleared, Released
  <2>5. TaskMove(task[t], res[t], up[t], task'[t], res'[t], outbox'[t], up'[t])
    BY <1>0, <1>1, <2>3, <2>4, TaskTypes, NextTaskTypes, TasksSettled, EndMove
  <2>6. HolderWrites(t)
    BY <1>0, <1>1, HolderStops
  <2> QED BY <1>0, <2>2, <2>4, <2>5, <2>6, OneTaskSettles DEF Moved
<1>2. CASE ~c
  BY <1>0, <1>2, NoTaskMoves DEF FailSubmittedTaskOwned
<1> QED BY <1>1, <1>2

\* CompleteTaskOwned, after the provider reported the generation complete: the
\* reservation is on the worker's account, so it is charged.
LEMMA CompleteTaskOwnedSettles ==
    ASSUME SettlementInv, SubmissionInv', NEW w \in Workers, NEW t \in Tasks, worker[w].task = t,
           worker[w].pc # "idle", up[t].state = "complete",
           CompleteTaskOwned(t, worker[w].lease, worker[w].account, worker[w].gen), ReturnNil(w)
    PROVE  RowsSettle
<1> DEFINE c == Owns(t, worker[w].lease) /\ task[t].status \in {"submitted", "polling"}
           a == worker[w].account
           g == worker[w].gen
<1>0. SubmissionInv /\ up' = up /\ worker'[w] = IdleWorker
  BY ReturnIdles DEF SettlementInv
<1>1. CASE c
  <2>1. /\ task' = [task EXCEPT ![t].status = "succeeded", ![t].account = a,
                                ![t].gen = IF g = 0 THEN @ ELSE g, ![t].lease = 0, ![t].live = FALSE]
        /\ res' = IF res[t].state = "held" /\ res[t].account = a
                    THEN [res EXCEPT ![t].state = "consumed", ![t].reason = "charged"]
                    ELSE res
        /\ Wakes(t, a, "delivered")
    BY <1>1 DEF Wakes, CompleteTaskOwned
  <2>2. task[t].status \in Open /\ res[t].state = "held" /\ up[t].calls # 0 /\ res[t].account = a
    <3>1. /\ res[t].state = "held" /\ res[t].account = task[t].account /\ task[t].lease # 0
          /\ task[t].lease = worker[w].lease
      BY <1>1, OwnedFacts
    <3>2. task[t].account = a
      BY <3>1 DEF SettlementInv, WorkerInformed
    <3>3. up[t].calls # 0
      BY TasksSettled DEF Settled
    <3> QED BY <1>1, <3>1, <3>2, <3>3 DEF Open, Executing
  <2> HIDE DEF a, g
  <2>3. /\ task'[t].status = "succeeded" /\ task'[t].lease = 0 /\ ~task'[t].live
        /\ \A u \in Tasks \ {t} : task'[u] = task[u]
    BY <1>0, <2>1, TaskTypes DEF TaskRow
  <2>4. res'[t].state = "consumed" /\ \A u \in Tasks \ {t} : res'[u] = res[u]
    BY <1>0, <2>1, <2>2, TaskTypes DEF ResRow
  <2>5. OthersStay(t)
    BY <1>0, <2>1, <2>3, <2>4, WakeOthers DEF OthersStay
  <2>6. TaskMove(task[t], res[t], up[t], task'[t], res'[t], outbox'[t], up'[t])
    BY <1>0, <1>1, <2>2, <2>3, <2>4, TaskTypes, NextTaskTypes, TasksSettled, EndMove
  <2>7. HolderWrites(t)
    BY <1>0, <1>1, HolderStops
  <2> QED BY <1>0, <2>3, <2>5, <2>6, <2>7, OneTaskSettles DEF Moved
<1>2. CASE ~c
  BY <1>0, <1>2, NoTaskMoves DEF CompleteTaskOwned
<1> QED BY <1>1, <1>2

\* markSubmissionUncertain, by the worker that holds the lease.
LEMMA MarksUncertainSettles ==
    ASSUME SettlementInv, SubmissionInv', NEW w \in Workers, worker[w].pc # "idle",
           WorkerMarksUncertain(w)
    PROVE  RowsSettle /\ ExecMoves
<1> DEFINE t == worker[w].task
<1>0. SubmissionInv /\ t \in Tasks
  BY WorkerFacts DEF SettlementInv
<1>1. CASE CanUpdate(t, worker[w].lease)
  <2>1. /\ ClearsLease(t, "submission_uncertain") /\ Wakes(t, task[t].account, "delivered")
        /\ res' = res /\ ReturnNil(w)
    BY <1>1 DEF WorkerMarksUncertain, MarkUncertain, ClearsLease, Wakes
  <2>2. up' = up /\ worker'[w] = IdleWorker /\ ExecMoves
    BY <1>0, <2>1, ReturnIdles, Returns
  <2> HIDE DEF t
  <2>3. OthersStay(t)
    BY <1>0, <2>1, LeaseCleared, WakeOthers DEF OthersStay
  <2>4. task[t].status \in Open /\ Owns(t, worker[w].lease)
    BY <1>0, <1>1, OwnedFacts DEF CanUpdate, Open
  <2>5. TaskMove(task[t], res[t], up[t], task'[t], res'[t], outbox'[t], up'[t])
    BY <1>0, <2>1, <2>2, <2>4, LeaseCleared, TaskTypes, NextTaskTypes, TasksSettled, DoubtMove
  <2>6. HolderWrites(t)
    BY <1>0, <2>2, <2>4, HolderStops DEF t
  <2>7. Moved(t)
    BY <1>0, <2>1, <2>5, LeaseCleared DEF Moved
  <2> QED BY <1>0, <2>2, <2>3, <2>6, <2>7, OneTaskSettles
<1>2. CASE ~CanUpdate(t, worker[w].lease)
  <2>1. ReturnError(w) /\ UNCHANGED <<task, res, outbox>>
    BY <1>2 DEF WorkerMarksUncertain
  <2> QED BY <1>0, <2>1, ReturnIdles, Returns, NoTaskMoves
<1> QED BY <1>1, <1>2

\* YieldTaskLease, by the worker that holds the lease.
LEMMA YieldSettles ==
    ASSUME SettlementInv, SubmissionInv', NEW w \in Workers, worker[w].pc # "idle",
           CanYield(worker[w].task, worker[w].lease), YieldTaskLease(worker[w].task), ReturnNil(w)
    PROVE  RowsSettle
<1> DEFINE t == worker[w].task
           s == IF task[t].gen = 0 THEN "queued" ELSE "polling"
<1>0. /\ SubmissionInv /\ t \in Tasks /\ up' = up /\ worker'[w] = IdleWorker
      /\ CanYield(t, worker[w].lease)
  BY WorkerFacts, ReturnIdles DEF SettlementInv
<1>1. /\ ClearsLease(t, s) /\ Wakes(t, task[t].account, "delayed")
      /\ res' = [res EXCEPT ![t].late = FALSE]
  BY DEF YieldTaskLease, ClearsLease, Wakes
<1>2. worker[w].task = t
  OBVIOUS
<1> HIDE DEF t
<1>3. /\ res'[t].state = res[t].state /\ res'[t].account = res[t].account
      /\ \A u \in Tasks \ {t} : res'[u] = res[u]
  BY <1>0, <1>1, TaskTypes DEF ResRow
<1>4. /\ task'[t].status = s /\ task'[t].lease = 0 /\ ~task'[t].live
      /\ task'[t].gen = task[t].gen /\ task'[t].account = task[t].account
      /\ outbox'[t] \in {"due", "delayed"}
      /\ OthersStay(t)
  <2> HIDE DEF s
  <2> QED BY <1>0, <1>1, <1>3, LeaseCleared, WakeOthers DEF OthersStay
<1>5. /\ Owns(t, worker[w].lease) /\ task[t].status \in Open /\ res[t].account = task[t].account
      /\ task[t].status = "submitted" => task[t].gen # 0
  BY <1>0, OwnedFacts DEF CanYield, Open
<1>6. /\ task[t].gen # 0 => up[t].state # "none" /\ up[t].calls # 0
  BY <1>0, TasksSettled DEF Settled
<1>7. TaskMove(task[t], res[t], up[t], task'[t], res'[t], outbox'[t], up'[t])
  <2>1. task'[t].status \in Open /\ (task'[t].status = "queued" \/ task'[t].gen # 0)
    BY <1>4 DEF Open, Executing
  <2> QED BY <1>0, <1>3, <1>4, <1>5, <1>6, <2>1, TaskTypes, NextTaskTypes, TasksSettled, OpenMove
<1>8. HolderWrites(t)
  BY <1>0, <1>2, <1>5, HolderStops
<1> QED BY <1>0, <1>4, <1>7, <1>8, OneTaskSettles DEF Moved

\* A worker that yields.
LEMMA WorkerYieldsSettles ==
    ASSUME SettlementInv, SubmissionInv', NEW w \in Workers, worker[w].pc # "idle", WorkerYields(w)
    PROVE  RowsSettle /\ ExecMoves
<1>0. SubmissionInv
  BY DEF SettlementInv
<1>1. CASE CanYield(worker[w].task, worker[w].lease)
  BY <1>0, <1>1, YieldSettles, Returns DEF WorkerYields
<1>2. CASE ~CanYield(worker[w].task, worker[w].lease)
  <2>1. ReturnError(w) /\ UNCHANGED <<task, res, outbox>>
    BY <1>2 DEF WorkerYields
  <2> QED BY <1>0, <2>1, ReturnIdles, Returns, NoTaskMoves
<1> QED BY <1>1, <1>2

\* A worker that holds the lease writes its row and goes on: upload, record of the
\* submission, record of the generation, poll tick.
LEMMA HolderUpdateSettles ==
    ASSUME SettlementInv, SubmissionInv', NEW w \in Workers, NEW t \in Tasks, worker[w].task = t,
           Owns(t, worker[w].lease), UNCHANGED <<res, outbox, up>>, worker'[w] # worker[w],
           NEW s, NEW g, UpdatesRow(t, s, g, worker[w].account),
           s \in Executing, g # 0 => up[t].state # "none",
           up[t].calls = 0 /\ task[t].status = "submitted" => s = "submitted"
    PROVE  RowsSettle
<1>0. SubmissionInv
  BY DEF SettlementInv
<1>1. /\ task[t].lease # 0 /\ task[t].lease = worker[w].lease /\ task[t].status \in Open
      /\ res[t].state = "held" /\ res[t].account = task[t].account
  BY OwnedFacts DEF Open
<1>2. worker[w].account = task[t].account
  BY <1>1 DEF SettlementInv, WorkerInformed
<1>3. /\ task'[t].status = s /\ task'[t].gen = g /\ task'[t].account = worker[w].account
      /\ task'[t].lease = task[t].lease /\ task'[t].live = task[t].live
      /\ \A u \in Tasks \ {t} : task'[u] = task[u]
  BY <1>0, TaskTypes DEF UpdatesRow, TaskRow
<1>4. TaskMove(task[t], res[t], up[t], task'[t], res'[t], outbox'[t], up'[t])
  <2>1. task'[t].status \in Open /\ task'[t].lease # 0
    BY <1>1, <1>3 DEF Open
  <2> QED BY <1>0, <1>1, <1>2, <1>3, <2>1, TaskTypes, NextTaskTypes, TasksSettled, OpenMove
<1>5. HolderWrites(t)
  BY <1>1, <1>3 DEF HolderWrites
<1> QED BY <1>1, <1>3, <1>4, <1>5, OneTaskSettles DEF Moved, OthersStay

-----------------------------------------------------------------------------
(* The claim, the record and the call. *)

\* The claim: the task and its reservation move to the worker's account, and no
\* other worker takes the new lease for its own.
LEMMA TakeLeaseSettles ==
    ASSUME SettlementInv, SubmissionInv', NEW w \in Workers, NEW t \in Tasks, NEW a,
           worker[w].pc = "claim", worker[w].task = t, Claimable(t), TakeLease(w, t, a)
    PROVE  StepSettles
<1> DEFINE l == task[t].attempt + 1
<1>0. /\ SubmissionInv /\ task[t].attempt \in Nat /\ task[t].lease <= task[t].attempt
      /\ task[t].lease \in Nat /\ worker \in [Workers -> WorkerState]
  BY TaskTypes DEF SettlementInv, SubmissionInv, TypeOK, LeasesFresh, TaskRow
<1>1. /\ Wakes(t, a, "delivered") /\ up' = up
      /\ task'[t].status = IF task[t].status = "queued" THEN "reserving" ELSE task[t].status
      /\ task'[t].account = a /\ task'[t].lease = l /\ task'[t].gen = task[t].gen
      /\ \A u \in Tasks \ {t} : task'[u] = task[u]
  BY <1>0, TaskTypes DEF TakeLease, Wakes, TaskRow
<1>2. /\ task[t].status \in Open /\ task'[t].status \in Open /\ ~task[t].live
      /\ task[t].status = "submitted" => task[t].gen # 0
      /\ task[t].gen # 0 => up[t].state # "none" /\ up[t].calls # 0
      /\ res[t].state = "held"
  BY <1>1, TasksSettled DEF Claimable, LeaseFree, Settled, Open, Executing
<1>3. /\ res'[t].state = res[t].state /\ res'[t].account = a
      /\ \A u \in Tasks \ {t} : res'[u] = res[u]
  <2>1. res' = [res EXCEPT ![t].account = a, ![t].late = FALSE]
    BY <1>2 DEF TakeLease
  <2> QED BY <1>0, <2>1, TaskTypes DEF ResRow
<1>4. OthersStay(t)
  BY <1>0, <1>1, <1>3, WakeOthers DEF OthersStay
<1>5. /\ worker'[w].pc = IF task[t].gen = 0 THEN "owned" ELSE "resume"
      /\ worker'[w].task = t /\ worker'[w].account = a
      /\ \A v \in Workers \ {w} : worker'[v] = worker[v]
  BY <1>0 DEF TakeLease, WorkerState
<1> HIDE DEF l
<1>6. TaskMove(task[t], res[t], up[t], task'[t], res'[t], outbox'[t], up'[t])
  <2>1. task'[t].lease # 0 /\ task'[t].lease # task[t].lease
    BY <1>0, <1>1 DEF l
  <2> QED BY <1>0, <1>1, <1>2, <1>3, <2>1, TaskTypes, NextTaskTypes, TasksSettled, OpenMove
<1>7. \A u \in Tasks : /\ TaskMove(task[u], res[u], up[u], task'[u], res'[u], outbox'[u], up'[u])
                       /\ HolderWrites(u)
  BY <1>1, <1>2, <1>4, <1>6, StayMoved DEF OthersStay, Moved, HolderWrites
<1>8. ASSUME NEW v \in Workers PROVE WorkerInformed(v)'
  <2>1. CASE v = w
    BY <1>1, <1>2, <1>5, <2>1 DEF WorkerInformed
  <2>2. CASE v # w
    <3>1. WorkerMove(worker[v], worker'[v])
      BY <1>0, <1>5, <2>2, WorkerFacts
    <3>2. worker[v].task = t /\ worker[v].lease # 0 => worker[v].lease # task'[t].lease
      BY <1>0, <1>1 DEF SubmissionInv, LeasesFresh, l
    <3>3. \A u \in Tasks : worker[v].task = u /\ worker[v].lease # 0 /\ worker[v].lease = task'[u].lease =>
                              task'[u].lease = task[u].lease
      BY <1>1, <3>2
    <3> QED BY <1>1, <1>7, <3>1, <3>3, WorkerStaysInformed
  <2> QED BY <2>1, <2>2
<1> QED BY <1>7, <1>8, InformedSettle

\* A step that moves tasks legally and one worker to a state it is informed of.
LEMMA OneWorkerSettles ==
    ASSUME SettlementInv, SubmissionInv', NEW w \in Workers, RowsSettle, UNCHANGED up,
           \A v \in Workers \ {w} : worker'[v] = worker[v], WorkerInformed(w)'
    PROVE  StepSettles
<1>1. \A t \in Tasks : /\ TaskMove(task[t], res[t], up[t], task'[t], res'[t], outbox'[t], up'[t])
                       /\ HolderWrites(t) /\ task'[t].lease \in {0, task[t].lease}
                       /\ up'[t].calls = up[t].calls
  BY DEF RowsSettle, Moved
<1>2. ASSUME NEW v \in Workers \ {w} PROVE WorkerInformed(v)'
  <2>1. WorkerMove(worker[v], worker'[v])
    BY WorkerFacts DEF SettlementInv
  <2> QED BY <1>1, <2>1, WorkerStaysInformed
<1> QED BY <1>1, <1>2, InformedSettle

\* The record that the call is coming: the worker keeps the task's account.
LEMMA PrepareSettles ==
    ASSUME SettlementInv, SubmissionInv', NEW w \in Workers, PrepareSubmission(w)
    PROVE  StepSettles
<1> DEFINE t == worker[w].task
<1>0. /\ SubmissionInv /\ t \in Tasks /\ worker[w].pc = "fenced"
      /\ worker \in [Workers -> WorkerState]
  BY WorkerFacts DEF SettlementInv, SubmissionInv, TypeOK, PrepareSubmission
<1>1. CASE ~(CanUpdate(t, worker[w].lease) /\ (task[t].gen # 0 \/ ruleActive))
  <2>1. ReturnError(w) /\ UNCHANGED <<task, res, outbox>>
    BY <1>1 DEF PrepareSubmission
  <2> QED BY <1>0, <2>1, ReturnIdles, Returns, NoTaskMoves, MovesSettle
<1>2. CASE CanUpdate(t, worker[w].lease) /\ (task[t].gen # 0 \/ ruleActive)
  <2>1. /\ task' = [task EXCEPT ![t].status = "submitted", ![t].account = worker[w].account]
        /\ worker' = [worker EXCEPT ![w].pc = "prepared"]
        /\ UNCHANGED <<res, outbox, up>>
    BY <1>2 DEF PrepareSubmission
  <2>2. Owns(t, worker[w].lease) /\ worker[w].task = t
    BY <1>2 DEF CanUpdate
  <2> HIDE DEF t
  <2>3. UpdatesRow(t, "submitted", task[t].gen, worker[w].account)
    <3>1. task[t] \in TaskRow /\ task \in [Tasks -> TaskRow]
      BY <1>0, TaskTypes
    <3> QED BY <1>0, <2>1, <3>1 DEF UpdatesRow, TaskRow
  <2>4. "submitted" \in Executing /\ (task[t].gen # 0 => up[t].state # "none")
    BY <1>0, TasksSettled DEF Settled, Executing
  <2>5. RowsSettle
    <3>1. worker'[w] # worker[w]
      BY <1>0, <2>1, WorkerGoesOn
    <3> QED BY <1>0, <2>1, <2>2, <2>3, <2>4, <3>1, HolderUpdateSettles
  <2>6. /\ worker'[w].pc = "prepared" /\ worker'[w].task = t /\ worker'[w].lease = worker[w].lease
        /\ worker'[w].account = worker[w].account
        /\ \A v \in Workers \ {w} : worker'[v] = worker[v]
    BY <1>0, <2>1, <2>2 DEF WorkerState
  <2>7. task'[t].status = "submitted" /\ task'[t].account = worker[w].account
    BY <1>0, <2>1, TaskTypes DEF TaskRow
  <2>8. WorkerInformed(w)'
    BY <2>6, <2>7 DEF WorkerInformed, Callable
  <2> QED BY <2>1, <2>5, <2>6, <2>8, OneWorkerSettles
<1> QED BY <1>1, <1>2

\* The call.  Before it nothing was bought and no other worker knows of a call;
\* after it the provider's record is what the caller was told, or better.
LEMMA SubmitSettles ==
    ASSUME SettlementInv, SubmissionInv', NEW w \in Workers, SubmitGeneration(w),
           NEW t \in Tasks, worker[w].task = t
    PROVE  StepSettles
<1>0. /\ SubmissionInv /\ worker[w].pc = "prepared" /\ up[t].calls = 0
      /\ worker \in [Workers -> WorkerState] /\ up \in [Tasks -> ProviderState]
      /\ Callable(t) /\ WorkerInformed(w)
  BY WorkerFacts DEF SettlementInv, SubmissionInv, TypeOK, RecordedBeforeCall, SubmitGeneration,
                     WorkerInformed
<1>1. Settled(task[t], res[t], outbox[t], up[t]) /\ up[t].state = "none"
  BY <1>0, TasksSettled DEF Settled
<1>2. PICK created \in BOOLEAN, answer \in {"accepted", "rejected", "unknown"} :
        /\ answer = "accepted" => created
        /\ answer = "rejected" => ~created
        /\ up' = [up EXCEPT ![t] = [calls |-> @.calls + 1,
                                    state |-> IF created THEN "running" ELSE @.state]]
        /\ worker' = [worker EXCEPT ![w].pc = answer,
                                    ![w].gen = IF answer = "accepted" THEN worker[w].lease ELSE 0]
  BY DEF SubmitGeneration
<1>3. UNCHANGED <<task, res, outbox>>
  BY DEF SubmitGeneration, tableVars
<1>4. /\ up'[t].calls = 1 /\ up'[t].state = IF created THEN "running" ELSE "none"
      /\ \A u \in Tasks \ {t} : up'[u] = up[u]
  BY <1>0, <1>1, <1>2 DEF ProviderState
<1>5. /\ worker'[w].pc = answer /\ worker'[w].task = t /\ worker'[w].lease = worker[w].lease
      /\ worker'[w].account = worker[w].account
      /\ \A v \in Workers \ {w} : worker'[v] = worker[v]
  BY <1>0, <1>2 DEF WorkerState
<1>6. Settled(task'[t], res'[t], outbox'[t], up'[t])
  BY <1>0, <1>1, <1>3, <1>4 DEF Settled, Callable, Open, Executing
<1>7. LifeMoves(t)
  <2> DEFINE l == LifeVal(task[t], res[t], up[t])
             m == LifeVal(task'[t], res'[t], up'[t])
  <2>1. /\ l \in Paid!Life /\ m \in Paid!Life /\ l.bought = "none" /\ m.bought = up'[t].state
        /\ m.state = l.state /\ m.credits = l.credits
        /\ l.state \in {"open", "uncertain", "writtenOff"}
    BY <1>0, <1>1, <1>3, TaskTypes, NextTaskTypes, LifeType, LifeStates DEF Callable, Open, Executing
  <2>2. m = l \/ m \in Paid!Moves(l)
    <3> HIDE DEF l, m
    <3>1. CASE up'[t].state = "none"
      <4>1. m = l
        BY <2>1, <3>1 DEF Paid!Life
      <4> QED BY <4>1
    <3>2. CASE up'[t].state = "running"
      <4>1. m = [l EXCEPT !.bought = "running"]
        BY <2>1, <3>2 DEF Paid!Life
      <4>2. m \in Paid!Bought(l)
        BY <2>1, <4>1 DEF Paid!Bought
      <4> QED BY <4>2 DEF Paid!Moves
    <3> QED BY <1>4, <3>1, <3>2
  <2>3. LifeOf(t) = l /\ LifeOf(t)' = m
    BY DEF LifeVal, LifeState, LifeOf
  <2> QED BY <2>2, <2>3 DEF LifeMoves
<1>8. ASSUME NEW u \in Tasks
      PROVE  /\ Settled(task'[u], res'[u], outbox'[u], up'[u])
             /\ LifeMoves(u) /\ HolderWrites(u)
  <2>1. HolderWrites(u)
    BY <1>3 DEF HolderWrites, Written
  <2>2. CASE u = t
    BY <1>6, <1>7, <2>1, <2>2
  <2>3. CASE u # t
    <3>1. up'[u] = up[u]
      BY <1>4, <2>3
    <3> QED BY <1>3, <2>1, <3>1, TasksSettled DEF LifeMoves, LifeOf
  <2> QED BY <2>2, <2>3
<1>9. ASSUME NEW v \in Workers PROVE WorkerInformed(v)'
  <2>1. CASE v = w
    BY <1>0, <1>2, <1>3, <1>4, <1>5, <2>1 DEF WorkerInformed
  <2>2. CASE v # w
    <3>1. worker'[v] = worker[v] /\ WorkerInformed(v)
      BY <1>5, <2>2 DEF SettlementInv
    <3>2. CASE worker[v].task # t
      <4>1. worker[v].pc # "idle" => worker[v].task \in Tasks
        BY <1>0, WorkerFacts
      <4>2. worker[v].pc # "idle" => up'[worker[v].task] = up[worker[v].task]
        BY <1>4, <3>2, <4>1
      <4>3. worker[v].pc = "idle" => worker[v].lease = 0
        BY <1>0 DEF SubmissionInv, LeasesFresh
      <4> QED BY <1>3, <3>1, <4>2, <4>3 DEF WorkerInformed, Callable
    <3>3. CASE worker[v].task = t
      <4>1. worker[v].pc # "prepared"
        BY <1>0, <2>2, <3>3 DEF SubmissionInv, RecordedBeforeCall
      <4>2. worker[v].pc \notin {"rejected", "unknown"} \cup KnowsGeneration
        BY <1>0, <1>1, <3>1, <3>3 DEF WorkerInformed
      <4> QED BY <1>3, <3>1, <3>3, <4>1, <4>2 DEF WorkerInformed
    <3> QED BY <3>2, <3>3
  <2> QED BY <2>1, <2>2
<1>10. SettlementInv'
  BY <1>8, <1>9, SettledTasks
<1> QED BY <1>8, <1>10 DEF StepSettles

\* The claim and its outcomes.
LEMMA ClaimSettles ==
    ASSUME SettlementInv, SubmissionInv', NEW w \in Workers, ClaimTask(w)
    PROVE  StepSettles
<1> DEFINE t == worker[w].task
<1>0. SubmissionInv /\ t \in Tasks /\ worker[w].pc = "claim" /\ worker[w].task = t
  BY WorkerFacts DEF SettlementInv, ClaimTask
<1>1. task[t].status = "queued" =>
        /\ task[t].lease = 0 /\ ~task[t].live /\ res[t].state = "held" /\ res[t].account = task[t].account
        /\ up[t].calls = 0 /\ up[t].state = "none" /\ task[t].gen = 0
  BY <1>0, TasksSettled DEF Settled, Open, SubmissionInv, LeasesFresh, RecordedBeforeCall, Unsubmitted
<1>2. CASE ReturnNil(w) /\ UNCHANGED <<task, res, outbox>>
  BY <1>0, <1>2, ReturnIdles, Returns, NoTaskMoves, MovesSettle
<1>3. ASSUME NEW a, Claimable(t), TakeLease(w, t, a)
      PROVE  StepSettles
  BY <1>0, <1>3, TakeLeaseSettles
<1>4. CASE task[t].status = "queued" /\ ClaimFailsTask(w, t)
  <2>1. /\ task' = [task EXCEPT ![t].status = "failed"] /\ res' = Release(t, "unsubmitted")
        /\ Wakes(t, task[t].account, "delivered") /\ ReturnNil(w)
    BY <1>4 DEF ClaimFailsTask, Wakes
  <2>2. up' = up /\ ExecMoves
    BY <1>0, <2>1, ReturnIdles, Returns
  <2> HIDE DEF t
  <2>3. /\ task'[t].status = "failed" /\ task'[t].lease = 0 /\ ~task'[t].live /\ task'[t].gen = 0
        /\ \A u \in Tasks \ {t} : task'[u] = task[u]
    BY <1>0, <1>1, <1>4, <2>1, TaskTypes DEF TaskRow
  <2>4. /\ res'[t].state = "released" /\ res'[t].reason = "unsubmitted"
        /\ \A u \in Tasks \ {t} : res'[u] = res[u]
    BY <1>0, <1>1, <1>4, <2>1, Released
  <2>5. TaskMove(task[t], res[t], up[t], task'[t], res'[t], outbox'[t], up'[t])
    <3>1. task[t].status \in Open
      BY <1>4 DEF Open
    <3> QED BY <1>0, <1>1, <1>4, <2>2, <2>3, <2>4, <3>1, TaskTypes, NextTaskTypes, TasksSettled, EndMove
  <2>6. OthersStay(t)
    BY <1>0, <2>1, <2>3, <2>4, WakeOthers DEF OthersStay
  <2>7. Moved(t) /\ HolderWrites(t)
    BY <1>1, <1>4, <2>3, <2>5 DEF Moved, HolderWrites
  <2> QED BY <1>0, <2>2, <2>6, <2>7, OneTaskSettles, MovesSettle
<1>5. ASSUME NEW a, task[t].status = "queued", DeferQueuedTask(w, t, a)
      PROVE  StepSettles
  <2>1. /\ task' = [task EXCEPT ![t].account = a]
        /\ res' = [res EXCEPT ![t].account = a]
        /\ outbox' = [outbox EXCEPT ![t] = "delayed"] /\ ReturnNil(w)
    BY <1>1, <1>5 DEF DeferQueuedTask
  <2>2. up' = up /\ ExecMoves
    BY <1>0, <2>1, ReturnIdles, Returns
  <2> HIDE DEF t
  <2>3. /\ task'[t].status = "queued" /\ task'[t].account = a /\ task'[t].lease = 0
        /\ task'[t].live = task[t].live /\ task'[t].gen = 0
        /\ \A u \in Tasks \ {t} : task'[u] = task[u]
    BY <1>0, <1>1, <1>5, <2>1, TaskTypes DEF TaskRow
  <2>4. /\ res'[t].state = res[t].state /\ res'[t].account = a
        /\ \A u \in Tasks \ {t} : res'[u] = res[u]
    BY <1>0, <2>1, TaskTypes DEF ResRow
  <2>5. outbox'[t] = "delayed" /\ \A u \in Tasks \ {t} : outbox'[u] = outbox[u]
    BY <1>0, <2>1, TaskTypes
  <2>6. TaskMove(task[t], res[t], up[t], task'[t], res'[t], outbox'[t], up'[t])
    <3>1. task[t].status \in Open /\ task'[t].status \in Open
      BY <1>5, <2>3 DEF Open
    <3>2. ~task'[t].live
      BY <1>1, <1>5, <2>3
    <3> QED BY <1>0, <1>1, <1>5, <2>2, <2>3, <2>4, <2>5, <3>1, <3>2, TaskTypes, NextTaskTypes,
               TasksSettled, OpenMove
  <2>7. OthersStay(t)
    BY <2>3, <2>4, <2>5 DEF OthersStay
  <2>8. Moved(t) /\ HolderWrites(t)
    BY <1>1, <1>5, <2>3, <2>6 DEF Moved, HolderWrites
  <2> QED BY <1>0, <2>2, <2>7, <2>8, OneTaskSettles, MovesSettle
<1> HIDE DEF t
<1>6. \/ ReturnNil(w) /\ UNCHANGED <<task, res, outbox>>
      \/ \E a : Claimable(t) /\ TakeLease(w, t, a)
      \/ task[t].status = "queued" /\ ClaimFailsTask(w, t)
      \/ \E a : task[t].status = "queued" /\ DeferQueuedTask(w, t, a)
  BY DEF ClaimTask, t
<1> QED BY <1>2, <1>3, <1>4, <1>5, <1>6

-----------------------------------------------------------------------------
(* The recovery pass. *)

\* What the pass does to one task: deadlines end it, an ended lease gives it back
\* or leaves its submission uncertain, and every other task stays.
LEMMA RecoveredTaskMoves ==
    ASSUME SettlementInv, SubmissionInv', RecoverStaleTasks, NEW t \in Tasks
    PROVE  Moved(t) /\ HolderWrites(t)
<1> DEFINE A == QueueTimedOut(t) \/ ReservationTimedOut(t)
           B == UpstreamTimedOut(t) \/ LostDuringSubmission(t)
           C == LostBeforeSubmission(t)
           D == LostWhilePolling(t)
<1>0. /\ SubmissionInv /\ task[t] \in TaskRow /\ res[t] \in ResRow /\ task[t].upstreamLate \in BOOLEAN
      /\ Settled(task[t], res[t], outbox[t], up[t]) /\ up' = up
      /\ task'[t] \in TaskRow /\ res'[t] \in ResRow /\ up[t] \in ProviderState
      /\ up'[t] \in ProviderState
  BY TaskTypes, NextTaskTypes, TasksSettled DEF SettlementInv, RecoverStaleTasks, execVars, TaskRow
<1>1. task'[t] = RecoveredRow(t)
  BY DEF RecoverStaleTasks
<1>2. res'[t] = IF A /\ res[t].state = "held"
                  THEN [res[t] EXCEPT !.state = "released", !.reason = "unsubmitted"]
                  ELSE IF C \/ D THEN [res[t] EXCEPT !.late = FALSE] ELSE res[t]
  BY DEF RecoverStaleTasks
<1>3. /\ C \/ D => \/ outbox'[t] = "due"
                   \/ task'[t].status \in {"submission_uncertain", "failed"}
      /\ \/ outbox'[t] \in {outbox[t], "due"}
         \/ task'[t].status \in {"submission_uncertain", "failed"}
  BY DEF RecoverStaleTasks
<1>4. /\ task[t].status = "queued" => task[t].lease = 0 /\ ~task[t].live
      /\ task[t].status \in Unsubmitted => up[t].calls = 0 /\ up[t].state = "none" /\ task[t].gen = 0
  BY <1>0 DEF Settled, SubmissionInv, LeasesFresh, RecordedBeforeCall
<1>5. CASE A
  <2>1. task[t].status = "queued" /\ res[t].state = "held"
    BY <1>0, <1>5 DEF QueueTimedOut, ReservationTimedOut, Settled, Open
  <2>2. RecoveredRow(t) = [task[t] EXCEPT !.status = "failed"]
    BY <1>5, <2>1 DEF RecoveredRow, UpstreamTimedOut, LostDuringSubmission, LostBeforeSubmission,
                      LostWhilePolling
  <2>3. /\ task'[t].status = "failed" /\ task'[t].lease = 0 /\ ~task'[t].live /\ task'[t].gen = 0
        /\ res'[t].state = "released" /\ res'[t].reason = "unsubmitted"
    BY <1>0, <1>1, <1>2, <1>4, <1>5, <2>1, <2>2 DEF TaskRow, ResRow, Unsubmitted
  <2>4. TaskMove(task[t], res[t], up[t], task'[t], res'[t], outbox'[t], up'[t])
    BY <1>0, <1>4, <2>1, <2>3, EndMove DEF Open, Unsubmitted
  <2> QED BY <1>4, <2>1, <2>3, <2>4 DEF Moved, HolderWrites
<1>6. CASE B
  <2>1. /\ task[t].status \in {"submitted", "polling"} /\ ~A /\ ~C /\ ~D
        /\ (task[t].upstreamLate /\ task[t].gen # 0) \/ ~task[t].live
    BY <1>6 DEF UpstreamTimedOut, LostDuringSubmission, LeaseExpired, QueueTimedOut,
                ReservationTimedOut, LostBeforeSubmission, LostWhilePolling
  <2>2. RecoveredRow(t) = [task[t] EXCEPT !.status = "submission_uncertain", !.lease = 0, !.live = FALSE]
    BY <1>6, <2>1 DEF RecoveredRow, UpstreamTimedOut, LostDuringSubmission, LostWhilePolling
  <2>3. /\ task'[t].status = "submission_uncertain" /\ task'[t].lease = 0 /\ ~task'[t].live
        /\ task'[t].gen = task[t].gen /\ res'[t] = res[t]
    BY <1>0, <1>1, <1>2, <2>1, <2>2 DEF TaskRow
  <2>4. TaskMove(task[t], res[t], up[t], task'[t], res'[t], outbox'[t], up'[t])
    BY <1>0, <2>1, <2>3, DoubtMove DEF Open, Executing
  <2> QED BY <2>1, <2>3, <2>4 DEF Moved, HolderWrites
<1>7. CASE C
  <2>1. task[t].status \in {"reserving", "uploading"} /\ ~A /\ ~task[t].live
    BY <1>7 DEF LostBeforeSubmission, LeaseExpired, QueueTimedOut, ReservationTimedOut
  <2>2. RecoveredRow(t) = [task[t] EXCEPT !.status = "queued", !.lease = 0, !.live = FALSE]
    BY <1>7, <2>1 DEF RecoveredRow, UpstreamTimedOut, LostDuringSubmission, LostWhilePolling
  <2>3. /\ task'[t].status = "queued" /\ task'[t].lease = 0 /\ ~task'[t].live
        /\ task'[t].gen = task[t].gen /\ task'[t].account = task[t].account
    BY <1>0, <1>1, <2>2 DEF TaskRow
  <2>4. res'[t].state = res[t].state /\ res'[t].account = res[t].account
    BY <1>0, <1>2, <1>7, <2>1 DEF ResRow
  <2>5. outbox'[t] = "due" /\ task[t].status \in Open /\ task'[t].status \in Open
        /\ res[t].account = task[t].account /\ task[t].gen = 0
    BY <1>0, <1>3, <1>4, <1>7, <2>1, <2>3 DEF Open, Executing, Settled, Unsubmitted
  <2>6. TaskMove(task[t], res[t], up[t], task'[t], res'[t], outbox'[t], up'[t])
    BY <1>0, <2>1, <2>3, <2>4, <2>5, OpenMove
  <2> QED BY <2>1, <2>3, <2>6 DEF Moved, HolderWrites
<1>8. CASE D
  <2>1. /\ task[t].status \in {"submitted", "polling"} /\ ~A /\ ~B /\ ~C /\ ~task[t].live
        /\ task[t].gen # 0
    BY <1>8 DEF LostWhilePolling, LeaseExpired, QueueTimedOut, ReservationTimedOut,
                UpstreamTimedOut, LostDuringSubmission, LostBeforeSubmission
  <2>2. RecoveredRow(t) = [task[t] EXCEPT !.lease = 0, !.live = FALSE]
    BY <1>8, <2>1 DEF RecoveredRow
  <2>3. /\ task'[t].status = task[t].status /\ task'[t].lease = 0 /\ ~task'[t].live
        /\ task'[t].gen = task[t].gen /\ task'[t].account = task[t].account
    BY <1>0, <1>1, <2>2 DEF TaskRow
  <2>4. res'[t].state = res[t].state /\ res'[t].account = res[t].account
    BY <1>0, <1>2, <1>8, <2>1 DEF ResRow
  <2>5. outbox'[t] = "due" /\ task[t].status \in Open /\ task'[t].status \in Open
        /\ res[t].account = task[t].account /\ up[t].calls # 0 /\ up[t].state # "none"
    BY <1>0, <1>3, <1>8, <2>1, <2>3 DEF Open, Executing, Settled
  <2>6. TaskMove(task[t], res[t], up[t], task'[t], res'[t], outbox'[t], up'[t])
    BY <1>0, <2>1, <2>3, <2>4, <2>5, OpenMove
  <2> QED BY <2>1, <2>3, <2>6 DEF Moved, HolderWrites
<1>9. CASE ~A /\ ~B /\ ~C /\ ~D
  <2>1. task'[t] = task[t] /\ res'[t] = res[t]
    BY <1>1, <1>2, <1>9 DEF RecoveredRow
  <2>2. task[t].status \in Open => outbox'[t] = outbox[t] \/ outbox'[t] \in {"due", "delayed"}
    BY <1>3, <2>1 DEF Open, Executing
  <2> QED BY <1>0, <2>1, <2>2, StayMoved
<1> QED BY <1>5, <1>6, <1>7, <1>8, <1>9

-----------------------------------------------------------------------------
(* Every step. *)

\* The steps of a worker.
LEMMA WorkerStepSettles ==
    ASSUME SettlementInv, SubmissionInv', NEW w \in Workers, WorkerStep(w)
    PROVE  StepSettles
<1> DEFINE t == worker[w].task
<1>0. /\ SubmissionInv /\ (worker[w].pc # "idle" => t \in Tasks) /\ worker[w].task = t
      /\ worker[w].gen \in Nat
      /\ worker[w].pc \in KnowsGeneration => worker[w].gen # 0
  BY WorkerFacts DEF SettlementInv, SubmissionInv, WorkersHaveTasks, WorkerState
<1>1. CASE ClaimTask(w)
  BY <1>1, ClaimSettles
<1>2. CASE FailEarly(w)
  BY <1>0, <1>2, FailTaskOwnedSettles, Returns, MovesSettle DEF FailEarly
<1>3. CASE StartUpload(w)
  <2>1. t \in Tasks /\ worker[w].pc = "owned"
    BY <1>0, <1>3 DEF StartUpload
  <2>2. CASE CanUpdate(t, worker[w].lease)
    <3>1. /\ task' = [task EXCEPT ![t].status = "uploading", ![t].account = worker[w].account]
          /\ worker' = [worker EXCEPT ![w].pc = "uploading"]
          /\ UNCHANGED <<msg, recov, up>> /\ UNCHANGED <<res, outbox, up>>
      BY <1>3, <2>2 DEF StartUpload
    <3>2. Owns(t, worker[w].lease)
      BY <2>2 DEF CanUpdate
    <3>3. task[t].status \in {"reserving", "uploading"} /\ task[t].lease = worker[w].lease
      BY <1>0, <2>1, <3>2 DEF Owns, SubmissionInv, RecordedBeforeCall
    <3>4. task[t].gen # 0 => up[t].state # "none"
      BY <2>1, TasksSettled DEF Settled
    <3> HIDE DEF t
    <3>5. UpdatesRow(t, "uploading", task[t].gen, worker[w].account)
      BY <1>0, <2>1, <3>1, TaskTypes DEF UpdatesRow, TaskRow
    <3>7. worker'[w] # worker[w]
      BY <1>0, <2>1, <3>1, WorkerGoesOn
    <3>6. RowsSettle
      BY <1>0, <2>1, <3>1, <3>2, <3>3, <3>4, <3>5, <3>7, HolderUpdateSettles DEF Executing
    <3> QED BY <1>0, <2>1, <3>1, <3>6, GoOnMoves, MovesSettle
  <2>3. CASE ~CanUpdate(t, worker[w].lease)
    <3>1. ReturnError(w) /\ UNCHANGED <<task, res, outbox>>
      BY <1>3, <2>3 DEF StartUpload
    <3> QED BY <1>0, <3>1, ReturnIdles, Returns, NoTaskMoves, MovesSettle
  <2> QED BY <2>2, <2>3
<1>4. CASE SubmissionFence(w)
  <2>1. t \in Tasks /\ worker[w].pc \in BeforeRecord
    BY <1>0, <1>4 DEF SubmissionFence
  <2>2. CASE worker' = [worker EXCEPT ![w].pc = "fenced"] /\ UNCHANGED <<task, res, outbox, msg, recov, up>>
    BY <1>0, <2>1, <2>2, NoTaskMoves, GoOnMoves, MovesSettle
  <2>3. CASE FailTaskOwned(t, worker[w].lease, "unsubmitted") /\ ReturnNil(w)
    BY <1>0, <2>1, <2>3, FailTaskOwnedSettles, Returns, MovesSettle
  <2>4. CASE WorkerYields(w)
    BY <2>1, <2>4, WorkerYieldsSettles, MovesSettle
  <2> QED BY <1>4, <2>2, <2>3, <2>4 DEF SubmissionFence
<1>5. CASE PrepareSubmission(w)
  BY <1>5, PrepareSettles
<1>6. CASE SubmitGeneration(w)
  <2>1. t \in Tasks
    BY <1>0, <1>6 DEF SubmitGeneration
  <2> HIDE DEF t
  <2> QED BY <1>0, <1>6, <2>1, SubmitSettles
<1>7. CASE RecordTaskSubmissionOwned(w)
  <2> DEFINE c == Owns(t, worker[w].lease) /\ task[t].status = "submitted"
  <2>1. t \in Tasks /\ worker[w].pc = "accepted"
    BY <1>0, <1>7 DEF RecordTaskSubmissionOwned
  <2>2. CASE c
    <3>1. /\ task' = [task EXCEPT ![t].gen = worker[w].gen, ![t].account = worker[w].account]
          /\ UNCHANGED <<res, outbox, up>> /\ worker' = [worker EXCEPT ![w].pc = "polling"]
          /\ UNCHANGED <<msg, recov, up>>
      BY <1>7, <2>2 DEF RecordTaskSubmissionOwned
    <3>2. up[t].state # "none"
      BY <2>1 DEF SettlementInv, WorkerInformed
    <3> HIDE DEF t
    <3>3. UpdatesRow(t, "submitted", worker[w].gen, worker[w].account)
      <4>1. task[t] \in TaskRow /\ task \in [Tasks -> TaskRow]
        BY <1>0, <2>1, TaskTypes
      <4> QED BY <2>1, <2>2, <3>1, <4>1 DEF UpdatesRow, TaskRow
    <3>5. worker'[w] # worker[w]
      BY <1>0, <2>1, <3>1, WorkerGoesOn
    <3>4. RowsSettle
      BY <1>0, <2>1, <2>2, <3>1, <3>2, <3>3, <3>5, HolderUpdateSettles DEF Executing
    <3> QED BY <1>0, <2>1, <3>1, <3>4, GoOnMoves, MovesSettle
  <2>3. CASE ~c
    <3>1. ReturnError(w) /\ UNCHANGED <<task, res, outbox>>
      BY <1>7, <2>3 DEF RecordTaskSubmissionOwned
    <3> QED BY <1>0, <3>1, ReturnIdles, Returns, NoTaskMoves, MovesSettle
  <2> QED BY <2>2, <2>3
<1>8. CASE SubmissionRejected(w)
  BY <1>0, <1>8, FailTaskOwnedSettles, Returns, MovesSettle DEF SubmissionRejected
<1>9. CASE SubmissionUnknown(w)
  BY <1>9, MarksUncertainSettles, MovesSettle DEF SubmissionUnknown
<1>10. CASE Resume(w)
  <2>1. worker[w].pc = "resume"
    BY <1>10 DEF Resume
  <2>2. CASE WorkerMarksUncertain(w)
    BY <2>1, <2>2, MarksUncertainSettles, MovesSettle
  <2>3. CASE WorkerYields(w)
    BY <2>1, <2>3, WorkerYieldsSettles, MovesSettle
  <2>4. CASE worker' = [worker EXCEPT ![w].pc = "polling"] /\ UNCHANGED <<task, res, outbox, msg, recov, up>>
    BY <1>0, <2>1, <2>4, NoTaskMoves, GoOnMoves, MovesSettle
  <2> QED BY <1>10, <2>2, <2>3, <2>4 DEF Resume
<1>11. CASE PollPending(w)
  <2>1. t \in Tasks /\ worker[w].pc = "sawPending" /\ up[t].state # "none"
    BY <1>0, <1>11 DEF PollPending, SettlementInv, WorkerInformed
  <2>2. CASE CanUpdate(t, worker[w].lease)
    <3>1. PICK s \in {"submitted", "polling"} :
            /\ task' = [task EXCEPT ![t].status = s, ![t].gen = worker[w].gen,
                                    ![t].account = worker[w].account]
            /\ UNCHANGED <<res, outbox, up>>
            /\ worker' = [worker EXCEPT ![w].pc = "polling"] /\ UNCHANGED <<msg, recov, up>>
      BY <1>11, <2>2 DEF PollPending
    <3>2. Owns(t, worker[w].lease) /\ up[t].calls # 0
      BY <2>1, <2>2, TasksSettled DEF CanUpdate, Settled
    <3>3. UpdatesRow(t, s, worker[w].gen, worker[w].account)
      BY <3>1 DEF UpdatesRow
    <3> HIDE DEF t
    <3>5. worker'[w] # worker[w]
      BY <1>0, <2>1, <3>1, WorkerGoesOn
    <3>4. RowsSettle
      BY <1>0, <2>1, <3>1, <3>2, <3>3, <3>5, HolderUpdateSettles DEF Executing
    <3> QED BY <1>0, <2>1, <3>1, <3>4, GoOnMoves, MovesSettle
  <2>3. CASE ~CanUpdate(t, worker[w].lease)
    <3>1. ReturnError(w) /\ UNCHANGED <<task, res, outbox>>
      BY <1>11, <2>3 DEF PollPending
    <3> QED BY <1>0, <3>1, ReturnIdles, Returns, NoTaskMoves, MovesSettle
  <2> QED BY <2>2, <2>3
<1>12. CASE PollComplete(w)
  <2>1. t \in Tasks /\ worker[w].pc = "sawComplete" /\ up[t].state = "complete"
    BY <1>0, <1>12 DEF PollComplete, SettlementInv, WorkerInformed
  <2>2. CASE /\ CompleteTaskOwned(t, worker[w].lease, worker[w].account, worker[w].gen)
             /\ ReturnNil(w)
    BY <1>0, <2>1, <2>2, CompleteTaskOwnedSettles, Returns, MovesSettle
  <2>3. CASE WorkerYields(w)
    BY <2>1, <2>3, WorkerYieldsSettles, MovesSettle
  <2>4. CASE WorkerMarksUncertain(w)
    BY <2>1, <2>4, MarksUncertainSettles, MovesSettle
  <2> QED BY <1>12, <2>2, <2>3, <2>4 DEF PollComplete
<1>15. CASE PollFailed(w)
  <2>1. t \in Tasks /\ worker[w].pc = "sawFailed" /\ up[t].state = "failed"
    BY <1>0, <1>15 DEF PollFailed, SettlementInv, WorkerInformed
  <2> QED BY <1>0, <1>15, <2>1, FailSubmittedTaskOwnedSettles, Returns, MovesSettle DEF PollFailed
<1>16. CASE PollTick(w) \/ PollStatus(w)
  <2>1. PollSteps(w) /\ worker[w].pc \in {"polling", "ticked"}
    BY <1>16, PollStepsWithin DEF PollTick, PollStatus
  <2>2. ExecMoves
    BY <1>0, <2>1, PollMoves
  <2>3. UNCHANGED <<task, res, outbox, up>>
    BY <1>0, <2>1, ReturnIdles DEF PollSteps
  <2> QED BY <2>2, <2>3, NoTaskMoves, MovesSettle
<1>13. CASE PollDeadline(w)
  BY <1>13, MarksUncertainSettles, MovesSettle DEF PollDeadline
<1>14. CASE PollInterrupted(w)
  <2>1. ReturnNil(w) /\ worker[w].pc \in {"polling", "ticked"} /\ ExecMoves
    BY <1>0, <1>14, Returns DEF PollInterrupted
  <2>2. CASE CanYield(t, worker[w].lease)
    BY <1>14, <2>1, <2>2, YieldSettles, MovesSettle DEF PollInterrupted
  <2>3. CASE ~CanYield(t, worker[w].lease)
    <3>1. UNCHANGED <<task, res, outbox>>
      BY <1>14, <2>3 DEF PollInterrupted
    <3> QED BY <1>0, <2>1, <3>1, ReturnIdles, NoTaskMoves, MovesSettle
  <2> QED BY <2>2, <2>3
<1> QED BY <1>1, <1>2, <1>3, <1>4, <1>5, <1>6, <1>7, <1>8, <1>9, <1>10, <1>11, <1>12, <1>13, <1>14,
           <1>15, <1>16 DEF WorkerStep

\* The scheduler, the client, the administrator, the provider and the clock.
LEMMA TaskStepSettles ==
    ASSUME SettlementInv, SubmissionInv', NEW t \in Tasks, TaskStep(t)
    PROVE  StepSettles
<1>0. /\ SubmissionInv /\ ExecMoves
      /\ task[t] \in TaskRow /\ res[t] \in ResRow /\ up[t] \in ProviderState
      /\ task'[t] \in TaskRow /\ res'[t] \in ResRow /\ up'[t] \in ProviderState
      /\ task \in [Tasks -> TaskRow] /\ res \in [Tasks -> ResRow]
      /\ outbox \in [Tasks -> OutboxRow] /\ up \in [Tasks -> ProviderState]
      /\ Settled(task[t], res[t], outbox[t], up[t])
  BY TaskStepMoves, TaskTypes, NextTaskTypes, TasksSettled DEF SettlementInv
<1>1. /\ task[t].status \in {"absent", "queued", "submission_uncertain"} => task[t].lease = 0 /\ ~task[t].live
      /\ task[t].status \in {"absent", "queued"} => up[t].calls = 0 /\ up[t].state = "none" /\ task[t].gen = 0
  BY <1>0 DEF Settled, SubmissionInv, LeasesFresh, RecordedBeforeCall, Terminal, Unsubmitted
<1>2. ASSUME OthersStay(t), UNCHANGED up, task'[t].lease = task[t].lease,
             task[t].live => Written(t)' = Written(t),
             TaskMove(task[t], res[t], up[t], task'[t], res'[t], outbox'[t], up'[t])
      PROVE  StepSettles
  <2>1. Moved(t) /\ HolderWrites(t)
    BY <1>0, <1>2 DEF Moved, HolderWrites
  <2> QED BY <1>0, <1>2, <2>1, OneTaskSettles, MovesSettle
<1>3. ASSUME NEW a \in Accounts, CreateReservedTask(t, a)
      PROVE  StepSettles
  <2>1. /\ task' = [task EXCEPT ![t].status = "queued", ![t].account = a]
        /\ res' = [res EXCEPT ![t].state = "held", ![t].account = a]
        /\ outbox' = [outbox EXCEPT ![t] = "due"] /\ task[t].status = "absent" /\ up' = up
    BY <1>3 DEF CreateReservedTask, execVars
  <2>2. /\ task'[t].status = "queued" /\ task'[t].account = a /\ task'[t].lease = task[t].lease
        /\ task'[t].gen = task[t].gen /\ task'[t].live = task[t].live
        /\ res'[t].state = "held" /\ res'[t].account = a /\ outbox'[t] = "due"
    BY <1>0, <2>1 DEF TaskRow, ResRow
  <2>3. OthersStay(t)
    BY <1>0, <2>1 DEF OthersStay
  <2>4. TaskMove(task[t], res[t], up[t], task'[t], res'[t], outbox'[t], up'[t])
    BY <1>0, <1>1, <2>1, <2>2, AdmitMove
  <2> QED BY <1>1, <1>2, <2>1, <2>2, <2>3, <2>4
<1>4. ASSUME NEW s \in {"cancelled", "failed"}, NEW why,
             task[t].status \in {"queued", "submission_uncertain"},
             task' = [task EXCEPT ![t].status = s], res' = Release(t, why),
             Wakes(t, task[t].account, "delivered")
      PROVE  /\ OthersStay(t) /\ task'[t].status = s /\ task'[t].lease = 0 /\ ~task'[t].live
             /\ task'[t].gen = task[t].gen
             /\ res[t].state = "held" => res'[t].state = "released" /\ res'[t].reason = why
             /\ res[t].state # "held" => res'[t] = res[t]
  <2>1. /\ task'[t].status = s /\ task'[t].lease = task[t].lease /\ task'[t].live = task[t].live
        /\ task'[t].gen = task[t].gen /\ \A u \in Tasks \ {t} : task'[u] = task[u]
    BY <1>0, <1>4 DEF TaskRow
  <2>2. \A u \in Tasks \ {t} : res'[u] = res[u] /\ outbox'[u] \in {outbox[u], "due"}
    BY <1>0, <1>4, Released, WakeOthers
  <2>3. OthersStay(t)
    BY <2>1, <2>2 DEF OthersStay
  <2> QED BY <1>0, <1>1, <1>4, <2>1, <2>3, Released
<1>5. CASE CancelQueuedTaskAndRelease(t)
  <2>1. /\ task[t].status = "queued" /\ task' = [task EXCEPT ![t].status = "cancelled"]
        /\ res' = Release(t, "unsubmitted") /\ Wakes(t, task[t].account, "delivered") /\ up' = up
    BY <1>5 DEF CancelQueuedTaskAndRelease, Wakes, execVars
  <2>2. /\ OthersStay(t) /\ task'[t].status = "cancelled" /\ task'[t].lease = 0 /\ ~task'[t].live
        /\ task'[t].gen = task[t].gen
        /\ res[t].state = "held" => res'[t].state = "released" /\ res'[t].reason = "unsubmitted"
    BY <1>4, <2>1
  <2>3. res[t].state = "held"
    BY <1>0, <2>1 DEF Settled, Open
  <2>4. TaskMove(task[t], res[t], up[t], task'[t], res'[t], outbox'[t], up'[t])
    BY <1>0, <1>1, <2>1, <2>2, <2>3, EndMove DEF Open
  <2> QED BY <1>1, <1>2, <2>1, <2>2, <2>4
<1>6. CASE ConfirmSubmissionNotCreated(t)
  <2>1. /\ task[t].status = "submission_uncertain" /\ task' = [task EXCEPT ![t].status = "failed"]
        /\ res' = Release(t, "not_created") /\ Wakes(t, task[t].account, "delivered") /\ up' = up
    BY <1>6 DEF ConfirmSubmissionNotCreated, Wakes, execVars
  <2>2. /\ OthersStay(t) /\ task'[t].status = "failed" /\ task'[t].lease = 0 /\ ~task'[t].live
        /\ task'[t].gen = task[t].gen
        /\ res[t].state = "held" => res'[t].state = "released" /\ res'[t].reason = "not_created"
        /\ res[t].state # "held" => res'[t] = res[t]
    BY <1>4, <2>1
  <2>3. res[t].state = "held" \/ (res[t].state = "released" /\ res[t].reason = "manual")
    BY <1>0, <2>1 DEF Settled
  <2>4. TaskMove(task[t], res[t], up[t], task'[t], res'[t], outbox'[t], up'[t])
    BY <1>0, <1>1, <2>1, <2>2, <2>3, DecideMove
  <2> QED BY <1>1, <1>2, <2>1, <2>2, <2>4
<1>7. CASE adminReleaseTaskReservation(t)
  <2>1. /\ task[t].status = "submission_uncertain" /\ res[t].state = "held"
        /\ res' = Release(t, "manual") /\ UNCHANGED <<task, outbox, up>>
    BY <1>7 DEF adminReleaseTaskReservation, execVars
  <2>2. /\ res'[t].state = "released" /\ res'[t].reason = "manual"
        /\ \A u \in Tasks \ {t} : res'[u] = res[u]
    BY <1>0, <2>1, Released
  <2>3. OthersStay(t)
    BY <2>1, <2>2 DEF OthersStay
  <2>4. TaskMove(task[t], res[t], up[t], task'[t], res'[t], outbox'[t], up'[t])
    BY <1>0, <1>1, <2>1, <2>2, DecideMove
  <2> QED BY <1>1, <1>2, <2>1, <2>3, <2>4
<1>8. CASE Dispatch(t) \/ DispatchFails(t) \/ OutboxDelayElapses(t)
  <2>1. UNCHANGED <<task, res, up>> /\ \E o \in {"due", "delayed"} : outbox' = [outbox EXCEPT ![t] = o]
    BY <1>8 DEF Dispatch, DispatchFails, OutboxDelayElapses, execVars
  <2>2. outbox'[t] \in {"due", "delayed"} /\ OthersStay(t)
    BY <1>0, <2>1 DEF OthersStay
  <2> QED BY <1>0, <2>1, <2>2, StayMoved, OneTaskSettles, MovesSettle
<1>9. CASE ArchiveOrphan(t) \/ TenMinutesPass(t)
  <2>1. UNCHANGED <<task, res, outbox, up>>
    BY <1>9 DEF ArchiveOrphan, TenMinutesPass, tableVars, execVars
  <2> QED BY <1>0, <2>1, NoTaskMoves, MovesSettle
<1>10. CASE LeaseExpires(t) \/ DeadlinePasses(t)
  <2>1. /\ UNCHANGED <<res, outbox, up>>
        /\ \/ task' = [task EXCEPT ![t].live = FALSE]
           \/ task' = [task EXCEPT ![t].queueLate = TRUE]
           \/ task' = [task EXCEPT ![t].upstreamLate = TRUE]
    BY <1>10 DEF LeaseExpires, DeadlinePasses, execVars
  <2>2. /\ task'[t].status = task[t].status /\ task'[t].account = task[t].account
        /\ task'[t].gen = task[t].gen /\ task'[t].lease = task[t].lease
        /\ task'[t].live => task[t].live
        /\ \A u \in Tasks \ {t} : task'[u] = task[u]
    BY <1>0, <2>1 DEF TaskRow
  <2>3. OthersStay(t)
    BY <2>1, <2>2 DEF OthersStay
  <2>4. TaskMove(task[t], res[t], up[t], task'[t], res'[t], outbox'[t], up'[t])
    BY <1>0, <2>1, <2>2, SameMove
  <2>5. Written(t)' = Written(t)
    BY <2>1, <2>2 DEF Written
  <2> QED BY <1>2, <2>1, <2>2, <2>3, <2>4, <2>5
<1>11. CASE ReservationExpires(t)
  <2>1. res' = [res EXCEPT ![t].late = TRUE] /\ UNCHANGED <<task, outbox, up>>
    BY <1>11 DEF ReservationExpires, execVars
  <2>2. /\ res'[t].state = res[t].state /\ res'[t].account = res[t].account
        /\ res'[t].reason = res[t].reason /\ \A u \in Tasks \ {t} : res'[u] = res[u]
    BY <1>0, <2>1 DEF ResRow
  <2>3. OthersStay(t)
    BY <2>1, <2>2 DEF OthersStay
  <2>4. TaskMove(task[t], res[t], up[t], task'[t], res'[t], outbox'[t], up'[t])
    BY <1>0, <2>1, <2>2, SameMove
  <2>5. Written(t)' = Written(t)
    BY <2>1, <2>2 DEF Written
  <2> QED BY <1>2, <2>1, <2>3, <2>4, <2>5
<1>12. CASE UpstreamFinishes(t)
  <2>1. PICK s \in {"complete", "failed"} : up' = [up EXCEPT ![t].state = s]
    BY <1>12 DEF UpstreamFinishes
  <2>2. UNCHANGED <<task, res, outbox>> /\ up[t].state = "running"
    BY <1>12 DEF UpstreamFinishes, tableVars
  <2>3. /\ up'[t].state = s /\ up'[t].calls = up[t].calls
        /\ \A u \in Tasks \ {t} : up'[u] = up[u]
    BY <1>0, <2>1 DEF ProviderState
  <2>4. TaskMove(task[t], res[t], up[t], task[t], res[t], outbox[t], up'[t])
    BY <1>0, <2>2, <2>3, FinishMove
  <2>5. Moved(t) /\ HolderWrites(t)
    BY <2>2, <2>4 DEF Moved, HolderWrites, Written
  <2>6. ASSUME NEW u \in Tasks \ {t} PROVE Moved(u) /\ HolderWrites(u)
    BY <2>2, <2>3, StayMoved
  <2>7. RowsSettle
    BY <2>5, <2>6 DEF RowsSettle
  <2> QED BY <1>0, <2>7, MovesSettle
<1> QED BY <1>3, <1>5, <1>6, <1>7, <1>8, <1>9, <1>10, <1>11, <1>12 DEF TaskStep

\* Every step of the specification.
LEMMA StepKeepsSettlement ==
    ASSUME SettlementInv, [Next]_vars
    PROVE  StepSettles
<1>1. SubmissionInv /\ SubmissionInv'
  BY StepKeepsSubmissionInv DEF SettlementInv
<1>2. CASE \E t \in Tasks : TaskStep(t)
  BY <1>1, <1>2, TaskStepSettles
<1>3. CASE \E w \in Workers : WorkerStep(w)
  BY <1>1, <1>3, WorkerStepSettles
<1>4. ASSUME NEW w \in Workers,
             HandlerError(w) \/ Crash(w) \/ QueueLeaseLost(w) \/ \E t \in Tasks : TakeMessage(w, t)
      PROVE  StepSettles
  <2>1. UNCHANGED <<task, res, outbox, up>>
    BY <1>4 DEF HandlerError, Crash, QueueLeaseLost, TakeMessage, tableVars, ReturnError, Return
  <2> QED BY <1>1, <1>4, <2>1, FaultMoves, NoTaskMoves, MovesSettle
<1>5. CASE RecoverStaleTasks
  <2>1. RowsSettle
    BY <1>1, <1>5, RecoveredTaskMoves DEF RowsSettle
  <2>2. ExecMoves
    BY <1>1, <1>5, NoExecMoves DEF RecoverStaleTasks
  <2> QED BY <1>1, <2>1, <2>2, MovesSettle
<1>6. CASE UNCHANGED <<task, res, outbox>> /\ UNCHANGED execVars
  <2>1. UNCHANGED <<task, res, outbox, up>> /\ ExecMoves
    BY <1>1, <1>6, NoExecMoves DEF execVars
  <2> QED BY <1>1, <2>1, NoTaskMoves, MovesSettle
<1>7. PriceRuleChanges \/ PauseChanges \/ (\E a \in Accounts : AccountHealthChanges(a)) \/ UNCHANGED vars =>
        UNCHANGED <<task, res, outbox>> /\ UNCHANGED execVars
  BY DEF PriceRuleChanges, PauseChanges, AccountHealthChanges, vars, execVars
<1> QED BY <1>2, <1>3, <1>4, <1>5, <1>6, <1>7 DEF Next

-----------------------------------------------------------------------------
(* The theorems. *)

\* SettlementInv is an invariant: in every reachable state each task is settled with
\* its credits and with what the provider did, and every worker's knowledge is true.
THEOREM SettlementInvariant == Spec => []SettlementInv
<1>1. ASSUME Init, SubmissionInv PROVE SettlementInv
  <2>1. /\ \A t \in Tasks : /\ task[t].status = "absent" /\ task[t].gen = 0
                            /\ res[t].state = "none" /\ up[t].calls = 0 /\ up[t].state = "none"
        /\ \A w \in Workers : worker[w].pc = "idle" /\ worker[w].lease = 0
    BY <1>1 DEF Init, TablesInit, NewTask, NewReservation, IdleWorker
  <2>2. \A t \in Tasks : ~task[t].live
    BY <1>1 DEF Init, TablesInit, NewTask
  <2>3. CreditsFollowGeneration /\ SettledWithTask /\ NoLostTask
    BY <2>1, <2>2 DEF CreditsFollowGeneration, SettledWithTask, NoLostTask, Executing
  <2>4. \A t \in Tasks : RowSettled(t)
    BY <2>1, <2>2 DEF RowSettled
  <2>5. \A w \in Workers : WorkerInformed(w)
    BY <2>1, <2>2 DEF WorkerInformed
  <2> QED BY <1>1, <2>3, <2>4, <2>5 DEF SettlementInv
<1>2. SettlementInv /\ [Next]_vars => SettlementInv'
  BY StepKeepsSettlement DEF StepSettles
<1>3. Init /\ SubmissionInv => SettlementInv
  BY <1>1
<1> QED BY <1>2, <1>3, SubmissionInvariant, PTL DEF Spec

\* Credits go with what the provider really did, for any number of tasks, workers and
\* accounts: charged for a complete generation only, given back without a human
\* decision only when nothing was created or the generation failed.
THEOREM CreditsAreRight == Spec => []CreditsFollowGeneration
<1>1. SettlementInv => CreditsFollowGeneration
  BY DEF SettlementInv
<1> QED BY <1>1, SettlementInvariant, PTL

\* A task and its reservation are settled together and on the same account.
THEOREM SettledTogether == Spec => []SettledWithTask
<1>1. SettlementInv => SettledWithTask
  BY DEF SettlementInv
<1> QED BY <1>1, SettlementInvariant, PTL

\* No unfinished task is ever out of reach of both the dispatcher and the recovery pass.
THEOREM LosesNoTask == Spec => []NoLostTask
<1>1. SettlementInv => NoLostTask
  BY DEF SettlementInv
<1> QED BY <1>1, SettlementInvariant, PTL

\* While a lease is live only its holder moves the task or takes the lease away.
THEOREM LeaseHolderWrites == Spec => OnlyLeaseHolderWrites
<1>1. SettlementInv /\ [Next]_vars => \A t \in Tasks : HolderWrites(t)
  BY StepKeepsSettlement DEF StepSettles
<1> QED BY <1>1, SettlementInvariant, PTL DEF Spec, OnlyLeaseHolderWrites, HolderWrites, Written

\* The gateway implements PaidTask: every step of workers, scheduler, client,
\* administrator and provider is a move that the promise allows, or none.
THEOREM RefinesPaidTask == Spec => ImplementsPaidTask
<1>1. Init => Paid!PaidInit
  <2> SUFFICES ASSUME Init, NEW t \in Tasks PROVE LifeOf(t) = Paid!NewLife
    BY DEF Paid!PaidInit
  <2>1. task[t].status = "absent" /\ res[t].state = "none" /\ up[t].state = "none"
    BY DEF Init, TablesInit, NewTask, NewReservation
  <2>2. LifeOf(t) = LifeVal(task[t], res[t], up[t])
    BY DEF LifeOf, LifeVal, LifeState
  <2>3. LifeState(task[t], res[t]) = "absent"
    BY <2>1, LifeStates
  <2> QED BY <2>1, <2>2, <2>3 DEF LifeVal, Paid!NewLife
<1>2. SettlementInv /\ [Next]_vars => [Paid!PaidNext]_([t \in Tasks |-> LifeOf(t)])
  <2> SUFFICES ASSUME SettlementInv, [Next]_vars PROVE Paid!PaidNext
    OBVIOUS
  <2>1. StepSettles
    BY StepKeepsSettlement
  <2>2. ASSUME NEW t \in Tasks PROVE LifeOf(t)' \in Paid!Life
    <3>1. task'[t] \in TaskRow /\ res'[t] \in ResRow /\ up'[t] \in ProviderState
      BY <2>1, NextTaskTypes DEF StepSettles, SettlementInv
    <3>2. LifeOf(t)' = LifeVal(task'[t], res'[t], up'[t])
      BY DEF LifeOf, LifeVal, LifeState
    <3> QED BY <3>1, <3>2, LifeType
  <2>3. \A t \in Tasks : LifeOf(t)' = LifeOf(t) \/ LifeOf(t)' \in Paid!Moves(LifeOf(t))
    BY <2>1 DEF StepSettles, LifeMoves
  <2> QED BY <2>2, <2>3 DEF Paid!PaidNext
<1> QED BY <1>1, <1>2, SettlementInvariant, PTL DEF Spec, ImplementsPaidTask, Paid!PaidSpec

-----------------------------------------------------------------------------
(* The order among the waiting tasks of an account. *)

\* A set of tasks has an oldest one.
LEMMA OldestTask ==
    ASSUME NEW S \in SUBSET Nat, S # {}
    PROVE  \E t \in S : \A u \in S : t <= u
<1>1. PICK t \in S : \A u \in S : ~(<<u, t>> \in OpToRel(<, Nat))
  BY WFMin, NatLessThanWellFounded, Zenon
<1>2. \A u \in S : ~(u < t)
  BY <1>1 DEF OpToRel
<1> QED BY <1>2

\* Among waiting tasks one goes before which none of the others goes: the oldest if
\* no video waits, the oldest video unless an older ordinary task has aged, and
\* otherwise the oldest ordinary task, which has aged as well.
LEMMA SomeTaskIsNext ==
    ASSUME AgedInOrder, NEW W \in SUBSET Tasks, W # {}
    PROVE  \E t \in W : \A u \in W : ~GoesBefore(u, t)
<1>0. W \in SUBSET Nat /\ VideoTasks \subseteq Tasks
  BY TableAssumptions
<1>1. CASE W \cap VideoTasks = {}
  <2>1. PICK t \in W : \A u \in W : t <= u
    BY <1>0, OldestTask
  <2>2. \A u \in W : ~GoesBefore(u, t)
    BY <1>0, <1>1, <2>1 DEF GoesBefore
  <2> QED BY <2>2
<1>2. CASE W \cap VideoTasks # {}
  <2>1. PICK v \in W \cap VideoTasks : \A u \in W \cap VideoTasks : v <= u
    <3>1. W \cap VideoTasks \in SUBSET Nat
      BY <1>0
    <3> QED BY <1>2, <3>1, OldestTask
  <2>2. CASE \A u \in W \ VideoTasks : u \in aged => ~(u < v)
    <3>1. \A u \in W : ~GoesBefore(u, v)
      BY <1>0, <2>1, <2>2 DEF GoesBefore
    <3> QED BY <2>1, <3>1
  <2>3. ASSUME NEW o \in W \ VideoTasks, o \in aged, o < v
        PROVE  \E t \in W : \A u \in W : ~GoesBefore(u, t)
    <3>1. PICK t \in W \ VideoTasks : \A u \in W \ VideoTasks : t <= u
      <4>1. W \ VideoTasks \in SUBSET Nat
        BY <1>0
      <4> QED BY <2>3, <4>1, OldestTask
    <3>2. t \in aged
      BY <1>0, <2>3, <3>1 DEF AgedInOrder
    <3>3. \A u \in W : ~GoesBefore(u, t)
      BY <1>0, <3>1, <3>2 DEF GoesBefore
    <3> QED BY <3>1, <3>3
  <2> QED BY <2>2, <2>3
<1> QED BY <1>1, <1>2

\* That task may start on an idle account, whose slots are all free.
LEMMA IdleServes ==
    ASSUME OrdinarySlots, AgedInOrder
    PROVE  IdleAccountServesQueue
<1> SUFFICES ASSUME NEW a \in Accounts, ActiveOn(a) = {},
                    {t \in Tasks : task[t].status = "queued" /\ task[t].account = a /\ KeyHasSlot(KeyOf[t])} # {}
             PROVE  \E t \in {t \in Tasks : task[t].status = "queued" /\ task[t].account = a /\ KeyHasSlot(KeyOf[t])} :
                       AccountHasSlot(t, a, ActiveOn(a))
  BY DEF IdleAccountServesQueue
<1> DEFINE W == {t \in Tasks : task[t].status = "queued" /\ task[t].account = a /\ KeyHasSlot(KeyOf[t])}
<1>1. PICK t \in W : \A u \in W : ~GoesBefore(u, t)
  <2>1. W \in SUBSET Tasks /\ W # {}
    OBVIOUS
  <2> HIDE DEF W
  <2> QED BY <2>1, SomeTaskIsNext
<1>2. ~earlierQueued(t, a)
  BY <1>1 DEF earlierQueued
<1>3. Cardinality(ActiveOn(a)) = 0 /\ Cardinality(ActiveOn(a) \ VideoTasks) = 0
  <2>1. ActiveOn(a) \ VideoTasks = {}
    OBVIOUS
  <2> QED BY <2>1, FS_EmptySet, Zenon
<1>4. Cardinality(ActiveOn(a)) < Concurrency[a]
  BY <1>3, TableAssumptions
<1>5. a \in VideoReserved => Cardinality(ActiveOn(a) \ VideoTasks) < Concurrency[a] - VideoReservedSlots[a]
  BY <1>3, TableAssumptions DEF OrdinarySlots
<1>6. AccountHasSlot(t, a, ActiveOn(a))
  BY <1>2, <1>4, <1>5 DEF AccountHasSlot
<1> QED BY <1>1, <1>6

\* Only the clock makes tasks old.
LEMMA OnlyTimeAges ==
    ASSUME Next
    PROVE  UNCHANGED aged \/ \E t \in Tasks : TenMinutesPass(t)
<1>1. ASSUME NEW t \in Tasks, TaskStep(t) PROVE UNCHANGED aged \/ TenMinutesPass(t)
  BY <1>1 DEF TaskStep, CreateReservedTask, CancelQueuedTaskAndRelease, Dispatch, DispatchFails, ArchiveOrphan,
       ConfirmSubmissionNotCreated, adminReleaseTaskReservation, LeaseExpires, DeadlinePasses, ReservationExpires,
       OutboxDelayElapses, UpstreamFinishes, tableVars
<1>2. ASSUME NEW w \in Workers, WorkerStep(w) PROVE UNCHANGED aged
  BY <1>2 DEF WorkerStep, ClaimTask, FailEarly, StartUpload, SubmissionFence, PrepareSubmission, SubmitGeneration,
       RecordTaskSubmissionOwned, SubmissionRejected, SubmissionUnknown, Resume, PollTick, PollStatus, PollPending,
       PollComplete, PollFailed, PollDeadline, PollInterrupted, tableVars
<1>3. ASSUME NEW w \in Workers, HandlerError(w) \/ Crash(w) \/ QueueLeaseLost(w) PROVE UNCHANGED aged
  BY <1>3 DEF HandlerError, Crash, QueueLeaseLost, tableVars
<1>4. ASSUME NEW w \in Workers, NEW t \in Tasks, TakeMessage(w, t) PROVE UNCHANGED aged
  BY <1>4 DEF TakeMessage, tableVars
<1>5. RecoverStaleTasks => UNCHANGED aged
  BY DEF RecoverStaleTasks
<1>6. ASSUME NEW a \in Accounts, AccountHealthChanges(a) PROVE UNCHANGED aged
  BY <1>6 DEF AccountHealthChanges
<1>7. PriceRuleChanges \/ PauseChanges => UNCHANGED aged
  BY DEF PriceRuleChanges, PauseChanges
<1> QED BY <1>1, <1>2, <1>3, <1>4, <1>5, <1>6, <1>7, Zenon DEF Next

\* Wherever some slots are open to ordinary work, an idle account with work waiting
\* can start some of it: aging and the slots kept for video never make all of it wait.
THEOREM IdleAccountsServe ==
    ASSUME OrdinarySlots
    PROVE  Spec => []IdleAccountServesQueue
<1>1. Init => AgedInOrder
  BY DEF Init, TablesInit, AgedInOrder
<1>2. ASSUME AgedInOrder, [Next]_vars PROVE AgedInOrder'
  <2>1. CASE UNCHANGED aged
    BY <1>2, <2>1 DEF AgedInOrder
  <2>2. ASSUME NEW t \in Tasks, TenMinutesPass(t) PROVE AgedInOrder'
    BY <1>2, <2>2 DEF TenMinutesPass, AgedInOrder
  <2> QED BY <1>2, <2>1, <2>2, OnlyTimeAges DEF vars
<1>3. AgedInOrder => IdleAccountServesQueue
  BY IdleServes
<1> QED BY <1>1, <1>2, <1>3, PTL DEF Spec

=============================================================================
