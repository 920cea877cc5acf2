------------------------ MODULE TaskExecution_proofs ------------------------
(***************************************************************************)
(* Proofs that TaskExecution keeps its types and that no task is ever      *)
(* submitted twice, for any number of tasks, accounts, keys and workers    *)
(* and whatever faults Events allows.                                      *)
(***************************************************************************)
EXTENDS TaskExecution, TLAPS

\* The groups of a worker's program points are expanded everywhere.
USE DEF BeforeRecord, KnowsGeneration, Poll

-----------------------------------------------------------------------------
(* Steps that keep the invariant.  Almost every step moves task rows and     *)
(* workers in one of the ways below, and calls no provider.                  *)

\* A row may lose its lease, never takes a new one; it does not go back from a
\* recorded submission, and leaves the unsubmitted statuses only without its lease.
RowMove(old, new) ==
    /\ new.attempt = old.attempt
    /\ new.lease \in {0, old.lease}
    /\ new.status \in {"absent", "queued"} \cup Terminal => new.lease = 0
    /\ new.status \in Unsubmitted => old.status \in Unsubmitted /\ new.gen = old.gen
    /\ new.status = "polling" => new.gen # 0
    /\ old.status \in {"reserving", "uploading"} /\ new.lease # 0 =>
         new.status \in {"reserving", "uploading"}

\* A worker stops, takes a message, or goes on with its task without coming
\* closer to the provider call than the fence.
WorkerMove(old, new) ==
    \/ new = IdleWorker
    \/ new.pc = "claim" /\ new.task \in Tasks /\ new.lease = 0
    \/ /\ new.task = old.task /\ new.lease = old.lease /\ new.gen = old.gen
       /\ new.account = old.account
       /\ \/ new.pc = old.pc /\ old.pc # "idle"
          \/ old.pc \in BeforeRecord /\ new.pc \in BeforeRecord
          \/ /\ old.pc \in KnowsGeneration /\ new.pc \in Poll
             /\ new.pc = "sawComplete" => up[old.task].state = "complete"
             /\ new.pc = "sawFailed" => up[old.task].state = "failed"

\* A row of the invariant's states may stay as it is.
LEMMA RowFacts ==
    ASSUME SubmissionInv, NEW t \in Tasks
    PROVE  /\ task[t] \in TaskRow
           /\ RowMove(task[t], task[t])
BY DEF SubmissionInv, TypeOK, TablesTypeOK, LeasesFresh, RecordedBeforeCall, RowMove

\* Steps made of these moves keep the invariant.
LEMMA LegalStep ==
    ASSUME SubmissionInv, TypeOK',
           \A t \in Tasks : RowMove(task[t], task'[t]) /\ up'[t].calls = up[t].calls,
           \A w \in Workers : WorkerMove(worker[w], worker'[w])
    PROVE  SubmissionInv'
<1> USE DEF SubmissionInv
<1>1. TypeOK /\ WorkersHaveTasks /\ LeasesFresh /\ RecordedBeforeCall /\ AtMostOneSubmission
  OBVIOUS
<1>2. WorkersHaveTasks'
  BY <1>1 DEF WorkersHaveTasks, WorkerMove, IdleWorker
<1>3. LeasesFresh'
  <2>1. \A t \in Tasks :
          /\ task'[t].lease <= task'[t].attempt
          /\ task'[t].status \in {"absent", "queued"} \cup Terminal => task'[t].lease = 0
    BY <1>1 DEF LeasesFresh, RowMove, TypeOK, TablesTypeOK, TaskRow
  <2>2. \A w \in Workers :
         IF worker'[w].pc \in {"idle", "claim"}
           THEN worker'[w].lease = 0
           ELSE worker'[w].lease \in 1..task'[worker'[w].task].attempt
    BY <1>1 DEF LeasesFresh, RowMove, WorkerMove, IdleWorker, WorkersHaveTasks
  <2>3. \A v, w \in Workers :
         v # w /\ worker'[v].task = worker'[w].task /\ worker'[v].lease # 0 =>
           worker'[v].lease # worker'[w].lease
    BY <1>1 DEF LeasesFresh, WorkerMove, IdleWorker
  <2> QED BY <2>1, <2>2, <2>3 DEF LeasesFresh
<1>4. RecordedBeforeCall'
  <2>1. \A t \in Tasks :
         /\ task'[t].status \in Unsubmitted => up'[t].calls = 0 /\ task'[t].gen = 0
         /\ task'[t].status = "polling" => task'[t].gen # 0
    BY <1>1 DEF RecordedBeforeCall, RowMove
  <2>2. ASSUME NEW w \in Workers
        PROVE  /\ worker'[w].pc \in BeforeRecord
                    /\ worker'[w].lease = task'[worker'[w].task].lease =>
                    task'[worker'[w].task].status \in {"reserving", "uploading"}
               /\ worker'[w].pc \in KnowsGeneration \cup {"prepared"} =>
                    task'[worker'[w].task].status \notin Unsubmitted
               /\ worker'[w].pc = "prepared" => up'[worker'[w].task].calls = 0
    BY <1>1, <2>2 DEF RecordedBeforeCall, RowMove, WorkerMove, IdleWorker, LeasesFresh, WorkersHaveTasks
  <2>3. \A v, w \in Workers :
         worker'[v].pc = "prepared" /\ worker'[w].pc = "prepared" /\ v # w =>
           worker'[v].task # worker'[w].task
    BY <1>1 DEF RecordedBeforeCall, WorkerMove, IdleWorker
  <2> QED BY <2>1, <2>2, <2>3 DEF RecordedBeforeCall
<1>5. AtMostOneSubmission'
  BY <1>1 DEF AtMostOneSubmission
<1> QED BY <1>2, <1>3, <1>4, <1>5

-----------------------------------------------------------------------------
(* The operations on the tables: they keep the types and move one row. *)

RowsOK == task \in [Tasks -> TaskRow] /\ res \in [Tasks -> ResRow] /\ outbox \in [Tasks -> OutboxRow]

RowsMove == RowsOK' /\ \A u \in Tasks : RowMove(task[u], task'[u])

\* Waking queued tasks only makes outbox rows due.
LEMMA WakeType ==
    ASSUME NEW t, NEW a, NEW rows, NEW ob \in [Tasks -> OutboxRow], Wake(t, a, rows, ob)
    PROVE  outbox' \in [Tasks -> OutboxRow]
BY DEF Wake, OutboxRow

\* Releasing a reservation keeps the shape of its row.
LEMMA ReleaseType ==
    ASSUME NEW t \in Tasks, NEW why \in Reason, res \in [Tasks -> ResRow]
    PROVE  Release(t, why) \in [Tasks -> ResRow]
BY DEF Release, ResRow

\* A changed row, a reservation that keeps its shape and a wake-up.
LEMMA OneRowMoves ==
    ASSUME SubmissionInv, NEW t \in Tasks, NEW r \in TaskRow, NEW a,
           NEW status \in OutboxRow,
           task' = [task EXCEPT ![t] = r], RowMove(task[t], r),
           res' \in [Tasks -> ResRow],
           Wake(t, a, task', [outbox EXCEPT ![t] = status])
    PROVE  RowsMove
<1>1. task \in [Tasks -> TaskRow] /\ outbox \in [Tasks -> OutboxRow]
  BY DEF SubmissionInv, TypeOK, TablesTypeOK
<1>2. [outbox EXCEPT ![t] = status] \in [Tasks -> OutboxRow]
  BY <1>1
<1>3. outbox' \in [Tasks -> OutboxRow]
  BY <1>2, WakeType
<1>4. \A u \in Tasks : RowMove(task[u], task'[u])
  BY <1>1, RowFacts
<1> QED BY <1>1, <1>3, <1>4 DEF RowsMove, RowsOK

\* A changed row alone.
LEMMA OneRowOnlyMoves ==
    ASSUME SubmissionInv, NEW t \in Tasks, NEW r \in TaskRow,
           task' = [task EXCEPT ![t] = r], RowMove(task[t], r), UNCHANGED <<res, outbox>>
    PROVE  RowsMove
<1>1. /\ task \in [Tasks -> TaskRow] /\ res \in [Tasks -> ResRow]
      /\ outbox \in [Tasks -> OutboxRow]
  BY DEF SubmissionInv, TypeOK, TablesTypeOK
<1>2. \A u \in Tasks : RowMove(task[u], task'[u])
  BY <1>1, RowFacts
<1> QED BY <1>1, <1>2 DEF RowsMove, RowsOK

\* Nothing in the tables changes.
LEMMA NoRowMoves ==
    ASSUME SubmissionInv, UNCHANGED <<task, res, outbox>>
    PROVE  RowsMove
BY RowFacts DEF RowsMove, RowsOK, SubmissionInv, TypeOK, TablesTypeOK

\* The task ends: it loses its lease and wakes the tasks behind it.
LEMMA EndMoves ==
    ASSUME SubmissionInv, NEW t \in Tasks, NEW a, NEW s \in Terminal,
           task' = [task EXCEPT ![t].status = s, ![t].lease = 0, ![t].live = FALSE],
           res' \in [Tasks -> ResRow],
           Wake(t, a, task', [outbox EXCEPT ![t] = "delivered"])
    PROVE  RowsMove
<1> DEFINE r == [task[t] EXCEPT !.status = s, !.lease = 0, !.live = FALSE]
<1>1. task[t] \in TaskRow /\ task \in [Tasks -> TaskRow]
  BY DEF SubmissionInv, TypeOK, TablesTypeOK
<1>2. r \in TaskRow /\ RowMove(task[t], r)
  BY <1>1 DEF TaskRow, RowMove, Terminal, Status, Unsubmitted
<1>3. task' = [task EXCEPT ![t] = r]
  BY <1>1 DEF TaskRow
<1> HIDE DEF r
<1> QED BY <1>2, <1>3, OneRowMoves DEF OutboxRow

\* FailTaskOwned, whether or not the lease is still the worker's.
LEMMA FailTaskOwnedMoves ==
    ASSUME SubmissionInv, NEW t \in Tasks, NEW l, NEW why \in Reason, FailTaskOwned(t, l, why)
    PROVE  RowsMove
<1>1. CASE Owns(t, l) /\ task[t].gen = 0 /\ task[t].status \notin Terminal
  <2>1. res' \in [Tasks -> ResRow]
    BY <1>1, ReleaseType DEF FailTaskOwned, SubmissionInv, TypeOK, TablesTypeOK
  <2> QED BY <1>1, <2>1, EndMoves DEF FailTaskOwned, Terminal
<1>2. CASE ~(Owns(t, l) /\ task[t].gen = 0 /\ task[t].status \notin Terminal)
  BY <1>2, NoRowMoves DEF FailTaskOwned
<1> QED BY <1>1, <1>2

\* A generation the provider reported failed ends the task: its row makes a legal move.
LEMMA FailSubmittedTaskOwnedMoves ==
    ASSUME SubmissionInv, NEW t \in Tasks, NEW l, FailSubmittedTaskOwned(t, l)
    PROVE  RowsMove
<1> DEFINE c == Owns(t, l) /\ task[t].gen # 0 /\ task[t].status \in {"submitted", "polling"}
<1>1. CASE c
  <2>0. "upstream_failed" \in Reason
    BY DEF Reason
  <2>1. res' \in [Tasks -> ResRow]
    BY <1>1, <2>0, ReleaseType DEF FailSubmittedTaskOwned, SubmissionInv, TypeOK, TablesTypeOK
  <2> QED BY <1>1, <2>1, EndMoves DEF FailSubmittedTaskOwned, Terminal
<1>2. CASE ~c
  BY <1>2, NoRowMoves DEF FailSubmittedTaskOwned
<1> QED BY <1>1, <1>2

\* Marking a submission uncertain clears the lease and is a legal move of the row.
LEMMA MarkUncertainMoves ==
    ASSUME SubmissionInv, NEW t \in Tasks, MarkUncertain(t)
    PROVE  RowsMove
<1>1. res' \in [Tasks -> ResRow]
  BY DEF MarkUncertain, SubmissionInv, TypeOK, TablesTypeOK
<1> QED BY <1>1, EndMoves DEF MarkUncertain, Terminal

\* Completing a task settles it with its reservation: its row makes a legal move.
LEMMA CompleteTaskOwnedMoves ==
    ASSUME SubmissionInv, NEW t \in Tasks, NEW l, NEW a \in Accounts \cup {NoAccount}, NEW g \in Nat,
           CompleteTaskOwned(t, l, a, g)
    PROVE  RowsMove
<1> DEFINE c == Owns(t, l) /\ task[t].status \in {"submitted", "polling"}
           h == IF g = 0 THEN task[t].gen ELSE g
           r == [task[t] EXCEPT !.status = "succeeded", !.account = a, !.gen = h,
                                !.lease = 0, !.live = FALSE]
<1>0. task \in [Tasks -> TaskRow] /\ task[t] \in TaskRow /\ res \in [Tasks -> ResRow]
  BY DEF SubmissionInv, TypeOK, TablesTypeOK
<1>1. CASE c
  <2>1. h \in Nat
    BY <1>0 DEF TaskRow
  <2>2. task' = [task EXCEPT ![t] = r]
    BY <1>0, <1>1 DEF CompleteTaskOwned, TaskRow
  <2>3. r \in TaskRow /\ RowMove(task[t], r)
    <3> HIDE DEF h
    <3> QED BY <1>0, <2>1 DEF TaskRow, RowMove, Terminal, Status, Unsubmitted
  <2>4. res' \in [Tasks -> ResRow]
    <3>1. \/ res' = res
          \/ res' = [res EXCEPT ![t].state = "consumed", ![t].reason = "charged"]
      BY <1>1 DEF CompleteTaskOwned
    <3>2. "charged" \in Reason
      BY DEF Reason
    <3> QED BY <1>0, <3>1, <3>2 DEF ResRow
  <2>5. Wake(t, a, task', [outbox EXCEPT ![t] = "delivered"])
    BY <1>1 DEF CompleteTaskOwned
  <2> HIDE DEF r
  <2> QED BY <2>2, <2>3, <2>4, <2>5, OneRowMoves DEF OutboxRow
<1>2. CASE ~c
  BY <1>2, NoRowMoves DEF CompleteTaskOwned
<1> QED BY <1>1, <1>2

\* A yield goes back to the queue only before a generation is known.
LEMMA YieldMoves ==
    ASSUME SubmissionInv, NEW t \in Tasks, NEW l, CanYield(t, l), YieldTaskLease(t)
    PROVE  RowsMove
<1> DEFINE s == IF task[t].gen = 0 THEN "queued" ELSE "polling"
           r == [task[t] EXCEPT !.status = s, !.lease = 0, !.live = FALSE]
<1>0. /\ task \in [Tasks -> TaskRow] /\ task[t] \in TaskRow /\ res \in [Tasks -> ResRow]
      /\ task[t].status = "polling" => task[t].gen # 0
  BY DEF SubmissionInv, TypeOK, TablesTypeOK, RecordedBeforeCall
<1>1. task' = [task EXCEPT ![t] = r]
  BY <1>0 DEF YieldTaskLease, TaskRow
<1>2. ASSUME task[t].gen = 0 PROVE r \in TaskRow /\ RowMove(task[t], r)
  BY <1>0, <1>2 DEF CanYield, TaskRow, RowMove, Terminal, Status, Unsubmitted
<1>3. ASSUME task[t].gen # 0 PROVE r \in TaskRow /\ RowMove(task[t], r)
  BY <1>0, <1>3 DEF CanYield, TaskRow, RowMove, Terminal, Status, Unsubmitted, Executing
<1>4. res' \in [Tasks -> ResRow]
  BY <1>0 DEF YieldTaskLease, ResRow
<1>5. Wake(t, task[t].account, task', [outbox EXCEPT ![t] = "delayed"])
  BY DEF YieldTaskLease
<1>6. r \in TaskRow /\ RowMove(task[t], r)
  BY <1>2, <1>3
<1> HIDE DEF r
<1> QED BY <1>1, <1>4, <1>5, <1>6, OneRowMoves DEF OutboxRow

-----------------------------------------------------------------------------
(* The queue, the workers and the provider. *)

ExecOK ==
    /\ msg \in [Tasks -> MsgState] /\ recov \in [Tasks -> Nat]
    /\ worker \in [Workers -> WorkerState] /\ up \in [Tasks -> ProviderState]

ExecMoves ==
    /\ ExecOK'
    /\ \A w \in Workers : WorkerMove(worker[w], worker'[w])
    /\ \A t \in Tasks : up'[t].calls = up[t].calls

EnvOK ==
    /\ healthy \in [Accounts -> BOOLEAN] /\ ruleActive \in BOOLEAN
    /\ aged \in SUBSET Tasks /\ paused \in BOOLEAN

\* Legal moves of the rows and of the workers, with a well-typed environment, keep
\* the invariant.
LEMMA MovesKeepInv ==
    ASSUME SubmissionInv, RowsMove, ExecMoves, EnvOK'
    PROVE  SubmissionInv'
<1>1. TypeOK'
  BY DEF RowsMove, RowsOK, ExecMoves, ExecOK, EnvOK, TypeOK, TablesTypeOK
<1> QED BY <1>1, LegalStep DEF RowsMove, ExecMoves

\* A step that leaves the environment alone leaves it well-typed.
LEMMA EnvStays ==
    ASSUME SubmissionInv, UNCHANGED <<healthy, ruleActive, aged, paused>>
    PROVE  EnvOK'
BY DEF SubmissionInv, TypeOK, TablesTypeOK, EnvOK

\* A worker of the invariant's states may go on as it is.
LEMMA WorkerFacts ==
    ASSUME SubmissionInv, NEW w \in Workers
    PROVE  /\ worker[w] \in WorkerState
           /\ WorkerMove(worker[w], worker[w])
           /\ worker[w].pc # "idle" => worker[w].task \in Tasks
BY DEF SubmissionInv, TypeOK, WorkersHaveTasks, WorkerMove

\* A step that touches neither queue, workers nor provider moves no worker.
LEMMA NoExecMoves ==
    ASSUME SubmissionInv, UNCHANGED execVars
    PROVE  ExecMoves
BY WorkerFacts DEF ExecMoves, ExecOK, SubmissionInv, TypeOK, execVars

\* The idle worker state is a worker state.
LEMMA IdleType == IdleWorker \in WorkerState
BY DEF IdleWorker, WorkerState, Pc

\* One worker moves, the provider is left alone.
LEMMA OneWorkerMoves ==
    ASSUME SubmissionInv, NEW w \in Workers, NEW x \in WorkerState,
           worker' = [worker EXCEPT ![w] = x], WorkerMove(worker[w], x),
           msg' \in [Tasks -> MsgState], recov' \in [Tasks -> Nat], UNCHANGED up
    PROVE  ExecMoves
<1>1. worker \in [Workers -> WorkerState] /\ up \in [Tasks -> ProviderState]
  BY DEF SubmissionInv, TypeOK
<1>2. \A v \in Workers : WorkerMove(worker[v], worker'[v])
  BY <1>1, WorkerFacts
<1> QED BY <1>1, <1>2 DEF ExecMoves, ExecOK

\* A handler that returns makes its worker idle, which is a legal move.
LEMMA ReturnMoves ==
    ASSUME SubmissionInv, NEW w \in Workers, NEW e \in MsgState, Return(w, e)
    PROVE  ExecMoves
<1>1. WorkerMove(worker[w], IdleWorker)
  BY DEF WorkerMove
<1>2. msg' \in [Tasks -> MsgState] /\ recov' \in [Tasks -> Nat]
  BY DEF Return, SubmissionInv, TypeOK
<1> QED BY <1>1, <1>2, IdleType, OneWorkerMoves DEF Return

\* Returning normally or with an error are both such moves.
LEMMA Returns ==
    ASSUME SubmissionInv, NEW w \in Workers, ReturnNil(w) \/ ReturnError(w)
    PROVE  ExecMoves
BY ReturnMoves DEF ReturnNil, ReturnError, MsgState

\* A worker that gives its lease back moves its row and itself legally.
LEMMA WorkerYieldsMoves ==
    ASSUME SubmissionInv, NEW w \in Workers, worker[w].pc # "idle", WorkerYields(w)
    PROVE  RowsMove /\ ExecMoves
<1>1. worker[w].task \in Tasks
  BY WorkerFacts
<1>2. CASE CanYield(worker[w].task, worker[w].lease)
  BY <1>1, <1>2, YieldMoves, Returns DEF WorkerYields
<1>3. CASE ~CanYield(worker[w].task, worker[w].lease)
  BY <1>3, NoRowMoves, Returns DEF WorkerYields
<1> QED BY <1>2, <1>3

\* A worker that marks its submission uncertain moves its row and itself legally.
LEMMA WorkerMarksUncertainMoves ==
    ASSUME SubmissionInv, NEW w \in Workers, worker[w].pc # "idle", WorkerMarksUncertain(w)
    PROVE  RowsMove /\ ExecMoves
<1>1. worker[w].task \in Tasks
  BY WorkerFacts
<1>2. CASE CanUpdate(worker[w].task, worker[w].lease)
  BY <1>1, <1>2, MarkUncertainMoves, Returns DEF WorkerMarksUncertain
<1>3. CASE ~CanUpdate(worker[w].task, worker[w].lease)
  BY <1>3, NoRowMoves, Returns DEF WorkerMarksUncertain
<1> QED BY <1>2, <1>3

-----------------------------------------------------------------------------
(* The three steps that come closer to the provider: the lease, the record,  *)
(* the call.                                                                 *)

\* A new lease keeps the types.
LEMMA TakeLeaseType ==
    ASSUME TypeOK, NEW w \in Workers, NEW t \in Tasks, NEW a \in Accounts \cup {NoAccount},
           TakeLease(w, t, a), UNCHANGED <<healthy, ruleActive, aged, paused>>
    PROVE  TypeOK'
<1>1. task' \in [Tasks -> TaskRow]
  BY DEF TakeLease, TypeOK, TablesTypeOK, TaskRow, Status, Executing
<1>2. res' \in [Tasks -> ResRow]
  <2>1. res \in [Tasks -> ResRow] BY DEF TypeOK, TablesTypeOK
  <2>2. res' = [res EXCEPT ![t].account = IF res[t].state = "held" THEN a ELSE @,
                          ![t].late = FALSE]
    BY DEF TakeLease
  <2>3. CASE res[t].state = "held"
    <3>1. res' = [res EXCEPT ![t].account = a, ![t].late = FALSE]
       BY <2>2, <2>3
    <3> QED BY <2>1, <3>1 DEF ResRow
  <2>4. CASE res[t].state # "held"
    <3>1. res' = [res EXCEPT ![t].late = FALSE]
       BY <2>1, <2>2, <2>4 DEF ResRow
    <3> QED BY <2>1, <3>1 DEF ResRow
  <2> QED BY <2>3, <2>4
<1>3. outbox' \in [Tasks -> OutboxRow]
  <2>1. [outbox EXCEPT ![t] = "delivered"] \in [Tasks -> OutboxRow]
    BY DEF TypeOK, TablesTypeOK, OutboxRow
  <2>2. Wake(t, a, task', [outbox EXCEPT ![t] = "delivered"])
    BY DEF TakeLease
  <2> QED BY <2>1, <2>2, WakeType
<1>4. worker' \in [Workers -> WorkerState]
  <2> DEFINE p == IF task[t].gen = 0 THEN "owned" ELSE "resume"
             l == task[t].attempt + 1
             g == task[t].gen
  <2>1. worker \in [Workers -> WorkerState] /\ p \in Pc /\ l \in Nat /\ g \in Nat
    BY DEF TypeOK, TablesTypeOK, TaskRow, Pc
  <2>2. worker' = [worker EXCEPT ![w] = [@ EXCEPT !.pc = p, !.lease = l, !.gen = g, !.account = a]]
    BY DEF TakeLease
  <2> HIDE DEF p, l, g
  <2> QED BY <2>1, <2>2 DEF WorkerState
<1> QED
  BY <1>1, <1>2, <1>3, <1>4 DEF TakeLease, TypeOK, TablesTypeOK


\* The new lease is fresh, so its holder is the only one that can get on.
LEMMA TakeLeaseKeepsInv ==
    ASSUME SubmissionInv, NEW w \in Workers, NEW t \in Tasks, NEW a \in Accounts \cup {NoAccount},
           worker[w].pc = "claim", worker[w].task = t, Claimable(t), TakeLease(w, t, a),
           UNCHANGED <<healthy, ruleActive, aged, paused>>
    PROVE  SubmissionInv'
<1> USE DEF SubmissionInv
<1>1. TypeOK /\ WorkersHaveTasks /\ LeasesFresh /\ RecordedBeforeCall /\ AtMostOneSubmission
  OBVIOUS
<1>2. TypeOK'
  BY <1>1, TakeLeaseType
<1>3. /\ task \in [Tasks -> TaskRow] /\ worker \in [Workers -> WorkerState]
      /\ task[t].attempt \in Nat
  BY <1>1 DEF TypeOK, TablesTypeOK, TaskRow
<1>4. /\ task'[t].attempt = task[t].attempt + 1 /\ task'[t].lease = task[t].attempt + 1
      /\ task'[t].gen = task[t].gen
      /\ task'[t].status = IF task[t].status = "queued" THEN "reserving" ELSE task[t].status
      /\ \A u \in Tasks \ {t} : task'[u] = task[u]
  BY <1>3 DEF TakeLease, TaskRow
<1>5. /\ worker'[w].pc = IF task[t].gen = 0 THEN "owned" ELSE "resume"
      /\ worker'[w].task = t /\ worker'[w].lease = task[t].attempt + 1
      /\ worker'[w].gen = task[t].gen
      /\ \A v \in Workers \ {w} : worker'[v] = worker[v]
  BY <1>3 DEF TakeLease, WorkerState
<1>6. /\ task[t].status \in {"queued", "submitted", "polling"}
      /\ task[t].status = "queued" => task[t].gen = 0
      /\ task[t].status # "queued" => task[t].gen # 0
  BY <1>1 DEF Claimable, RecordedBeforeCall, Unsubmitted
<1>7. up' = up
  BY DEF TakeLease
<1>8. WorkersHaveTasks'
  BY <1>1, <1>5 DEF WorkersHaveTasks
<1>9. LeasesFresh'
  <2>1. \A u \in Tasks :
          /\ task'[u].lease <= task'[u].attempt
          /\ task'[u].status \in {"absent", "queued"} \cup Terminal => task'[u].lease = 0
    BY <1>1, <1>3, <1>4, <1>6 DEF LeasesFresh, Terminal
  <2>2. \A v \in Workers :
         IF worker'[v].pc \in {"idle", "claim"}
           THEN worker'[v].lease = 0
           ELSE worker'[v].lease \in 1..task'[worker'[v].task].attempt
    <3>1. \A v \in Workers \ {w} : worker[v].pc \notin {"idle", "claim"} => worker[v].task \in Tasks
      BY <1>1 DEF WorkersHaveTasks
    <3> QED BY <1>1, <1>3, <1>4, <1>5, <3>1 DEF LeasesFresh
  <2>3. \A v \in Workers \ {w} : worker[v].task = t /\ worker[v].lease # 0 =>
          worker[v].lease # task[t].attempt + 1
    BY <1>1, <1>3 DEF LeasesFresh
  <2>4. \A v, x \in Workers :
         v # x /\ worker'[v].task = worker'[x].task /\ worker'[v].lease # 0 =>
           worker'[v].lease # worker'[x].lease
    BY <1>1, <1>3, <1>5, <2>3 DEF LeasesFresh
  <2> QED BY <2>1, <2>2, <2>4 DEF LeasesFresh
<1>10. RecordedBeforeCall'
  <2>1. \A u \in Tasks :
         /\ task'[u].status \in Unsubmitted => up'[u].calls = 0 /\ task'[u].gen = 0
         /\ task'[u].status = "polling" => task'[u].gen # 0
    BY <1>1, <1>4, <1>6, <1>7 DEF RecordedBeforeCall, Unsubmitted
  <2>2. ASSUME NEW v \in Workers
        PROVE  /\ worker'[v].pc \in BeforeRecord
                    /\ worker'[v].lease = task'[worker'[v].task].lease =>
                    task'[worker'[v].task].status \in {"reserving", "uploading"}
               /\ worker'[v].pc \in KnowsGeneration \cup {"prepared"} =>
                    task'[worker'[v].task].status \notin Unsubmitted
               /\ worker'[v].pc = "prepared" => up'[worker'[v].task].calls = 0
    <3>1. CASE v = w
      BY <1>4, <1>5, <1>6, <3>1 DEF Unsubmitted
    <3>2. CASE v # w /\ worker[v].task = t
      <4>1. worker'[v] = worker[v]
        BY <1>5, <3>2
      <4>2. worker[v].pc \in BeforeRecord => worker[v].lease # task'[t].lease
        BY <1>1, <1>3, <1>4, <3>2 DEF LeasesFresh
      <4>3. /\ worker[v].pc \in KnowsGeneration \cup {"prepared"} => task[t].status \notin Unsubmitted
            /\ worker[v].pc = "prepared" => up[t].calls = 0
        BY <1>1, <3>2 DEF RecordedBeforeCall
      <4> QED BY <1>4, <1>6, <1>7, <3>2, <4>1, <4>2, <4>3 DEF Unsubmitted
    <3>3. CASE v # w /\ worker[v].task # t
      <4>1. worker'[v] = worker[v]
        BY <1>5, <3>3
      <4>2. worker[v].pc # "idle" => worker[v].task \in Tasks
        BY <1>1 DEF WorkersHaveTasks
      <4> QED BY <1>1, <1>4, <1>7, <3>3, <4>1, <4>2 DEF RecordedBeforeCall
    <3> QED BY <3>1, <3>2, <3>3
  <2>3. \A v, x \in Workers :
         worker'[v].pc = "prepared" /\ worker'[x].pc = "prepared" /\ v # x =>
           worker'[v].task # worker'[x].task
    BY <1>1, <1>5 DEF RecordedBeforeCall
  <2> QED BY <2>1, <2>2, <2>3 DEF RecordedBeforeCall
<1>11. AtMostOneSubmission'
  BY <1>1, <1>7 DEF AtMostOneSubmission
<1> QED BY <1>2, <1>8, <1>9, <1>10, <1>11


\* The record is made by the only holder of the current lease, on a task that was
\* not recorded before.
LEMMA PrepareKeepsInv ==
    ASSUME SubmissionInv, NEW w \in Workers, PrepareSubmission(w)
    PROVE  SubmissionInv'
<1> DEFINE t == worker[w].task
           b == worker[w].account
<1> USE DEF SubmissionInv
<1>1. TypeOK /\ WorkersHaveTasks /\ LeasesFresh /\ RecordedBeforeCall /\ AtMostOneSubmission
  OBVIOUS
<1>2. /\ t \in Tasks /\ b \in Accounts \cup {NoAccount} /\ worker[w].pc = "fenced"
      /\ worker[w].lease # 0
      /\ task \in [Tasks -> TaskRow] /\ worker \in [Workers -> WorkerState]
  BY <1>1 DEF PrepareSubmission, WorkersHaveTasks, TypeOK, TablesTypeOK, WorkerState, LeasesFresh
<1>3. CASE ~(CanUpdate(t, worker[w].lease) /\ (task[t].gen # 0 \/ ruleActive))
  <2>1. RowsMove /\ ExecMoves /\ EnvOK'
    BY <1>3, NoRowMoves, Returns, EnvStays DEF PrepareSubmission
  <2> QED BY <2>1, MovesKeepInv
<1>4. CASE CanUpdate(t, worker[w].lease) /\ (task[t].gen # 0 \/ ruleActive)
  <2>1. /\ task' = [task EXCEPT ![t].status = "submitted", ![t].account = b]
        /\ worker' = [worker EXCEPT ![w].pc = "prepared"]
        /\ UNCHANGED <<msg, recov, up, res, outbox, healthy, ruleActive, aged, paused>>
    BY <1>4 DEF PrepareSubmission
  <2> HIDE DEF t, b
  <2>2. task' \in [Tasks -> TaskRow]
    <3> DEFINE row == [task[t] EXCEPT !.status = "submitted", !.account = b]
    <3>1. "submitted" \in Status
      BY DEF Status, Executing
    <3>2. task[t] \in TaskRow
      BY <1>2
    <3>3. row \in TaskRow
      BY <1>2, <3>1, <3>2 DEF TaskRow
    <3>4. task' = [task EXCEPT ![t] = row]
      BY <1>2, <2>1
    <3> HIDE DEF row
    <3> QED BY <1>2, <3>3, <3>4
  <2>3. worker' \in [Workers -> WorkerState]
    BY <1>2, <2>1 DEF WorkerState, Pc
  <2>4. TypeOK'
    BY <1>1, <2>1, <2>2, <2>3 DEF TypeOK, TablesTypeOK
  <2>5. /\ task'[t].attempt = task[t].attempt /\ task'[t].lease = task[t].lease
        /\ task'[t].gen = task[t].gen /\ task'[t].status = "submitted"
        /\ \A u \in Tasks \ {t} : task'[u] = task[u]
    BY <1>2, <2>1 DEF TaskRow
  <2>6. /\ worker'[w].pc = "prepared" /\ worker'[w].task = worker[w].task
        /\ worker'[w].lease = worker[w].lease /\ worker'[w].gen = worker[w].gen
        /\ \A v \in Workers \ {w} : worker'[v] = worker[v]
    BY <1>2, <2>1 DEF WorkerState
  <2>7. worker[w].task = t /\ task[t].lease = worker[w].lease
    BY <1>4 DEF t, CanUpdate, Owns
  <2>8. task[t].status \in {"reserving", "uploading"} /\ up[t].calls = 0
    BY <1>1, <1>2, <2>7 DEF RecordedBeforeCall, Unsubmitted
  <2>9. WorkersHaveTasks'
    BY <1>1, <1>2, <2>6, <2>7 DEF WorkersHaveTasks
  <2>10. LeasesFresh'
    <3>1. \A u \in Tasks :
            /\ task'[u].lease <= task'[u].attempt
            /\ task'[u].status \in {"absent", "queued"} \cup Terminal => task'[u].lease = 0
      BY <1>1, <2>5 DEF LeasesFresh, Terminal
    <3>2. \A v \in Workers :
           IF worker'[v].pc \in {"idle", "claim"}
             THEN worker'[v].lease = 0
             ELSE worker'[v].lease \in 1..task'[worker'[v].task].attempt
      BY <1>1, <1>2, <2>5, <2>6, <2>7 DEF LeasesFresh, WorkersHaveTasks
    <3>3. \A v, x \in Workers :
           v # x /\ worker'[v].task = worker'[x].task /\ worker'[v].lease # 0 =>
             worker'[v].lease # worker'[x].lease
      BY <1>1, <2>6 DEF LeasesFresh
    <3> QED BY <3>1, <3>2, <3>3 DEF LeasesFresh
  <2>11. RecordedBeforeCall'
    <3>1. \A u \in Tasks :
           /\ task'[u].status \in Unsubmitted => up'[u].calls = 0 /\ task'[u].gen = 0
           /\ task'[u].status = "polling" => task'[u].gen # 0
      BY <1>1, <2>1, <2>5 DEF RecordedBeforeCall, Unsubmitted
    <3>2. ASSUME NEW v \in Workers
          PROVE  /\ worker'[v].pc \in BeforeRecord
                      /\ worker'[v].lease = task'[worker'[v].task].lease =>
                      task'[worker'[v].task].status \in {"reserving", "uploading"}
                 /\ worker'[v].pc \in KnowsGeneration \cup {"prepared"} =>
                      task'[worker'[v].task].status \notin Unsubmitted
                 /\ worker'[v].pc = "prepared" => up'[worker'[v].task].calls = 0
      <4>1. CASE v = w
        BY <2>1, <2>5, <2>6, <2>7, <2>8, <4>1 DEF Unsubmitted
      <4>2. CASE v # w /\ worker[v].task = t
        <5>1. worker[v].lease # task[t].lease
          BY <1>1, <1>2, <2>7, <4>2 DEF LeasesFresh
        <5>2. worker[v].pc \notin KnowsGeneration \cup {"prepared"}
          BY <1>1, <2>8, <4>2 DEF RecordedBeforeCall, Unsubmitted
        <5>3. worker'[v] = worker[v] /\ task'[t].lease = task[t].lease
          BY <2>5, <2>6, <4>2
        <5> QED BY <4>2, <5>1, <5>2, <5>3
      <4>3. CASE v # w /\ worker[v].task # t
        <5>1. worker[v].pc # "idle" => worker[v].task \in Tasks
          BY <1>1 DEF WorkersHaveTasks
        <5>2. /\ worker'[v] = worker[v] /\ up' = up
              /\ worker[v].pc # "idle" => task'[worker[v].task] = task[worker[v].task]
          BY <2>1, <2>5, <2>6, <4>3, <5>1
        <5> QED BY <1>1, <5>2 DEF RecordedBeforeCall
      <4> QED BY <4>1, <4>2, <4>3
    <3>3. \A v \in Workers : worker[v].pc = "prepared" => worker[v].task # t
      BY <1>1, <2>8 DEF RecordedBeforeCall, Unsubmitted
    <3>4. \A v, x \in Workers :
           worker'[v].pc = "prepared" /\ worker'[x].pc = "prepared" /\ v # x =>
             worker'[v].task # worker'[x].task
      BY <1>1, <2>6, <2>7, <3>3 DEF RecordedBeforeCall
    <3> QED BY <3>1, <3>2, <3>4 DEF RecordedBeforeCall
  <2>12. AtMostOneSubmission'
    BY <1>1, <2>1 DEF AtMostOneSubmission
  <2> QED BY <2>4, <2>9, <2>10, <2>11, <2>12
<1> QED BY <1>3, <1>4

\* The call is made once: its task was recorded, and nobody else is about to call.
LEMMA SubmitKeepsInv ==
    ASSUME SubmissionInv, NEW w \in Workers, SubmitGeneration(w)
    PROVE  SubmissionInv'
<1> DEFINE t == worker[w].task
<1> USE DEF SubmissionInv
<1>1. TypeOK /\ WorkersHaveTasks /\ LeasesFresh /\ RecordedBeforeCall /\ AtMostOneSubmission
  OBVIOUS
<1>2. /\ t \in Tasks /\ worker[w].pc = "prepared" /\ worker[w].lease \in Nat \ {0}
      /\ up \in [Tasks -> ProviderState] /\ worker \in [Workers -> WorkerState]
      /\ task[t].status \notin Unsubmitted /\ up[t].calls = 0
  BY <1>1 DEF SubmitGeneration, WorkersHaveTasks, TypeOK, WorkerState, LeasesFresh, RecordedBeforeCall
<1>3. PICK s \in {"none", "running", "complete", "failed"}, p \in {"accepted", "rejected", "unknown"},
           g \in Nat :
        /\ p = "accepted" => g # 0
        /\ up' = [up EXCEPT ![t] = [calls |-> 1, state |-> s]]
        /\ worker' = [worker EXCEPT ![w].pc = p, ![w].gen = g]
  <2>1. PICK created \in BOOLEAN, answer \in {"accepted", "rejected", "unknown"} :
          /\ up' = [up EXCEPT ![t] = [calls |-> @.calls + 1,
                                       state |-> IF created THEN "running" ELSE @.state]]
          /\ worker' = [worker EXCEPT ![w].pc = answer,
                                      ![w].gen = IF answer = "accepted" THEN worker[w].lease ELSE 0]
    BY DEF SubmitGeneration
  <2> DEFINE s == IF created THEN "running" ELSE up[t].state
             g == IF answer = "accepted" THEN worker[w].lease ELSE 0
  <2>2. s \in {"none", "running", "complete", "failed"}
    BY <1>2 DEF ProviderState
  <2>3. g \in Nat /\ (answer = "accepted" => g # 0)
    BY <1>2
  <2>4. up' = [up EXCEPT ![t] = [calls |-> 1, state |-> s]]
    BY <1>2, <2>1
  <2>5. worker' = [worker EXCEPT ![w].pc = answer, ![w].gen = g]
    BY <2>1
  <2> HIDE DEF s, g
  <2> QED BY <2>2, <2>3, <2>4, <2>5
<1>4. task' = task /\ UNCHANGED <<tableVars, msg, recov>>
  BY DEF SubmitGeneration, tableVars
<1> HIDE DEF t
<1>5. up'[t].calls = 1 /\ \A u \in Tasks \ {t} : up'[u] = up[u]
  BY <1>2, <1>3 DEF ProviderState
<1>6. /\ worker'[w].pc = p /\ worker'[w].gen = g /\ worker'[w].task = worker[w].task
      /\ worker'[w].lease = worker[w].lease
      /\ \A v \in Workers \ {w} : worker'[v] = worker[v]
  BY <1>2, <1>3 DEF WorkerState
<1>7. TypeOK'
  <2>1. up' \in [Tasks -> ProviderState]
    <3>1. [calls |-> 1, state |-> s] \in ProviderState
      BY DEF ProviderState
    <3> QED BY <1>2, <1>3, <3>1
  <2>2. worker' \in [Workers -> WorkerState]
    <3>1. p \in Pc
      BY DEF Pc
    <3>2. [worker[w] EXCEPT !.pc = p, !.gen = g] \in WorkerState
      BY <1>2, <3>1 DEF WorkerState
    <3>3. worker' = [worker EXCEPT ![w] = [worker[w] EXCEPT !.pc = p, !.gen = g]]
      BY <1>2, <1>3 DEF WorkerState
    <3> QED BY <1>2, <3>2, <3>3
  <2> QED BY <1>1, <1>4, <2>1, <2>2 DEF TypeOK, TablesTypeOK, tableVars
<1>8. WorkersHaveTasks'
  BY <1>1, <1>2, <1>3, <1>6 DEF WorkersHaveTasks, t
<1>9. LeasesFresh'
  BY <1>1, <1>2, <1>4, <1>6 DEF LeasesFresh
<1>10. RecordedBeforeCall'
  <2>1. \A v \in Workers \ {w} : worker[v].pc = "prepared" => worker[v].task # t
    BY <1>1, <1>2 DEF RecordedBeforeCall, t
  <2>2. \A v \in Workers : worker[v].pc # "idle" => worker[v].task \in Tasks
    BY <1>1 DEF WorkersHaveTasks
  <2> QED BY <1>1, <1>2, <1>4, <1>5, <1>6, <2>1, <2>2 DEF RecordedBeforeCall
<1>11. AtMostOneSubmission'
  BY <1>1, <1>5 DEF AtMostOneSubmission
<1> QED BY <1>7, <1>8, <1>9, <1>10, <1>11

-----------------------------------------------------------------------------
(* The recovery pass. *)

\* A row that loses its lease is a row.
LEMMA LoseLeaseType ==
    ASSUME NEW r \in TaskRow, NEW s \in Status
    PROVE  /\ [r EXCEPT !.lease = 0, !.live = FALSE] \in TaskRow
           /\ [r EXCEPT !.status = s, !.lease = 0, !.live = FALSE] \in TaskRow
BY DEF TaskRow

\* Each row of the recovery pass makes one of the allowed moves: a task goes back
\* to the queue only from before its submission was recorded.
LEMMA RecoveredRowMoves ==
    ASSUME SubmissionInv, NEW t \in Tasks
    PROVE  RecoveredRow(t) \in TaskRow /\ RowMove(task[t], RecoveredRow(t))
<1> USE DEF TaskRow, Status, Executing, Terminal, Unsubmitted, RowMove
<1>1. /\ task[t] \in TaskRow /\ RowMove(task[t], task[t])
      /\ task[t].status \in Unsubmitted => task[t].gen = 0
      /\ task[t].status = "queued" => task[t].lease = 0
  BY RowFacts DEF SubmissionInv, RecordedBeforeCall, LeasesFresh
<1>2. CASE QueueTimedOut(t) \/ ReservationTimedOut(t)
  <2>1. RecoveredRow(t) = [task[t] EXCEPT !.status = "failed"]
    BY <1>1, <1>2 DEF RecoveredRow, QueueTimedOut, ReservationTimedOut, UpstreamTimedOut,
                      LostDuringSubmission, LostBeforeSubmission, LostWhilePolling
  <2> QED BY <1>1, <1>2, <2>1 DEF QueueTimedOut, ReservationTimedOut
<1>3. CASE UpstreamTimedOut(t) \/ LostDuringSubmission(t)
  <2>1. RecoveredRow(t) = [task[t] EXCEPT !.status = "submission_uncertain", !.lease = 0, !.live = FALSE]
    BY <1>1, <1>3 DEF RecoveredRow, QueueTimedOut, ReservationTimedOut, UpstreamTimedOut,
                      LostDuringSubmission, LostBeforeSubmission, LostWhilePolling
  <2>2. RecoveredRow(t) \in TaskRow
    <3>1. task[t] \in TaskRow /\ "submission_uncertain" \in Status
      BY <1>1
    <3> HIDE DEF TaskRow, Status
    <3> QED BY <2>1, <3>1, LoseLeaseType
  <2>3. /\ RecoveredRow(t).status = "submission_uncertain" /\ RecoveredRow(t).lease = 0
        /\ RecoveredRow(t).attempt = task[t].attempt
    BY <1>1, <2>1
  <2> HIDE DEF TaskRow
  <2> QED BY <2>2, <2>3
<1>4. CASE LostBeforeSubmission(t)
  <2>1. RecoveredRow(t) = [task[t] EXCEPT !.status = "queued", !.lease = 0, !.live = FALSE]
    BY <1>1, <1>4 DEF RecoveredRow, QueueTimedOut, ReservationTimedOut, UpstreamTimedOut,
                      LostDuringSubmission, LostBeforeSubmission, LostWhilePolling
  <2> QED BY <1>1, <1>4, <2>1 DEF LostBeforeSubmission
<1>5. CASE LostWhilePolling(t)
  <2>1. RecoveredRow(t) = [task[t] EXCEPT !.lease = 0, !.live = FALSE]
    BY <1>1, <1>5 DEF RecoveredRow, QueueTimedOut, ReservationTimedOut, UpstreamTimedOut,
                      LostDuringSubmission, LostBeforeSubmission, LostWhilePolling
  <2>2. RecoveredRow(t) \in TaskRow
    <3>1. task[t] \in TaskRow /\ "submission_uncertain" \in Status
      BY <1>1
    <3> HIDE DEF TaskRow, Status
    <3> QED BY <2>1, <3>1, LoseLeaseType
  <2>3. /\ RecoveredRow(t).status = task[t].status /\ RecoveredRow(t).lease = 0
        /\ RecoveredRow(t).attempt = task[t].attempt /\ RecoveredRow(t).gen = task[t].gen
    BY <1>1, <2>1
  <2>4. task[t].status \in {"submitted", "polling"} /\ task[t].gen # 0
    BY <1>5 DEF LostWhilePolling
  <2> HIDE DEF TaskRow
  <2> QED BY <2>2, <2>3, <2>4
<1>6. CASE /\ ~(QueueTimedOut(t) \/ ReservationTimedOut(t))
           /\ ~(UpstreamTimedOut(t) \/ LostDuringSubmission(t))
           /\ ~LostBeforeSubmission(t) /\ ~LostWhilePolling(t)
  BY <1>1, <1>6 DEF RecoveredRow
<1> QED BY <1>2, <1>3, <1>4, <1>5, <1>6

\* The recovery pass moves every row legally, whichever rows it takes back.
LEMMA RecoveryMoves ==
    ASSUME SubmissionInv, RecoverStaleTasks
    PROVE  RowsMove
<1>1. task' = [t \in Tasks |-> RecoveredRow(t)]
  BY DEF RecoverStaleTasks
<1>2. /\ task' \in [Tasks -> TaskRow]
      /\ \A t \in Tasks : RowMove(task[t], task'[t])
  BY <1>1, RecoveredRowMoves
<1>3. res' \in [Tasks -> ResRow]
  <2>1. res \in [Tasks -> ResRow]
    BY DEF SubmissionInv, TypeOK, TablesTypeOK
  <2>2. \A t \in Tasks : [res[t] EXCEPT !.late = FALSE] \in ResRow
    BY <2>1 DEF ResRow
  <2>3. \A t \in Tasks : [res[t] EXCEPT !.state = "released", !.reason = "unsubmitted"] \in ResRow
    BY <2>1 DEF ResRow, Reason
  <2> QED BY <2>1, <2>2, <2>3 DEF RecoverStaleTasks
<1>4. outbox' \in [Tasks -> OutboxRow]
  BY DEF RecoverStaleTasks, SubmissionInv, TypeOK, TablesTypeOK, OutboxRow
<1> QED BY <1>2, <1>3, <1>4 DEF RowsMove, RowsOK

-----------------------------------------------------------------------------
(* Every step keeps the invariant. *)

\* The claim and its four outcomes.
LEMMA ClaimKeepsInv ==
    ASSUME SubmissionInv, NEW w \in Workers, ClaimTask(w)
    PROVE  SubmissionInv'
<1> DEFINE t == worker[w].task
<1>1. /\ worker[w].pc = "claim" /\ t \in Tasks /\ task \in [Tasks -> TaskRow]
      /\ res \in [Tasks -> ResRow] /\ outbox \in [Tasks -> OutboxRow]
      /\ task[t].account \in Accounts \cup {NoAccount}
  BY WorkerFacts DEF ClaimTask, SubmissionInv, TypeOK, TablesTypeOK, TaskRow
<1>2. EnvOK' /\ UNCHANGED <<healthy, ruleActive, aged, paused>>
  BY EnvStays DEF ClaimTask
<1>3. CASE ~Claimable(t) /\ ReturnNil(w) /\ UNCHANGED <<task, res, outbox>>
  BY <1>2, <1>3, NoRowMoves, Returns, MovesKeepInv
<1>4. ASSUME NEW a \in Accounts \cup {NoAccount}, Claimable(t), TakeLease(w, t, a)
      PROVE  SubmissionInv'
  BY <1>1, <1>2, <1>4, TakeLeaseKeepsInv
<1>5. CASE task[t].status = "queued" /\ ClaimFailsTask(w, t)
  <2> DEFINE r == [task[t] EXCEPT !.status = "failed"]
  <2>1. task[t].lease = 0 /\ task[t] \in TaskRow
    BY <1>1, <1>5 DEF SubmissionInv, LeasesFresh
  <2>2. r \in TaskRow /\ RowMove(task[t], r)
    BY <1>5, <2>1 DEF TaskRow, Status, Terminal, RowMove, Unsubmitted
  <2>3. task' = [task EXCEPT ![t] = r]
    BY <1>1, <1>5 DEF ClaimFailsTask
  <2>4. res' \in [Tasks -> ResRow]
    BY <1>1, <1>5, ReleaseType DEF ClaimFailsTask, Reason
  <2>5. Wake(t, task[t].account, task', [outbox EXCEPT ![t] = "delivered"]) /\ ReturnNil(w)
    BY <1>5 DEF ClaimFailsTask
  <2>6. RowsMove
    <3> HIDE DEF r, t
    <3> QED BY <1>1, <2>2, <2>3, <2>4, <2>5, OneRowMoves DEF OutboxRow
  <2> QED BY <1>2, <2>5, <2>6, Returns, MovesKeepInv
<1>6. ASSUME NEW a \in Accounts \cup {NoAccount}, DeferQueuedTask(w, t, a)
      PROVE  SubmissionInv'
  <2>1. /\ task' = [task EXCEPT ![t].account = a]
        /\ \/ res' = res
           \/ res' = [res EXCEPT ![t].account = a]
        /\ outbox' = [outbox EXCEPT ![t] = "delayed"]
        /\ ReturnNil(w)
    BY <1>1, <1>6 DEF DeferQueuedTask, ResRow
  <2> HIDE DEF t
  <2>2. RowsOK'
    BY <1>1, <2>1 DEF RowsOK, TaskRow, ResRow, OutboxRow
  <2>3. \A u \in Tasks : RowMove(task[u], task'[u])
    <3>1. \A u \in Tasks : /\ task'[u].attempt = task[u].attempt /\ task'[u].lease = task[u].lease
                           /\ task'[u].status = task[u].status /\ task'[u].gen = task[u].gen
      BY <1>1, <2>1 DEF TaskRow
    <3> QED BY <3>1, RowFacts DEF RowMove
  <2> QED BY <1>2, <2>1, <2>2, <2>3, Returns, MovesKeepInv DEF RowsMove
<1>7. ClaimAccounts(t) \subseteq Accounts \cup {NoAccount}
  BY <1>1 DEF ClaimAccounts, RerouteTargets
<1> HIDE DEF t
<1>8. \/ ~Claimable(t) /\ ReturnNil(w) /\ UNCHANGED <<task, res, outbox>>
      \/ Claimable(t) /\ TakeLease(w, t, task[t].account)
      \/ task[t].status = "queued" /\ ClaimFailsTask(w, t)
      \/ DeferQueuedTask(w, t, task[t].account)
      \/ \E a \in ClaimAccounts(t) :
            (Claimable(t) /\ TakeLease(w, t, a)) \/ DeferQueuedTask(w, t, a)
  BY DEF ClaimTask, t
<1> QED BY <1>1, <1>3, <1>4, <1>5, <1>6, <1>7, <1>8

\* A worker goes on to its next step.
LEMMA GoOnMoves ==
    ASSUME SubmissionInv, NEW w \in Workers, NEW p \in {"uploading", "fenced"} \cup Poll,
           p \in {"uploading", "fenced"} => worker[w].pc \in BeforeRecord,
           p \in Poll => worker[w].pc \in KnowsGeneration,
           p = "sawComplete" => up[worker[w].task].state = "complete",
           p = "sawFailed" => up[worker[w].task].state = "failed",
           worker' = [worker EXCEPT ![w].pc = p], UNCHANGED <<msg, recov, up>>
    PROVE  ExecMoves
<1> DEFINE x == [worker[w] EXCEPT !.pc = p]
<1>1. /\ worker \in [Workers -> WorkerState] /\ worker[w] \in WorkerState
      /\ msg' \in [Tasks -> MsgState] /\ recov' \in [Tasks -> Nat]
  BY DEF SubmissionInv, TypeOK
<1>2. p \in Pc
  BY DEF Pc
<1>3. x \in WorkerState /\ WorkerMove(worker[w], x)
  BY <1>1, <1>2 DEF WorkerState, WorkerMove
<1>4. worker' = [worker EXCEPT ![w] = x]
  BY <1>1
<1> HIDE DEF x
<1> QED BY <1>1, <1>3, <1>4, OneWorkerMoves

\* A tick and the reading of the status change no table: the worker goes on within
\* the poll loop or gives up.
PollSteps(w) ==
    /\ UNCHANGED <<task, res, outbox, healthy, ruleActive, aged, paused>>
    /\ \/ ReturnError(w)
       \/ \E p \in Poll : /\ worker' = [worker EXCEPT ![w].pc = p] /\ UNCHANGED <<msg, recov, up>>
                          /\ p = "sawComplete" => up[worker[w].task].state = "complete"
                          /\ p = "sawFailed" => up[worker[w].task].state = "failed"

\* What a worker saw is what the provider's generation was.
LEMMA SawState ==
    ASSUME NEW s
    PROVE  /\ Saw(s) \in Poll
           /\ Saw(s) = "sawComplete" => s = "complete"
           /\ Saw(s) = "sawFailed" => s = "failed"
BY DEF Saw

LEMMA PollStepsWithin ==
    ASSUME NEW w \in Workers, PollTick(w) \/ PollStatus(w)
    PROVE  PollSteps(w)
<1>1. CASE PollTick(w)
  BY <1>1 DEF PollTick, PollSteps, tableVars
<1>2. CASE PollStatus(w)
  <2> DEFINE p == Saw(up[worker[w].task].state)
  <2>1. /\ p \in Poll
        /\ p = "sawComplete" => up[worker[w].task].state = "complete"
        /\ p = "sawFailed" => up[worker[w].task].state = "failed"
    BY SawState
  <2>2. CASE worker' = [worker EXCEPT ![w].pc = p] /\ UNCHANGED <<msg, recov, up>>
    <3> HIDE DEF p
    <3> QED BY <1>2, <2>1, <2>2 DEF PollStatus, PollSteps, tableVars
  <2>3. CASE worker' = [worker EXCEPT ![w].pc = "polling"] /\ UNCHANGED <<msg, recov, up>>
    BY <1>2, <2>3 DEF PollStatus, PollSteps, tableVars
  <2>4. CASE ReturnError(w)
    BY <1>2, <2>4 DEF PollStatus, PollSteps, tableVars
  <2> QED BY <1>2, <2>2, <2>3, <2>4 DEF PollStatus
<1> QED BY <1>1, <1>2

LEMMA PollMoves ==
    ASSUME SubmissionInv, NEW w \in Workers, worker[w].pc \in {"polling", "ticked"}, PollSteps(w)
    PROVE  ExecMoves
<1>1. CASE ReturnError(w)
  BY <1>1, WorkerFacts, Returns
<1>2. ASSUME NEW p \in Poll, worker' = [worker EXCEPT ![w].pc = p], UNCHANGED <<msg, recov, up>>,
             p = "sawComplete" => up[worker[w].task].state = "complete",
             p = "sawFailed" => up[worker[w].task].state = "failed"
      PROVE  ExecMoves
  BY <1>2, GoOnMoves
<1> QED BY <1>1, <1>2 DEF PollSteps

\* The worker between the claim and the record, and after the call.
LEMMA WorkerStepKeepsInv ==
    ASSUME SubmissionInv, NEW w \in Workers, WorkerStep(w)
    PROVE  SubmissionInv'
<1> DEFINE t == worker[w].task
<1>0. /\ worker[w].pc # "idle" => t \in Tasks
      /\ worker[w] \in WorkerState /\ task \in [Tasks -> TaskRow]
      /\ worker \in [Workers -> WorkerState]
      /\ res \in [Tasks -> ResRow] /\ outbox \in [Tasks -> OutboxRow]
      /\ msg \in [Tasks -> MsgState] /\ recov \in [Tasks -> Nat]
      /\ worker[w].account \in Accounts \cup {NoAccount} /\ worker[w].gen \in Nat
      /\ worker[w].pc \in KnowsGeneration => worker[w].gen # 0
  BY WorkerFacts DEF SubmissionInv, TypeOK, TablesTypeOK, WorkerState, WorkersHaveTasks
<1>1. CASE ClaimTask(w)
  BY <1>1, ClaimKeepsInv
<1>2. CASE FailEarly(w)
  BY <1>0, <1>2, FailTaskOwnedMoves, Returns, EnvStays, MovesKeepInv DEF FailEarly, Reason
<1>3. CASE StartUpload(w)
  <2> DEFINE r == [task[t] EXCEPT !.status = "uploading", !.account = worker[w].account]
  <2>1. t \in Tasks /\ worker[w].pc = "owned" /\ EnvOK'
    BY <1>0, <1>3, EnvStays DEF StartUpload
  <2>2. CASE CanUpdate(t, worker[w].lease)
    <3>1. /\ task' = [task EXCEPT ![t] = r] /\ UNCHANGED <<res, outbox>>
          /\ worker' = [worker EXCEPT ![w].pc = "uploading"] /\ UNCHANGED <<msg, recov, up>>
      BY <1>0, <1>3, <2>1, <2>2 DEF StartUpload, TaskRow
    <3>2. /\ task[t].status \in {"reserving", "uploading"} /\ task[t] \in TaskRow
          /\ worker[w].pc \in BeforeRecord
      BY <1>0, <2>1, <2>2 DEF CanUpdate, Owns, SubmissionInv, RecordedBeforeCall
    <3>3. r \in TaskRow
      BY <1>0, <3>2 DEF TaskRow, Status, Executing
    <3>4. RowMove(task[t], r)
      BY <1>0, <3>2 DEF TaskRow, RowMove, Terminal, Unsubmitted
    <3> HIDE DEF r, t
    <3> QED BY <2>1, <3>1, <3>2, <3>3, <3>4, OneRowOnlyMoves, GoOnMoves, MovesKeepInv
  <2>3. CASE ~CanUpdate(t, worker[w].lease)
    <3>1. ReturnError(w) /\ UNCHANGED <<task, res, outbox>>
      BY <1>3, <2>3 DEF StartUpload
    <3> QED BY <2>1, <3>1, NoRowMoves, Returns, MovesKeepInv
  <2> QED BY <2>2, <2>3
<1>4. CASE SubmissionFence(w)
  <2>1. t \in Tasks /\ worker[w].pc \in BeforeRecord /\ EnvOK'
    BY <1>0, <1>4, EnvStays DEF SubmissionFence
  <2>2. CASE worker' = [worker EXCEPT ![w].pc = "fenced"] /\ UNCHANGED <<task, res, outbox, msg, recov, up>>
    BY <2>1, <2>2, NoRowMoves, GoOnMoves, MovesKeepInv
  <2>3. CASE FailTaskOwned(t, worker[w].lease, "unsubmitted") /\ ReturnNil(w)
    BY <2>1, <2>3, FailTaskOwnedMoves, Returns, MovesKeepInv DEF Reason
  <2>4. CASE WorkerYields(w)
    BY <2>1, <2>4, WorkerYieldsMoves, MovesKeepInv
  <2> QED BY <1>4, <2>2, <2>3, <2>4 DEF SubmissionFence
<1>5. CASE PrepareSubmission(w)
  BY <1>5, PrepareKeepsInv
<1>6. CASE SubmitGeneration(w)
  BY <1>6, SubmitKeepsInv
<1>7. CASE RecordTaskSubmissionOwned(w)
  <2> DEFINE r == [task[t] EXCEPT !.gen = worker[w].gen, !.account = worker[w].account]
             c == Owns(t, worker[w].lease) /\ task[t].status = "submitted"
  <2>1. t \in Tasks /\ task[t] \in TaskRow /\ worker[w].pc = "accepted" /\ EnvOK'
    BY <1>0, <1>7, EnvStays DEF RecordTaskSubmissionOwned
  <2>2. CASE c
    <3>1. /\ task' = [task EXCEPT ![t] = r] /\ UNCHANGED <<res, outbox>>
          /\ worker' = [worker EXCEPT ![w].pc = "polling"] /\ UNCHANGED <<msg, recov, up>>
      BY <1>0, <1>7, <2>1, <2>2 DEF RecordTaskSubmissionOwned, TaskRow
    <3>2. r \in TaskRow
      BY <1>0, <2>1 DEF TaskRow
    <3>3. RowMove(task[t], r)
      BY <1>0, <2>1, <2>2 DEF TaskRow, RowMove, Terminal, Unsubmitted
    <3> HIDE DEF r, t
    <3> QED BY <2>1, <3>1, <3>2, <3>3, OneRowOnlyMoves, GoOnMoves, MovesKeepInv
  <2>3. CASE ~c
    <3>1. ReturnError(w) /\ UNCHANGED <<task, res, outbox>>
      BY <1>7, <2>3 DEF RecordTaskSubmissionOwned
    <3> QED BY <2>1, <3>1, NoRowMoves, Returns, MovesKeepInv
  <2> QED BY <2>2, <2>3
<1>8. CASE SubmissionRejected(w)
  BY <1>0, <1>8, FailTaskOwnedMoves, Returns, EnvStays, MovesKeepInv DEF SubmissionRejected, Reason
<1>9. CASE SubmissionUnknown(w)
  BY <1>9, WorkerMarksUncertainMoves, EnvStays, MovesKeepInv DEF SubmissionUnknown
<1>10. CASE Resume(w)
  <2>1. t \in Tasks /\ worker[w].pc = "resume" /\ EnvOK'
    BY <1>0, <1>10, EnvStays DEF Resume
  <2>2. CASE WorkerMarksUncertain(w)
    BY <2>1, <2>2, WorkerMarksUncertainMoves, MovesKeepInv
  <2>3. CASE WorkerYields(w)
    BY <2>1, <2>3, WorkerYieldsMoves, MovesKeepInv
  <2>4. CASE worker' = [worker EXCEPT ![w].pc = "polling"] /\ UNCHANGED <<task, res, outbox, msg, recov, up>>
    BY <2>1, <2>4, NoRowMoves, GoOnMoves, MovesKeepInv
  <2> QED BY <1>10, <2>2, <2>3, <2>4 DEF Resume
<1>11. CASE PollPending(w)
  <2>1. t \in Tasks /\ task[t] \in TaskRow /\ worker[w].pc = "sawPending" /\ EnvOK'
    BY <1>0, <1>11, EnvStays DEF PollPending
  <2>2. CASE CanUpdate(t, worker[w].lease)
    <3>1. PICK s \in {"submitted", "polling"} :
            /\ task' = [task EXCEPT ![t].status = s, ![t].gen = worker[w].gen,
                                    ![t].account = worker[w].account]
            /\ UNCHANGED <<res, outbox>>
            /\ worker' = [worker EXCEPT ![w].pc = "polling"] /\ UNCHANGED <<msg, recov, up>>
      BY <1>11, <2>2 DEF PollPending
    <3> DEFINE r == [task[t] EXCEPT !.status = s, !.gen = worker[w].gen, !.account = worker[w].account]
    <3>2. task' = [task EXCEPT ![t] = r]
      BY <1>0, <2>1, <3>1 DEF TaskRow
    <3>3. r \in TaskRow
      BY <1>0, <2>1 DEF TaskRow, Status, Executing
    <3>4. /\ task[t].status \notin Unsubmitted \cup Terminal /\ worker[w].gen # 0
          /\ worker[w].pc \in KnowsGeneration
      BY <1>0, <2>1, <2>2 DEF CanUpdate, SubmissionInv, RecordedBeforeCall
    <3>5. RowMove(task[t], r)
      BY <1>0, <2>1, <3>4 DEF TaskRow, RowMove, Terminal, Unsubmitted
    <3> HIDE DEF r, t
    <3> QED BY <2>1, <3>1, <3>2, <3>3, <3>4, <3>5, OneRowOnlyMoves, GoOnMoves, MovesKeepInv
  <2>3. CASE ~CanUpdate(t, worker[w].lease)
    <3>1. ReturnError(w) /\ UNCHANGED <<task, res, outbox>>
      BY <1>11, <2>3 DEF PollPending
    <3> QED BY <2>1, <3>1, NoRowMoves, Returns, MovesKeepInv
  <2> QED BY <2>2, <2>3
<1>12. CASE PollComplete(w)
  <2>1. t \in Tasks /\ worker[w].gen # 0 /\ EnvOK'
    BY <1>0, <1>12, EnvStays DEF PollComplete
  <2>2. CASE CompleteTaskOwned(t, worker[w].lease, worker[w].account, worker[w].gen) /\ ReturnNil(w)
    BY <1>0, <2>1, <2>2, CompleteTaskOwnedMoves, Returns, MovesKeepInv
  <2>3. CASE WorkerYields(w)
    BY <1>12, <2>1, <2>3, WorkerYieldsMoves, MovesKeepInv DEF PollComplete
  <2>4. CASE WorkerMarksUncertain(w)
    BY <1>12, <2>1, <2>4, WorkerMarksUncertainMoves, MovesKeepInv DEF PollComplete
  <2> QED BY <1>12, <2>2, <2>3, <2>4 DEF PollComplete
<1>15. CASE PollFailed(w)
  BY <1>0, <1>15, FailSubmittedTaskOwnedMoves, Returns, EnvStays, MovesKeepInv DEF PollFailed
<1>16. CASE PollTick(w) \/ PollStatus(w)
  <2>1. PollSteps(w) /\ t \in Tasks
    BY <1>0, <1>16, PollStepsWithin DEF PollTick, PollStatus
  <2>2. RowsMove /\ EnvOK'
    BY <2>1, NoRowMoves, EnvStays DEF PollSteps
  <2> QED BY <1>16, <2>1, <2>2, PollMoves, MovesKeepInv DEF PollTick, PollStatus
<1>13. CASE PollDeadline(w)
  BY <1>13, WorkerMarksUncertainMoves, EnvStays, MovesKeepInv DEF PollDeadline
<1>14. CASE PollInterrupted(w)
  <2>1. t \in Tasks /\ ReturnNil(w) /\ EnvOK'
    BY <1>0, <1>14, EnvStays DEF PollInterrupted
  <2>2. RowsMove
    BY <1>14, <2>1, YieldMoves, NoRowMoves DEF PollInterrupted
  <2> QED BY <2>1, <2>2, Returns, MovesKeepInv
<1> QED BY <1>1, <1>2, <1>3, <1>4, <1>5, <1>6, <1>7, <1>8, <1>9, <1>10, <1>11, <1>12, <1>13, <1>14,
           <1>15, <1>16 DEF WorkerStep

\* Steps that leave the tasks rows' status, generation and lease id alone.
LEMMA SameRowsMove ==
    ASSUME SubmissionInv, RowsOK',
           \A u \in Tasks : /\ task'[u].attempt = task[u].attempt /\ task'[u].lease = task[u].lease
                            /\ task'[u].status = task[u].status /\ task'[u].gen = task[u].gen
    PROVE  RowsMove
BY RowFacts DEF RowsMove, RowMove

\* An outbox row changes.
LEMMA OutboxMoves ==
    ASSUME SubmissionInv, NEW t \in Tasks, NEW o \in OutboxRow,
           outbox' = [outbox EXCEPT ![t] = o], UNCHANGED <<task, res>>
    PROVE  RowsMove
<1>1. RowsOK'
  BY DEF SubmissionInv, TypeOK, TablesTypeOK, RowsOK
<1> QED BY <1>1, SameRowsMove

\* The scheduler, the client, the administrator, the provider and the clock leave
\* the workers and the number of calls alone.
LEMMA TaskStepMoves ==
    ASSUME SubmissionInv, NEW t \in Tasks, TaskStep(t)
    PROVE  ExecMoves
<1>0. /\ msg \in [Tasks -> MsgState] /\ recov \in [Tasks -> Nat]
      /\ worker \in [Workers -> WorkerState] /\ up \in [Tasks -> ProviderState]
  BY DEF SubmissionInv, TypeOK
<1>1. CASE Dispatch(t)
  <2>1. msg' \in [Tasks -> MsgState] /\ recov' \in [Tasks -> Nat]
    BY <1>0, <1>1 DEF Dispatch, enqueue, MsgState
  <2> QED BY <1>0, <1>1, <2>1, WorkerFacts DEF Dispatch, ExecMoves, ExecOK
<1>2. CASE ArchiveOrphan(t)
  BY <1>0, <1>2, WorkerFacts DEF ArchiveOrphan, ExecMoves, ExecOK, MsgState
<1>3. CASE UpstreamFinishes(t)
  <2>1. PICK s \in {"complete", "failed"} : up' = [up EXCEPT ![t].state = s]
    BY <1>3 DEF UpstreamFinishes
  <2>2. up' \in [Tasks -> ProviderState] /\ \A u \in Tasks : up'[u].calls = up[u].calls
    BY <1>0, <2>1 DEF ProviderState
  <2> QED BY <1>0, <1>3, <2>2, WorkerFacts DEF UpstreamFinishes, ExecMoves, ExecOK
<1>4. CASE UNCHANGED execVars
  BY <1>4, NoExecMoves
<1>5. \/ Dispatch(t) \/ ArchiveOrphan(t) \/ UpstreamFinishes(t) \/ UNCHANGED execVars
  BY DEF TaskStep, CreateReservedTask, CancelQueuedTaskAndRelease, DispatchFails,
         ConfirmSubmissionNotCreated, adminReleaseTaskReservation, LeaseExpires, DeadlinePasses,
         ReservationExpires, OutboxDelayElapses, TenMinutesPass
<1> QED BY <1>1, <1>2, <1>3, <1>4, <1>5

\* The scheduler, the client, the administrator, the provider and the clock.
LEMMA TaskStepKeepsInv ==
    ASSUME SubmissionInv, NEW t \in Tasks, TaskStep(t)
    PROVE  SubmissionInv'
<1>0. /\ task \in [Tasks -> TaskRow] /\ task[t] \in TaskRow
      /\ res \in [Tasks -> ResRow] /\ outbox \in [Tasks -> OutboxRow]
      /\ msg \in [Tasks -> MsgState] /\ recov \in [Tasks -> Nat]
      /\ worker \in [Workers -> WorkerState] /\ up \in [Tasks -> ProviderState]
      /\ task[t].status \in {"absent", "queued"} \cup Terminal => task[t].lease = 0
  BY DEF SubmissionInv, TypeOK, TablesTypeOK, LeasesFresh
<1>1. ASSUME NEW a \in Accounts, CreateReservedTask(t, a)
      PROVE  SubmissionInv'
  <2> DEFINE r == [task[t] EXCEPT !.status = "queued", !.account = a]
  <2>1. /\ task' = [task EXCEPT ![t] = r] /\ task[t].status = "absent"
        /\ res' = [res EXCEPT ![t].state = "held", ![t].account = a]
        /\ outbox' = [outbox EXCEPT ![t] = "due"]
    BY <1>0, <1>1 DEF CreateReservedTask, TaskRow
  <2>2. r \in TaskRow /\ RowMove(task[t], r)
    BY <1>0, <2>1 DEF TaskRow, Status, Terminal, RowMove, Unsubmitted
  <2> HIDE DEF r
  <2>3. RowsOK'
    BY <1>0, <2>1, <2>2 DEF RowsOK, ResRow, OutboxRow
  <2>4. RowsMove
    BY <1>0, <2>1, <2>2, <2>3, RowFacts DEF RowsMove
  <2> QED BY <1>1, <2>4, TaskStepMoves, EnvStays, MovesKeepInv DEF CreateReservedTask
<1>2. ASSUME NEW s \in {"cancelled", "failed"}, NEW why \in Reason,
             task[t].lease = 0, task[t].status \in {"queued", "submission_uncertain"},
             task' = [task EXCEPT ![t].status = s], res' = Release(t, why),
             Wake(t, task[t].account, task', [outbox EXCEPT ![t] = "delivered"])
      PROVE  RowsMove
  <2> DEFINE r == [task[t] EXCEPT !.status = s]
  <2>1. r \in TaskRow /\ RowMove(task[t], r)
    BY <1>0, <1>2 DEF TaskRow, Status, Terminal, RowMove, Unsubmitted
  <2>2. task' = [task EXCEPT ![t] = r]
    BY <1>0, <1>2
  <2>3. res' \in [Tasks -> ResRow]
    BY <1>0, <1>2, ReleaseType
  <2> HIDE DEF r
  <2> QED BY <1>2, <2>1, <2>2, <2>3, OneRowMoves DEF OutboxRow
<1>3. CASE CancelQueuedTaskAndRelease(t)
  <2>1. RowsMove
    BY <1>0, <1>2, <1>3 DEF CancelQueuedTaskAndRelease, Reason
  <2> QED BY <1>3, <2>1, TaskStepMoves, EnvStays, MovesKeepInv DEF CancelQueuedTaskAndRelease
<1>4. CASE ConfirmSubmissionNotCreated(t)
  <2>1. RowsMove
    BY <1>0, <1>2, <1>4 DEF ConfirmSubmissionNotCreated, Reason, Terminal
  <2> QED BY <1>4, <2>1, TaskStepMoves, EnvStays, MovesKeepInv DEF ConfirmSubmissionNotCreated
<1>5. CASE Dispatch(t)
  <2>1. RowsMove
    BY <1>5, OutboxMoves DEF Dispatch, OutboxRow
  <2> QED BY <1>5, <2>1, TaskStepMoves, EnvStays, MovesKeepInv DEF Dispatch
<1>6. CASE DispatchFails(t) \/ OutboxDelayElapses(t)
  <2>1. RowsMove
    BY <1>6, OutboxMoves DEF DispatchFails, OutboxDelayElapses, OutboxRow
  <2> QED BY <1>6, <2>1, TaskStepMoves, EnvStays, MovesKeepInv DEF DispatchFails, OutboxDelayElapses
<1>7. CASE ArchiveOrphan(t)
  <2>1. UNCHANGED <<task, res, outbox>> /\ UNCHANGED <<healthy, ruleActive, aged, paused>>
    BY <1>7 DEF ArchiveOrphan, tableVars
  <2> QED BY <2>1, TaskStepMoves, NoRowMoves, EnvStays, MovesKeepInv
<1>8. CASE adminReleaseTaskReservation(t)
  <2>1. RowsOK' /\ task' = task
    BY <1>0, <1>8, ReleaseType DEF adminReleaseTaskReservation, RowsOK, Reason
  <2> QED BY <1>8, <2>1, SameRowsMove, TaskStepMoves, EnvStays, MovesKeepInv DEF adminReleaseTaskReservation
<1>9. CASE LeaseExpires(t) \/ DeadlinePasses(t)
  <2>1. UNCHANGED <<res, outbox>> /\ UNCHANGED execVars /\ UNCHANGED <<healthy, ruleActive, aged, paused>>
    BY <1>9 DEF LeaseExpires, DeadlinePasses
  <2>2. task[t] \in TaskRow
    BY <1>0
  <2>3. ASSUME NEW x \in TaskRow, task' = [task EXCEPT ![t] = x],
               x.attempt = task[t].attempt, x.lease = task[t].lease,
               x.status = task[t].status, x.gen = task[t].gen
        PROVE  SubmissionInv'
    <3>1. RowsOK'
      BY <1>0, <2>1, <2>3 DEF RowsOK
    <3>2. \A u \in Tasks : /\ task'[u].attempt = task[u].attempt /\ task'[u].lease = task[u].lease
                           /\ task'[u].status = task[u].status /\ task'[u].gen = task[u].gen
      BY <1>0, <2>3
    <3> QED BY <2>1, <3>1, <3>2, SameRowsMove, TaskStepMoves, EnvStays, MovesKeepInv
  <2>4. CASE task' = [task EXCEPT ![t].live = FALSE]
    <3> DEFINE x == [task[t] EXCEPT !.live = FALSE]
    <3>1. x \in TaskRow /\ x.attempt = task[t].attempt /\ x.lease = task[t].lease
          /\ x.status = task[t].status /\ x.gen = task[t].gen
      BY <2>2 DEF TaskRow
    <3>2. task' = [task EXCEPT ![t] = x]
      BY <2>4
    <3> HIDE DEF x
    <3> QED BY <2>3, <3>1, <3>2
  <2>5. CASE task' = [task EXCEPT ![t].queueLate = TRUE]
    <3> DEFINE x == [task[t] EXCEPT !.queueLate = TRUE]
    <3>1. x \in TaskRow /\ x.attempt = task[t].attempt /\ x.lease = task[t].lease
          /\ x.status = task[t].status /\ x.gen = task[t].gen
      BY <2>2 DEF TaskRow
    <3>2. task' = [task EXCEPT ![t] = x]
      BY <2>5
    <3> HIDE DEF x
    <3> QED BY <2>3, <3>1, <3>2
  <2>6. CASE task' = [task EXCEPT ![t].upstreamLate = TRUE]
    <3> DEFINE x == [task[t] EXCEPT !.upstreamLate = TRUE]
    <3>1. x \in TaskRow /\ x.attempt = task[t].attempt /\ x.lease = task[t].lease
          /\ x.status = task[t].status /\ x.gen = task[t].gen
      BY <2>2 DEF TaskRow
    <3>2. task' = [task EXCEPT ![t] = x]
      BY <2>6
    <3> HIDE DEF x
    <3> QED BY <2>3, <3>1, <3>2
  <2> QED BY <1>9, <2>4, <2>5, <2>6 DEF LeaseExpires, DeadlinePasses
<1>10. CASE ReservationExpires(t)
  <2>1. RowsOK' /\ task' = task
    BY <1>0, <1>10 DEF ReservationExpires, RowsOK, ResRow
  <2> QED BY <1>10, <2>1, SameRowsMove, TaskStepMoves, EnvStays, MovesKeepInv DEF ReservationExpires
<1>11. CASE TenMinutesPass(t)
  <2>1. EnvOK'
    BY <1>11 DEF TenMinutesPass, EnvOK, SubmissionInv, TypeOK, TablesTypeOK
  <2> QED BY <1>11, <2>1, NoRowMoves, TaskStepMoves, MovesKeepInv DEF TenMinutesPass
<1>12. CASE UpstreamFinishes(t)
  <2>1. UNCHANGED <<task, res, outbox>> /\ UNCHANGED <<healthy, ruleActive, aged, paused>>
    BY <1>12 DEF UpstreamFinishes, tableVars
  <2> QED BY <2>1, TaskStepMoves, NoRowMoves, EnvStays, MovesKeepInv
<1> QED BY <1>1, <1>3, <1>4, <1>5, <1>6, <1>7, <1>8, <1>9, <1>10, <1>11, <1>12 DEF TaskStep

\* Faults and deliveries: workers stop, messages come and go.
LEMMA FaultMoves ==
    ASSUME SubmissionInv, NEW w \in Workers,
           HandlerError(w) \/ Crash(w) \/ QueueLeaseLost(w) \/ \E t \in Tasks : TakeMessage(w, t)
    PROVE  ExecMoves
<1>0. /\ msg \in [Tasks -> MsgState] /\ recov \in [Tasks -> Nat]
      /\ worker \in [Workers -> WorkerState] /\ worker[w] \in WorkerState
  BY DEF SubmissionInv, TypeOK
<1>2. CASE HandlerError(w)
  BY <1>2, Returns DEF HandlerError
<1>3. CASE Crash(w)
  <2>1. msg' \in [Tasks -> MsgState]
    BY <1>0, <1>3 DEF Crash, MsgState
  <2> QED BY <1>0, <1>3, <2>1, IdleType, OneWorkerMoves DEF Crash, WorkerMove
<1>4. CASE QueueLeaseLost(w)
  <2> DEFINE x == [worker[w] EXCEPT !.via = "none"]
  <2>1. msg' \in [Tasks -> MsgState] /\ worker' = [worker EXCEPT ![w] = x] /\ UNCHANGED <<recov, up>>
    BY <1>0, <1>4 DEF QueueLeaseLost, MsgState
  <2>2. worker[w].pc # "idle"
    BY <1>4 DEF QueueLeaseLost, SubmissionInv, WorkersHaveTasks, IdleWorker
  <2>3. x \in WorkerState /\ WorkerMove(worker[w], x)
    BY <1>0, <2>2 DEF WorkerState, WorkerMove
  <2> HIDE DEF x
  <2> QED BY <1>0, <2>1, <2>3, OneWorkerMoves
<1>5. ASSUME NEW t \in Tasks, TakeMessage(w, t)
      PROVE  ExecMoves
  <2>1. msg' \in [Tasks -> MsgState] /\ recov' \in [Tasks -> Nat] /\ up' = up
    <3>1. CASE msg' = [msg EXCEPT ![t] = "active"] /\ recov' = recov
      BY <1>0, <1>5, <3>1 DEF TakeMessage, MsgState
    <3>2. CASE recov[t] > 0 /\ recov' = [recov EXCEPT ![t] = recov[t] - 1] /\ msg' = msg
      <4>1. recov[t] - 1 \in Nat
        BY <1>0, <3>2
      <4> QED BY <1>0, <1>5, <3>2, <4>1 DEF TakeMessage
    <3> QED BY <1>5, <3>1, <3>2 DEF TakeMessage
  <2>2. PICK v \in {"normal", "recovery"} :
          worker' = [worker EXCEPT ![w] = [IdleWorker EXCEPT !.pc = "claim", !.task = t, !.via = v]]
    BY <1>5 DEF TakeMessage
  <2> DEFINE x == [IdleWorker EXCEPT !.pc = "claim", !.task = t, !.via = v]
  <2>3. x \in WorkerState /\ WorkerMove(worker[w], x)
    BY DEF IdleWorker, WorkerState, WorkerMove, Pc
  <2>4. worker' = [worker EXCEPT ![w] = x]
    BY <2>2
  <2> HIDE DEF x
  <2> QED BY <2>1, <2>3, <2>4, OneWorkerMoves
<1> QED BY <1>2, <1>3, <1>4, <1>5

\* They leave the tables alone.
LEMMA FaultKeepsInv ==
    ASSUME SubmissionInv, NEW w \in Workers,
           HandlerError(w) \/ Crash(w) \/ QueueLeaseLost(w) \/ \E t \in Tasks : TakeMessage(w, t)
    PROVE  SubmissionInv'
<1>1. RowsMove /\ EnvOK'
  BY NoRowMoves, EnvStays DEF HandlerError, Crash, QueueLeaseLost, TakeMessage, tableVars
<1> QED BY <1>1, FaultMoves, MovesKeepInv

\* The rest of the world: recovery, account health, price rule, pause.
LEMMA WorldKeepsInv ==
    ASSUME SubmissionInv,
           \/ RecoverStaleTasks \/ PriceRuleChanges \/ PauseChanges
           \/ \E a \in Accounts : AccountHealthChanges(a)
    PROVE  SubmissionInv'
<1>1. CASE RecoverStaleTasks
  BY <1>1, RecoveryMoves, NoExecMoves, EnvStays, MovesKeepInv DEF RecoverStaleTasks
<1>2. CASE PriceRuleChanges \/ PauseChanges \/ \E a \in Accounts : AccountHealthChanges(a)
  <2>1. UNCHANGED <<task, res, outbox>> /\ UNCHANGED execVars
    BY <1>2 DEF PriceRuleChanges, PauseChanges, AccountHealthChanges
  <2>2. EnvOK'
    BY <1>2 DEF PriceRuleChanges, PauseChanges, AccountHealthChanges, EnvOK, SubmissionInv, TypeOK,
                TablesTypeOK
  <2> QED BY <2>1, <2>2, NoRowMoves, NoExecMoves, MovesKeepInv
<1> QED BY <1>1, <1>2

\* Every step of the specification.
LEMMA StepKeepsSubmissionInv ==
    ASSUME SubmissionInv, [Next]_vars
    PROVE  SubmissionInv'
<1>1. CASE UNCHANGED vars
  <2>1. UNCHANGED <<task, res, outbox>> /\ UNCHANGED execVars /\ UNCHANGED <<healthy, ruleActive, aged, paused>>
    BY <1>1 DEF vars, execVars
  <2> QED BY <2>1, NoRowMoves, NoExecMoves, EnvStays, MovesKeepInv
<1>2. CASE Next
  BY <1>2, TaskStepKeepsInv, WorkerStepKeepsInv, FaultKeepsInv, WorldKeepsInv DEF Next
<1> QED BY <1>1, <1>2

-----------------------------------------------------------------------------
(* The theorems. *)

\* SubmissionInv is an invariant: types, fresh leases, and a record before every
\* provider call, in every reachable state.
THEOREM SubmissionInvariant == Spec => []SubmissionInv
<1>1. Init => SubmissionInv
  <2> SUFFICES ASSUME Init PROVE SubmissionInv
    OBVIOUS
  <2> USE DEF Init, TablesInit, NewTask, NewReservation, IdleWorker
  <2>1. TypeOK
    <3>1. TablesTypeOK
      BY DEF TablesTypeOK, TaskRow, ResRow, OutboxRow, Status, Reason
    <3> QED BY <3>1 DEF TypeOK, MsgState, WorkerState, Pc, ProviderState
  <2>2. /\ \A t \in Tasks : /\ task[t].status = "absent" /\ task[t].lease = 0
                            /\ task[t].attempt = 0 /\ task[t].gen = 0 /\ up[t].calls = 0
        /\ \A w \in Workers : worker[w] = IdleWorker
    OBVIOUS
  <2>3. \A w \in Workers : worker[w].pc = "idle" /\ worker[w].lease = 0
    BY <2>2
  <2> HIDE DEF Init, TablesInit, NewTask, NewReservation, IdleWorker
  <2>4. WorkersHaveTasks
    BY <2>2, <2>3 DEF WorkersHaveTasks
  <2>5. LeasesFresh
    BY <2>2, <2>3 DEF LeasesFresh
  <2>6. RecordedBeforeCall /\ AtMostOneSubmission
    BY <2>2, <2>3 DEF RecordedBeforeCall, AtMostOneSubmission
  <2> QED BY <2>1, <2>4, <2>5, <2>6 DEF SubmissionInv
<1>2. SubmissionInv /\ [Next]_vars => SubmissionInv'
  BY StepKeepsSubmissionInv
<1> QED BY <1>1, <1>2, PTL DEF Spec

\* Every reachable state has the declared types.
THEOREM TypeCorrect == Spec => []TypeOK
<1>1. SubmissionInv => TypeOK
  BY DEF SubmissionInv
<1> QED BY <1>1, SubmissionInvariant, PTL

\* The provider is called at most once for a task, however many workers there are
\* and whatever crashes, stalls, lease losses and redeliveries happen.
THEOREM SubmitsAtMostOnce == Spec => []AtMostOneSubmission
<1>1. SubmissionInv => AtMostOneSubmission
  BY DEF SubmissionInv
<1> QED BY <1>1, SubmissionInvariant, PTL

=============================================================================
