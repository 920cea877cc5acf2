---------------------------- MODULE TaskExecution ----------------------------
(***************************************************************************)
(* The life of a paid generation task: admission, dispatch through the     *)
(* outbox and the asynq queue, the claim that gives one worker an          *)
(* execution lease, the worker's steps around the paid upstream call, and  *)
(* the scheduler's recovery pass.  Every store transaction is one action;  *)
(* between two of them workers stall, crash, lose their lease to the       *)
(* recovery pass and race the worker that took over.                       *)
(*                                                                         *)
(* internal/store/execution.go, routing.go and task_queries.go give the    *)
(* transactions, internal/jobs the worker, the scheduler and the queue.    *)
(* The interleaving of statements inside the admission and the claim       *)
(* transaction is the subject of module Admission.                         *)
(***************************************************************************)
EXTENDS TaskTables

CONSTANTS
    Workers,         \* the dispatcher goroutines of internal/jobs
    Events,          \* the environment's events that this instance includes
    QueueDeadlines,  \* queue_deadline_at IS NOT NULL
    UpstreamDeadlines,\* upstream_deadline_at IS NOT NULL
    MaxAttempts,     \* bound on execution_attempt
    MaxRecovery,     \* bound on recovery messages waiting for one task
    FaultAttempts    \* bound: faults hit only attempts below this number

ASSUME ExecutionAssumptions ==
    /\ 0 \notin Workers
    /\ QueueDeadlines \in BOOLEAN
    /\ UpstreamDeadlines \in BOOLEAN
    /\ MaxAttempts \in Nat
    /\ MaxRecovery \in Nat
    /\ FaultAttempts \in Nat

VARIABLES
    msg,     \* the asynq message whose id is the task id
    recov,   \* the asynq messages with a unique recovery id
    worker,  \* what each dispatcher goroutine is doing
    up       \* the provider: calls received and the generation it created

execVars == <<msg, recov, worker, up>>
vars == <<task, res, outbox, healthy, ruleActive, aged, paused, msg, recov, worker, up>>

-----------------------------------------------------------------------------

MsgState == {"none", "pending", "active", "archived"}

\* A goroutine has taken a message (claim), owns a task it has not submitted
\* (owned, uploading its inputs), has passed the submission fence (fenced), has
\* recorded that it is about to submit (prepared), knows the provider's answer
\* (accepted, rejected, unknown) or has claimed a task that already has a
\* generation (resume).  It then waits for the next poll tick (polling), has found
\* the deadline ahead (ticked) and has read the generation's status (sawPending,
\* sawComplete, sawFailed).
BeforeRecord == {"owned", "uploading", "fenced"}
Poll == {"polling", "ticked", "sawPending", "sawComplete", "sawFailed"}
KnowsGeneration == {"accepted", "resume"} \cup Poll
Pc == {"idle", "claim", "prepared", "rejected", "unknown"} \cup BeforeRecord \cup KnowsGeneration

WorkerState == [pc : Pc, task : Tasks \cup {0}, lease : Nat, gen : Nat,
                account : Accounts \cup {NoAccount},
                via : {"none", "normal", "recovery"}]

IdleWorker == [pc |-> "idle", task |-> 0, lease |-> 0, gen |-> 0,
               account |-> NoAccount, via |-> "none"]

ProviderState == [calls : Nat, state : {"none", "running", "complete", "failed"}]

TypeOK ==
    /\ TablesTypeOK
    /\ msg \in [Tasks -> MsgState]
    /\ recov \in [Tasks -> Nat]
    /\ worker \in [Workers -> WorkerState]
    /\ up \in [Tasks -> ProviderState]

Init ==
    /\ TablesInit
    /\ msg = [t \in Tasks |-> "none"]
    /\ recov = [t \in Tasks |-> 0]
    /\ worker = [w \in Workers |-> IdleWorker]
    /\ up = [t \in Tasks |-> [calls |-> 0, state |-> "none"]]

Strikes(e, t) == e \in Events /\ task[t].attempt < FaultAttempts

-----------------------------------------------------------------------------
(* Admission and the client's cancellation. *)

\* createReservedTaskForProviderOnce, as one step.
CreateReservedTask(t, a) ==
    /\ task[t].status = "absent"
    /\ \A u \in Tasks : u < t => task[u].status # "absent"
    /\ ruleActive
    /\ healthy[a]
    /\ Cardinality(HeldBy(a)) < AccountCapacity(t, a)
    /\ KeyAdmits(KeyOf[t])
    /\ task' = [task EXCEPT ![t].status = "queued", ![t].account = a]
    /\ res' = [res EXCEPT ![t].state = "held", ![t].account = a]
    /\ outbox' = [outbox EXCEPT ![t] = "due"]
    /\ UNCHANGED <<healthy, ruleActive, aged, paused, execVars>>

CancelQueuedTaskAndRelease(t) ==
    /\ task[t].status = "queued"
    /\ LeaseFree(t)
    /\ task' = [task EXCEPT ![t].status = "cancelled"]
    /\ res' = Release(t, "unsubmitted")
    /\ Wake(t, task[t].account, task', [outbox EXCEPT ![t] = "delivered"])
    /\ UNCHANGED <<healthy, ruleActive, aged, paused, execVars>>

-----------------------------------------------------------------------------
(* The scheduler: outbox dispatch and the asynq queue. *)

Dispatchable(t) ==
    /\ outbox[t] = "due"
    /\ \/ task[t].status = "queued"
       \/ task[t].status \in {"submitted", "polling"} /\ task[t].gen # 0
    /\ LeaseFree(t)

Mutant_EnqueueIgnoresArchived(state) == IF state = "none" THEN "pending" ELSE state

\* enqueue under the task's own id: a conflicting message that still waits or
\* runs is left alone, an archived one is run again.
enqueue(state) == IF state \in {"none", "archived"} THEN "pending" ELSE state

\* ClaimDispatchableOutbox followed by dispatchItem.
Dispatch(t) ==
    /\ Dispatchable(t)
    /\ outbox' = [outbox EXCEPT ![t] = "delayed"]
    /\ IF task[t].status = "queued"
         THEN msg' = [msg EXCEPT ![t] = enqueue(@)] /\ UNCHANGED recov
         ELSE /\ recov[t] < MaxRecovery
              /\ recov' = [recov EXCEPT ![t] = @ + 1] /\ UNCHANGED msg
    /\ UNCHANGED <<task, res, healthy, ruleActive, aged, paused, worker, up>>

\* The scheduler stops after it claimed the row, or Redis refuses the message
\* and RecordOutboxError postpones it.
DispatchFails(t) ==
    /\ "enqueue" \in Events
    /\ Dispatchable(t)
    /\ outbox' = [outbox EXCEPT ![t] = "delayed"]
    /\ UNCHANGED <<task, res, healthy, ruleActive, aged, paused, execVars>>

Mutant_TakeMessageUnguarded(w, t) ==
    /\ worker[w].pc = "idle"
    /\ recov' = [recov EXCEPT ![t] = @ - 1]
    /\ worker' = [worker EXCEPT ![w] = [IdleWorker EXCEPT !.pc = "claim", !.task = t,
                                                         !.via = "recovery"]]
    /\ UNCHANGED <<tableVars, msg, up>>

TakeMessage(w, t) ==
    /\ worker[w].pc = "idle"
    /\ \/ /\ msg[t] = "pending"
          /\ msg' = [msg EXCEPT ![t] = "active"]
          /\ worker' = [worker EXCEPT ![w] = [IdleWorker EXCEPT !.pc = "claim", !.task = t,
                                                               !.via = "normal"]]
          /\ UNCHANGED recov
       \/ /\ recov[t] > 0
          /\ recov' = [recov EXCEPT ![t] = @ - 1]
          /\ worker' = [worker EXCEPT ![w] = [IdleWorker EXCEPT !.pc = "claim", !.task = t,
                                                               !.via = "recovery"]]
          /\ UNCHANGED msg
    /\ UNCHANGED <<tableVars, up>>

\* The handler returns: asynq deletes the message of a handler that returned
\* nil and, with MaxRetry(0), archives the message of one that failed.
Return(w, ending) ==
    /\ worker' = [worker EXCEPT ![w] = IdleWorker]
    /\ msg' = IF worker[w].via = "normal"
                THEN [msg EXCEPT ![worker[w].task] = ending] ELSE msg
    /\ UNCHANGED <<recov, up>>

ReturnNil(w) == Return(w, "none")
ReturnError(w) == Return(w, "archived")

\* asynq finds a message whose worker process died and archives it.
ArchiveOrphan(t) ==
    /\ msg[t] = "active"
    /\ \A w \in Workers : ~(worker[w].task = t /\ worker[w].via = "normal")
    /\ msg' = [msg EXCEPT ![t] = "archived"]
    /\ UNCHANGED <<tableVars, recov, worker, up>>

\* asynq loses its own lease on the message of a stalled goroutine and archives
\* the message; the handler runs on, and what it returns is ignored.
QueueLeaseLost(w) ==
    /\ worker[w].via = "normal"
    /\ Strikes("stall", worker[w].task)
    /\ msg' = [msg EXCEPT ![worker[w].task] = "archived"]
    /\ worker' = [worker EXCEPT ![w].via = "none"]
    /\ UNCHANGED <<tableVars, recov, up>>

-----------------------------------------------------------------------------
(* ClaimTask. *)

Claimable(t) ==
    /\ \/ task[t].status = "queued" /\ ~task[t].queueLate
       \/ task[t].status \in {"submitted", "polling"} /\ task[t].gen # 0
    /\ task[t].gen = 0 \/ ~task[t].upstreamLate
    /\ LeaseFree(t)

\* rerouteQueuedTaskTx: another healthy account with a free execution slot.
RerouteTargets(t) ==
    {a \in Accounts \ {task[t].account} :
        /\ healthy[a]
        /\ Cardinality(ActiveOn(a)) < Concurrency[a]
        /\ Cardinality(HeldBy(a)) < AccountCapacity(t, a)}

ClaimAccounts(t) ==
    IF healthy[task[t].account] THEN {task[t].account} ELSE RerouteTargets(t)

MayExecute(t, a) ==
    /\ AccountHasSlot(t, a, ActiveOn(a))
    /\ KeyHasSlot(KeyOf[t])
    /\ lockSystemExecution

Mutant_TakeLeaseKeepsReservation(w, t, a) ==
    LET l == task[t].attempt + 1 IN
    /\ task[t].attempt < MaxAttempts
    /\ task' = [task EXCEPT ![t].status = IF @ = "queued" THEN "reserving" ELSE @,
                            ![t].account = a, ![t].lease = l, ![t].live = TRUE,
                            ![t].attempt = l]
    /\ res' = [res EXCEPT ![t].late = FALSE]
    /\ Wake(t, a, task', [outbox EXCEPT ![t] = "delivered"])
    /\ worker' = [worker EXCEPT ![w] = [@ EXCEPT !.pc = IF task[t].gen = 0 THEN "owned" ELSE "resume",
                                                !.lease = l, !.gen = task[t].gen,
                                                !.account = a]]
    /\ UNCHANGED <<msg, recov, up>>

\* The claim's last statements: the new lease, the outbox row delivered, and
\* the account's and the key's queued tasks woken.
TakeLease(w, t, a) ==
    LET l == task[t].attempt + 1 IN
    /\ task[t].attempt < MaxAttempts
    /\ task' = [task EXCEPT ![t].status = IF @ = "queued" THEN "reserving" ELSE @,
                            ![t].account = a, ![t].lease = l, ![t].live = TRUE,
                            ![t].attempt = l]
    /\ res' = [res EXCEPT ![t].account = IF res[t].state = "held" THEN a ELSE @,
                          ![t].late = FALSE]
    /\ Wake(t, a, task', [outbox EXCEPT ![t] = "delivered"])
    /\ worker' = [worker EXCEPT ![w] = [@ EXCEPT !.pc = IF task[t].gen = 0 THEN "owned" ELSE "resume",
                                                !.lease = l, !.gen = task[t].gen,
                                                !.account = a]]
    /\ UNCHANGED <<msg, recov, up>>

\* No execution slot: the rerouting is kept, the outbox row tried again later.
DeferQueuedTask(w, t, a) ==
    /\ task' = [task EXCEPT ![t].account = a]
    /\ res' = [res EXCEPT ![t].account = IF res[t].state = "held" THEN a ELSE @]
    /\ outbox' = [outbox EXCEPT ![t] = "delayed"]
    /\ ReturnNil(w)

ClaimFailsTask(w, t) ==
    /\ task' = [task EXCEPT ![t].status = "failed"]
    /\ res' = Release(t, "unsubmitted")
    /\ Wake(t, task[t].account, task', [outbox EXCEPT ![t] = "delivered"])
    /\ ReturnNil(w)

ClaimTask(w) ==
    LET t == worker[w].task IN
    /\ worker[w].pc = "claim"
    /\ \/ /\ ~Claimable(t)
          /\ ReturnNil(w)
          /\ UNCHANGED <<task, res, outbox>>
       \/ /\ Claimable(t) /\ task[t].status # "queued"
          /\ TakeLease(w, t, task[t].account)
       \/ /\ Claimable(t) /\ task[t].status = "queued" /\ ~ruleActive
          /\ ClaimFailsTask(w, t)
       \/ /\ Claimable(t) /\ task[t].status = "queued" /\ ruleActive
          /\ ClaimAccounts(t) = {}
          /\ DeferQueuedTask(w, t, task[t].account)
       \/ /\ Claimable(t) /\ task[t].status = "queued" /\ ruleActive
          /\ \E a \in ClaimAccounts(t) :
                IF MayExecute(t, a) THEN TakeLease(w, t, a) ELSE DeferQueuedTask(w, t, a)
    /\ UNCHANGED <<healthy, ruleActive, aged, paused>>

-----------------------------------------------------------------------------
(* The owned updates of internal/store/execution.go: each one is guarded by  *)
(* the worker's own lease, unexpired.                                        *)

\* FailTaskOwned, only before a generation is known.
FailTaskOwned(t, l, why) ==
    IF Owns(t, l) /\ task[t].gen = 0 /\ task[t].status \notin Terminal
      THEN /\ task' = [task EXCEPT ![t].status = "failed", ![t].lease = 0, ![t].live = FALSE]
           /\ res' = Release(t, why)
           /\ Wake(t, task[t].account, task', [outbox EXCEPT ![t] = "delivered"])
      ELSE UNCHANGED <<task, res, outbox>>

\* YieldTaskLease: back to the queue without a generation, to polling with one.
CanYield(t, l) ==
    /\ Owns(t, l)
    /\ \/ task[t].status \in {"reserving", "uploading", "polling"}
       \/ task[t].status = "submitted" /\ task[t].gen # 0

Mutant_YieldForgetsOutbox(t) ==
    /\ task' = [task EXCEPT ![t].status = IF task[t].gen = 0 THEN "queued" ELSE "polling",
                            ![t].lease = 0, ![t].live = FALSE]
    /\ res' = [res EXCEPT ![t].late = FALSE]
    /\ Wake(t, task[t].account, task', outbox)

YieldTaskLease(t) ==
    /\ task' = [task EXCEPT ![t].status = IF task[t].gen = 0 THEN "queued" ELSE "polling",
                            ![t].lease = 0, ![t].live = FALSE]
    /\ res' = [res EXCEPT ![t].late = FALSE]
    /\ Wake(t, task[t].account, task', [outbox EXCEPT ![t] = "delayed"])

\* updateTaskOwned with a non-terminal status.
CanUpdate(t, l) == Owns(t, l) /\ task[t].status \notin Terminal

\* updateTaskOwned with submission_uncertain: the reservation stays held.
MarkUncertain(t) ==
    /\ task' = [task EXCEPT ![t].status = "submission_uncertain",
                            ![t].lease = 0, ![t].live = FALSE]
    /\ Wake(t, task[t].account, task', [outbox EXCEPT ![t] = "delivered"])
    /\ UNCHANGED res

CompleteTaskOwned(t, l, a, g) ==
    IF Owns(t, l) /\ task[t].status \in {"submitted", "polling"}
      THEN /\ task' = [task EXCEPT ![t].status = "succeeded", ![t].account = a,
                                   ![t].gen = IF g = 0 THEN @ ELSE g, ![t].lease = 0, ![t].live = FALSE]
           /\ res' = IF res[t].state = "held" /\ res[t].account = a
                       THEN [res EXCEPT ![t].state = "consumed", ![t].reason = "charged"]
                       ELSE res
           /\ Wake(t, a, task', [outbox EXCEPT ![t] = "delivered"])
      ELSE UNCHANGED <<task, res, outbox>>

\* FailSubmittedTaskOwned, only after an explicit upstream FAILED.
FailSubmittedTaskOwned(t, l) ==
    IF Owns(t, l) /\ task[t].gen # 0 /\ task[t].status \in {"submitted", "polling"}
      THEN /\ task' = [task EXCEPT ![t].status = "failed", ![t].lease = 0, ![t].live = FALSE]
           /\ res' = Release(t, "upstream_failed")
           /\ Wake(t, task[t].account, task', [outbox EXCEPT ![t] = "delivered"])
      ELSE UNCHANGED <<task, res, outbox>>

-----------------------------------------------------------------------------
(* The worker before the paid call: processImage, processVideo, processAudio. *)

\* yieldForReroute, yieldForCooldown, yieldAt and yieldSubmittedRetry.
WorkerYields(w) ==
    IF CanYield(worker[w].task, worker[w].lease)
      THEN YieldTaskLease(worker[w].task) /\ ReturnNil(w)
      ELSE ReturnError(w) /\ UNCHANGED <<task, res, outbox>>

\* A validation, client or upload error: fail ignores a lost lease.
FailEarly(w) ==
    /\ worker[w].pc \in BeforeRecord
    /\ "reject" \in Events
    /\ FailTaskOwned(worker[w].task, worker[w].lease, "unsubmitted")
    /\ ReturnNil(w)
    /\ UNCHANGED <<healthy, ruleActive, aged, paused>>

StartUpload(w) ==
    LET t == worker[w].task IN
    /\ worker[w].pc = "owned"
    /\ "upload" \in Events
    /\ IF CanUpdate(t, worker[w].lease)
         THEN /\ task' = [task EXCEPT ![t].status = "uploading", ![t].account = worker[w].account]
              /\ worker' = [worker EXCEPT ![w].pc = "uploading"]
              /\ UNCHANGED <<msg, recov, up>>
         ELSE ReturnError(w) /\ UNCHANGED task
    /\ UNCHANGED <<res, outbox, healthy, ruleActive, aged, paused>>

\* enforceSubmissionFence: the account, the shared circuit and the price rule
\* are read, outside any transaction; an unroutable account or an open circuit
\* gives the task back.
SubmissionFence(w) ==
    LET t == worker[w].task IN
    /\ worker[w].pc \in BeforeRecord
    /\ \/ /\ healthy[worker[w].account] /\ ruleActive
          /\ worker' = [worker EXCEPT ![w].pc = "fenced"]
          /\ UNCHANGED <<task, res, outbox, msg, recov, up>>
       \/ /\ healthy[worker[w].account] /\ ~ruleActive
          /\ FailTaskOwned(t, worker[w].lease, "unsubmitted")
          /\ ReturnNil(w)
       \/ /\ ~healthy[worker[w].account] \/ "circuit" \in Events
          /\ WorkerYields(w)
    /\ UNCHANGED <<healthy, ruleActive, aged, paused>>

Mutant_PrepareWithoutRecord(w) ==
    /\ worker[w].pc = "fenced"
    /\ CanUpdate(worker[w].task, worker[w].lease)
    /\ worker' = [worker EXCEPT ![w].pc = "prepared"]
    /\ UNCHANGED <<tableVars, msg, recov, up>>

\* prepareSubmission: the status submitted is committed, with the rule checked
\* again, before the provider is called.
PrepareSubmission(w) ==
    LET t == worker[w].task IN
    /\ worker[w].pc = "fenced"
    /\ IF CanUpdate(t, worker[w].lease) /\ (task[t].gen # 0 \/ ruleActive)
         THEN /\ task' = [task EXCEPT ![t].status = "submitted", ![t].account = worker[w].account]
              /\ worker' = [worker EXCEPT ![w].pc = "prepared"]
              /\ UNCHANGED <<msg, recov, up>>
         ELSE ReturnError(w) /\ UNCHANGED task
    /\ UNCHANGED <<res, outbox, healthy, ruleActive, aged, paused>>

-----------------------------------------------------------------------------
(* The paid call and its answer. *)

\* SubmitGeneration: the provider creates the generation or refuses it, and the
\* answer arrives or does not (submissionUncertain).
SubmitGeneration(w) ==
    LET t == worker[w].task IN
    /\ worker[w].pc = "prepared"
    /\ \E created \in BOOLEAN, answer \in {"accepted", "rejected", "unknown"} :
         /\ answer = "accepted" => created
         /\ answer = "rejected" => ~created
         /\ answer # "accepted" => "reject" \in Events
         /\ up' = [up EXCEPT ![t] = [calls |-> @.calls + 1,
                                      state |-> IF created THEN "running" ELSE @.state]]
         /\ worker' = [worker EXCEPT ![w].pc = answer,
                                     ![w].gen = IF answer = "accepted" THEN worker[w].lease ELSE 0]
    /\ UNCHANGED <<tableVars, msg, recov>>

\* recordSubmission
RecordTaskSubmissionOwned(w) ==
    LET t == worker[w].task IN
    /\ worker[w].pc = "accepted"
    /\ IF Owns(t, worker[w].lease) /\ task[t].status = "submitted"
         THEN /\ task' = [task EXCEPT ![t].gen = worker[w].gen, ![t].account = worker[w].account]
              /\ worker' = [worker EXCEPT ![w].pc = "polling"]
              /\ UNCHANGED <<msg, recov, up>>
         ELSE ReturnError(w) /\ UNCHANGED task
    /\ UNCHANGED <<res, outbox, healthy, ruleActive, aged, paused>>

SubmissionRejected(w) ==
    /\ worker[w].pc = "rejected"
    /\ FailTaskOwned(worker[w].task, worker[w].lease, "rejected")
    /\ ReturnNil(w)
    /\ UNCHANGED <<healthy, ruleActive, aged, paused>>

\* markSubmissionUncertain
WorkerMarksUncertain(w) ==
    IF CanUpdate(worker[w].task, worker[w].lease)
      THEN MarkUncertain(worker[w].task) /\ ReturnNil(w)
      ELSE ReturnError(w) /\ UNCHANGED <<task, res, outbox>>

Mutant_UnknownMeansRejected(w) ==
    /\ worker[w].pc = "unknown"
    /\ FailTaskOwned(worker[w].task, worker[w].lease, "rejected")
    /\ ReturnNil(w)
    /\ UNCHANGED <<healthy, ruleActive, aged, paused>>

SubmissionUnknown(w) ==
    /\ worker[w].pc = "unknown"
    /\ WorkerMarksUncertain(w)
    /\ UNCHANGED <<healthy, ruleActive, aged, paused>>

-----------------------------------------------------------------------------
(* Polling the generation: pollGeneration, pollVideo, pollAudio. *)

\* RecordTaskUpstreamStatusOwned accepts the worker's reading of the status.
StillMine(w) ==
    LET t == worker[w].task IN
    /\ Owns(t, worker[w].lease) /\ task[t].gen # 0
    /\ task[t].status \in {"submitted", "polling"}

\* The branches of the poll loop's switch on the status.
Saw(state) == CASE state = "complete" -> "sawComplete"
                [] state = "failed" -> "sawFailed"
                [] OTHER -> "sawPending"

\* The resumed task's account is gone, cools down, has no session, or is polled.
Resume(w) ==
    /\ worker[w].pc = "resume"
    /\ \/ /\ "reject" \in Events \/ task[worker[w].task].upstreamLate
          /\ WorkerMarksUncertain(w)
       \/ ("retry" \in Events \/ ~healthy[worker[w].account]) /\ WorkerYields(w)
       \/ /\ worker' = [worker EXCEPT ![w].pc = "polling"]
          /\ UNCHANGED <<task, res, outbox, msg, recov, up>>
    /\ UNCHANGED <<healthy, ruleActive, aged, paused>>

\* The ticker fires before the upstream deadline.
PollTick(w) ==
    /\ worker[w].pc = "polling"
    /\ ~task[worker[w].task].upstreamLate
    /\ worker' = [worker EXCEPT ![w].pc = "ticked"]
    /\ UNCHANGED <<tableVars, msg, recov, up>>

\* The status is read and recorded; a read that failed is tried again at the next
\* tick.
PollStatus(w) ==
    /\ worker[w].pc = "ticked"
    /\ \/ /\ StillMine(w)
          /\ worker' = [worker EXCEPT ![w].pc = Saw(up[worker[w].task].state)]
          /\ UNCHANGED <<msg, recov, up>>
       \/ ~StillMine(w) /\ ReturnError(w)
       \/ /\ "retry" \in Events
          /\ worker' = [worker EXCEPT ![w].pc = "polling"]
          /\ UNCHANGED <<msg, recov, up>>
    /\ UNCHANGED tableVars

\* The generation is unfinished: the status update is an owned one of its own.
PollPending(w) ==
    LET t == worker[w].task IN
    /\ worker[w].pc = "sawPending"
    /\ IF CanUpdate(t, worker[w].lease)
         THEN /\ \E s \in {"submitted", "polling"} :
                   task' = [task EXCEPT ![t].status = s, ![t].gen = worker[w].gen,
                                        ![t].account = worker[w].account]
              /\ worker' = [worker EXCEPT ![w].pc = "polling"]
              /\ UNCHANGED <<msg, recov, up>>
         ELSE ReturnError(w) /\ UNCHANGED task
    /\ UNCHANGED <<res, outbox, healthy, ruleActive, aged, paused>>

\* The generation is complete: its result is fetched and the task settled, also
\* after the deadline as long as nobody else ended the task; a worker that lost its
\* lease gives up silently.  An unreadable or empty result is tried again later.
PollComplete(w) ==
    LET t == worker[w].task IN
    /\ worker[w].pc = "sawComplete"
    /\ \/ /\ CompleteTaskOwned(t, worker[w].lease, worker[w].account, worker[w].gen)
          /\ ReturnNil(w)
       \/ /\ "retry" \in Events
          /\ IF task[t].upstreamLate THEN WorkerMarksUncertain(w) ELSE WorkerYields(w)
    /\ UNCHANGED <<healthy, ruleActive, aged, paused>>

\* The generation failed: failUpstreamGeneration, failAfterSubmission.
PollFailed(w) ==
    /\ worker[w].pc = "sawFailed"
    /\ FailSubmittedTaskOwned(worker[w].task, worker[w].lease)
    /\ ReturnNil(w)
    /\ UNCHANGED <<healthy, ruleActive, aged, paused>>

\* A tick after the upstream deadline.
PollDeadline(w) ==
    /\ worker[w].pc = "polling"
    /\ task[worker[w].task].upstreamLate
    /\ WorkerMarksUncertain(w)
    /\ UNCHANGED <<healthy, ruleActive, aged, paused>>

\* The status read failed and recordAccountFailure asks for a later retry, or
\* the handler's context ended (task timeout, or the heartbeat lost the lease):
\* the poll loop yields and returns nil, whatever the yield says.
PollInterrupted(w) ==
    LET t == worker[w].task IN
    /\ worker[w].pc \in {"polling", "ticked"}
    /\ "retry" \in Events \/ ~Owns(t, worker[w].lease)
    /\ IF CanYield(t, worker[w].lease) THEN YieldTaskLease(t) ELSE UNCHANGED <<task, res, outbox>>
    /\ ReturnNil(w)
    /\ UNCHANGED <<healthy, ruleActive, aged, paused>>

\* The handler returns an error: a database or Redis error, or its context
\* ended outside the polling loop.  The task keeps its row until the lease ends.
HandlerError(w) ==
    /\ worker[w].pc # "idle"
    /\ \/ Strikes("error", worker[w].task)
       \/ worker[w].lease # 0 /\ ~Owns(worker[w].task, worker[w].lease)
    /\ ReturnError(w)
    /\ UNCHANGED tableVars

\* The worker process dies: its message stays active until asynq notices, or,
\* when it was told to stop, asynq puts the message back in the queue.
Crash(w) ==
    /\ worker[w].pc # "idle"
    /\ Strikes("crash", worker[w].task)
    /\ worker' = [worker EXCEPT ![w] = IdleWorker]
    /\ \/ UNCHANGED msg
       \/ worker[w].via = "normal" /\ msg' = [msg EXCEPT ![worker[w].task] = "pending"]
    /\ UNCHANGED <<tableVars, recov, up>>

-----------------------------------------------------------------------------
(* RecoverStaleTasks: one transaction over all rows, every 15 seconds. *)

QueueTimedOut(t) == task[t].status = "queued" /\ task[t].queueLate /\ LeaseFree(t)

UpstreamTimedOut(t) ==
    /\ task[t].status \in {"submitted", "polling"}
    /\ task[t].gen # 0 /\ task[t].upstreamLate

LeaseExpired(t) == task[t].lease # 0 /\ ~task[t].live

LostBeforeSubmission(t) == task[t].status \in {"reserving", "uploading"} /\ LeaseExpired(t)

Mutant_SubmissionLossIgnored(t) == FALSE

LostDuringSubmission(t) ==
    task[t].status = "submitted" /\ task[t].gen = 0 /\ LeaseExpired(t)

LostWhilePolling(t) ==
    /\ task[t].status \in {"submitted", "polling"}
    /\ task[t].gen # 0 /\ ~task[t].upstreamLate /\ LeaseExpired(t)

ReservationTimedOut(t) ==
    /\ task[t].status = "queued" /\ task[t].attempt = 0 /\ ~QueueTimedOut(t)
    /\ res[t].state = "held" /\ res[t].late

RecoveredRow(t) ==
    CASE QueueTimedOut(t) \/ ReservationTimedOut(t) -> [task[t] EXCEPT !.status = "failed"]
      [] UpstreamTimedOut(t) \/ LostDuringSubmission(t) ->
           [task[t] EXCEPT !.status = "submission_uncertain", !.lease = 0, !.live = FALSE]
      [] LostBeforeSubmission(t) ->
           [task[t] EXCEPT !.status = "queued", !.lease = 0, !.live = FALSE]
      [] LostWhilePolling(t) -> [task[t] EXCEPT !.lease = 0, !.live = FALSE]
      [] OTHER -> task[t]

\* Queue and upstream deadlines wake the tasks waiting for their account or
\* key; the other recoveries do not.  Requeued rows are due at once.
RecoverStaleTasks ==
    LET ended == {t \in Tasks : QueueTimedOut(t) \/ UpstreamTimedOut(t)}
        requeued == {t \in Tasks : LostBeforeSubmission(t) \/ LostWhilePolling(t)}
        woken == {u \in Tasks : /\ task[u].status = "queued" /\ u \notin ended
                                /\ \E t \in ended : \/ task[t].account = task[u].account
                                                    \/ KeyOf[t] = KeyOf[u]}
    IN
    /\ \E t \in Tasks : RecoveredRow(t) # task[t]
    /\ task' = [t \in Tasks |-> RecoveredRow(t)]
    /\ res' = [t \in Tasks |->
                 IF (QueueTimedOut(t) \/ ReservationTimedOut(t)) /\ res[t].state = "held"
                   THEN [res[t] EXCEPT !.state = "released", !.reason = "unsubmitted"]
                   ELSE IF t \in requeued THEN [res[t] EXCEPT !.late = FALSE] ELSE res[t]]
    /\ \E skipped \in SUBSET {u \in woken : outbox[u] # "due"} :
         outbox' = [t \in Tasks |->
                      IF \/ task'[t].status = "submission_uncertain"
                         \/ task'[t].status = "failed" /\ task[t].status # "failed"
                        THEN "delivered"
                        ELSE IF t \in requeued \cup (woken \ skipped) THEN "due" ELSE outbox[t]]
    /\ UNCHANGED <<healthy, ruleActive, aged, paused, execVars>>

-----------------------------------------------------------------------------
(* The administrator's reconciliation of an uncertain submission. *)

Mutant_ConfirmAnyUnfinished(t) ==
    /\ "admin" \in Events
    /\ task[t].status \in {"queued", "polling", "submission_uncertain"}
    /\ task' = [task EXCEPT ![t].status = "failed"]
    /\ res' = Release(t, "not_created")
    /\ Wake(t, task[t].account, task', [outbox EXCEPT ![t] = "delivered"])
    /\ UNCHANGED <<healthy, ruleActive, aged, paused, execVars>>

ConfirmSubmissionNotCreated(t) ==
    /\ "admin" \in Events
    /\ task[t].status = "submission_uncertain"
    /\ task' = [task EXCEPT ![t].status = "failed"]
    /\ res' = Release(t, "not_created")
    /\ Wake(t, task[t].account, task', [outbox EXCEPT ![t] = "delivered"])
    /\ UNCHANGED <<healthy, ruleActive, aged, paused, execVars>>

adminReleaseTaskReservation(t) ==
    /\ "admin" \in Events
    /\ task[t].status = "submission_uncertain"
    /\ res[t].state = "held"
    /\ res' = Release(t, "manual")
    /\ UNCHANGED <<task, outbox, healthy, ruleActive, aged, paused, execVars>>

-----------------------------------------------------------------------------
(* Time and the environment. *)

\* The heartbeat missed its turn long enough; a lease whose worker is gone is
\* renewed by nobody.
Orphaned(t) == \A w \in Workers : ~(worker[w].task = t /\ worker[w].lease = task[t].lease)

LeaseExpires(t) ==
    /\ task[t].live
    /\ Orphaned(t) \/ Strikes("lease", t)
    /\ task' = [task EXCEPT ![t].live = FALSE]
    /\ UNCHANGED <<res, outbox, healthy, ruleActive, aged, paused, execVars>>

DeadlinePasses(t) ==
    /\ \/ /\ QueueDeadlines /\ task[t].status # "absent" /\ ~task[t].queueLate
          /\ task[t].status \notin Terminal
          /\ task' = [task EXCEPT ![t].queueLate = TRUE]
       \/ /\ UpstreamDeadlines /\ task[t].status \in {"submitted", "polling"}
          /\ ~task[t].upstreamLate
          /\ task' = [task EXCEPT ![t].upstreamLate = TRUE]
    /\ UNCHANGED <<res, outbox, healthy, ruleActive, aged, paused, execVars>>

ReservationExpires(t) ==
    /\ "reservation" \in Events
    /\ task[t].status = "queued" /\ res[t].state = "held" /\ ~res[t].late
    /\ res' = [res EXCEPT ![t].late = TRUE]
    /\ UNCHANGED <<task, outbox, healthy, ruleActive, aged, paused, execVars>>

OutboxDelayElapses(t) ==
    /\ outbox[t] = "delayed"
    /\ outbox' = [outbox EXCEPT ![t] = "due"]
    /\ UNCHANGED <<task, res, healthy, ruleActive, aged, paused, execVars>>

TenMinutesPass(t) ==
    /\ "aging" \in Events
    /\ task[t].status # "absent" /\ t \notin aged
    /\ \A u \in Tasks : u < t => u \in aged
    /\ aged' = aged \cup {t}
    /\ UNCHANGED <<task, res, outbox, healthy, ruleActive, paused, execVars>>

\* An account fails, cools down, loses its session, or comes back.
AccountHealthChanges(a) ==
    /\ "health" \in Events
    /\ healthy' = [healthy EXCEPT ![a] = ~@]
    /\ UNCHANGED <<task, res, outbox, ruleActive, aged, paused, execVars>>

PriceRuleChanges ==
    /\ "rule" \in Events
    /\ ruleActive' = ~ruleActive
    /\ UNCHANGED <<task, res, outbox, healthy, aged, paused, execVars>>

PauseChanges ==
    /\ "pause" \in Events
    /\ paused' = ~paused
    /\ UNCHANGED <<task, res, outbox, healthy, ruleActive, aged, execVars>>

UpstreamFinishes(t) ==
    /\ up[t].state = "running"
    /\ \E s \in {"complete", "failed"} : up' = [up EXCEPT ![t].state = s]
    /\ UNCHANGED <<tableVars, msg, recov, worker>>

-----------------------------------------------------------------------------

WorkerStep(w) ==
    \/ ClaimTask(w)
    \/ FailEarly(w) \/ StartUpload(w) \/ SubmissionFence(w) \/ PrepareSubmission(w)
    \/ SubmitGeneration(w)
    \/ RecordTaskSubmissionOwned(w) \/ SubmissionRejected(w) \/ SubmissionUnknown(w)
    \/ Resume(w) \/ PollTick(w) \/ PollStatus(w) \/ PollPending(w) \/ PollComplete(w)
    \/ PollFailed(w) \/ PollDeadline(w) \/ PollInterrupted(w)

TaskStep(t) ==
    \/ \E a \in Accounts : CreateReservedTask(t, a)
    \/ CancelQueuedTaskAndRelease(t)
    \/ Dispatch(t) \/ DispatchFails(t) \/ ArchiveOrphan(t)
    \/ ConfirmSubmissionNotCreated(t) \/ adminReleaseTaskReservation(t)
    \/ LeaseExpires(t) \/ DeadlinePasses(t) \/ ReservationExpires(t)
    \/ OutboxDelayElapses(t) \/ TenMinutesPass(t) \/ UpstreamFinishes(t)

Next ==
    \/ \E t \in Tasks : TaskStep(t)
    \/ \E w \in Workers : WorkerStep(w) \/ HandlerError(w) \/ Crash(w) \/ QueueLeaseLost(w)
    \/ \E w \in Workers, t \in Tasks : TakeMessage(w, t)
    \/ RecoverStaleTasks
    \/ \E a \in Accounts : AccountHealthChanges(a)
    \/ PriceRuleChanges
    \/ PauseChanges

Spec == Init /\ [][Next]_vars

\* The scheduler's tickers, asynq and the workers keep running, the clock moves
\* on, and the provider finishes what it started; a fault does not strike every
\* dispatch or every delivery of a message.  No fault and no action of a client
\* or an administrator is assumed to happen.
Fairness ==
    /\ WF_vars(RecoverStaleTasks)
    /\ \A t \in Tasks :
         /\ SF_vars(Dispatch(t))
         /\ WF_vars(ArchiveOrphan(t))
         /\ WF_vars(Orphaned(t) /\ LeaseExpires(t))
         /\ WF_vars(DeadlinePasses(t))
         /\ WF_vars(OutboxDelayElapses(t))
         /\ WF_vars(UpstreamFinishes(t))
         /\ SF_vars(\E w \in Workers : TakeMessage(w, t))
         /\ SF_vars(\E w \in Workers : worker[w].task = t /\ ClaimTask(w))
    /\ \A w \in Workers : WF_vars(WorkerStep(w))

FairSpec == Spec /\ Fairness

-----------------------------------------------------------------------------
(* Safety. *)

\* The gateway never calls the provider twice for one task, whatever crashes,
\* stalls, lease losses and redeliveries happen between the worker's statements
\* ("Worker crash recovery without resubmitting requests", README.md:15).
AtMostOneSubmission == \A t \in Tasks : up[t].calls <= 1

Unsubmitted == {"absent", "queued", "reserving", "uploading"}

\* Why AtMostOneSubmission holds, as an inductive invariant: whoever may still
\* call the provider holds the task's only current lease, the record that the
\* call is coming is committed before the call, and no recorded task goes back
\* to the queue.
LeasesFresh ==
    /\ \A t \in Tasks :
         /\ task[t].lease <= task[t].attempt
         /\ task[t].status \in {"absent", "queued"} \cup Terminal => task[t].lease = 0
    /\ \A w \in Workers :
         IF worker[w].pc \in {"idle", "claim"}
           THEN worker[w].lease = 0
           ELSE worker[w].lease \in 1..task[worker[w].task].attempt
    /\ \A v, w \in Workers :
         v # w /\ worker[v].task = worker[w].task /\ worker[v].lease # 0 =>
           worker[v].lease # worker[w].lease

WorkersHaveTasks ==
    \A w \in Workers :
        /\ IF worker[w].pc = "idle" THEN worker[w] = IdleWorker ELSE worker[w].task \in Tasks
        /\ worker[w].pc \in KnowsGeneration => worker[w].gen # 0

RecordedBeforeCall ==
    /\ \A t \in Tasks :
         /\ task[t].status \in Unsubmitted => up[t].calls = 0 /\ task[t].gen = 0
         /\ task[t].status = "polling" => task[t].gen # 0
    /\ \A w \in Workers :
         /\ worker[w].pc \in BeforeRecord
              /\ worker[w].lease = task[worker[w].task].lease =>
              task[worker[w].task].status \in {"reserving", "uploading"}
         /\ worker[w].pc \in KnowsGeneration \cup {"prepared"} =>
              task[worker[w].task].status \notin Unsubmitted
         /\ worker[w].pc = "prepared" => up[worker[w].task].calls = 0
    /\ \A v, w \in Workers :
         worker[v].pc = "prepared" /\ worker[w].pc = "prepared" /\ v # w =>
           worker[v].task # worker[w].task

SubmissionInv ==
    /\ TypeOK /\ WorkersHaveTasks /\ LeasesFresh /\ RecordedBeforeCall
    /\ AtMostOneSubmission

\* Credits go with what the provider really did: a reservation is charged only
\* for a completed generation, and given back without a human decision only
\* when the provider created nothing or reported the generation failed.
CreditsFollowGeneration ==
    \A t \in Tasks :
        /\ res[t].state = "consumed" => up[t].state = "complete"
        /\ res[t].state = "released" /\ res[t].reason \in {"unsubmitted", "rejected"} =>
             up[t].state = "none"
        /\ res[t].state = "released" /\ res[t].reason = "upstream_failed" =>
             up[t].state = "failed"

\* A task and its reservation are settled together, on the same account: credits
\* stay held as long as the task may still be executed or charged, and none stay
\* held for a task that ended (an uncertain one waits for the administrator).
SettledWithTask ==
    \A t \in Tasks :
        /\ task[t].status \in Executing \cup {"queued"} =>
             res[t].state = "held" /\ res[t].account = task[t].account
        /\ task[t].status \in {"failed", "cancelled"} => res[t].state = "released"
        /\ task[t].status = "succeeded" => res[t].state = "consumed"
        /\ task[t].status = "submission_uncertain" =>
             res[t].state = "held" \/ res[t].reason = "manual"

\* No unfinished task is forgotten: a task without a lease is one the dispatcher
\* will find (its outbox row is undelivered), a task with a lease is in a status
\* from which RecoverStaleTasks takes it back once the lease ends.
NoLostTask ==
    \A t \in Tasks : task[t].status \in Executing \cup {"queued"} =>
        IF task[t].lease = 0
          THEN /\ outbox[t] \in {"due", "delayed"}
               /\ task[t].status = "queued" \/ task[t].gen # 0
          ELSE task[t].status # "queued"

\* Who may still call the provider for a task: the record of the call is
\* committed and nobody has settled the task but an administrator.
Callable(t) ==
    \/ task[t].status \in {"submitted", "submission_uncertain"}
    \/ task[t].status = "failed" /\ res[t].reason \in {"not_created", "manual"}

\* Why the three hold, as an inductive invariant on top of SubmissionInv: what a
\* row says of the provider is true, and so is what a worker knows of it and of
\* the account its lease is for.
RowSettled(t) ==
    /\ task[t].live => task[t].lease # 0
    /\ task[t].status = "absent" => res[t].state = "none"
    /\ task[t].status = "submission_uncertain" /\ res[t].state # "held" => res[t].state = "released"
    /\ task[t].gen # 0 => up[t].state # "none"
    /\ up[t].calls = 0 => up[t].state = "none"

WorkerInformed(w) ==
    LET t == worker[w].task IN
    /\ worker[w].pc \in KnowsGeneration => up[t].state # "none"
    /\ worker[w].pc = "sawComplete" => up[t].state = "complete"
    /\ worker[w].pc = "sawFailed" => up[t].state = "failed"
    /\ worker[w].pc \in {"accepted", "rejected", "unknown"} => up[t].calls # 0
    /\ worker[w].pc = "rejected" => up[t].state = "none"
    /\ worker[w].pc = "prepared" => Callable(t)
    /\ worker[w].lease # 0 /\ worker[w].lease = task[t].lease =>
         worker[w].account = task[t].account

SettlementInv ==
    /\ SubmissionInv
    /\ CreditsFollowGeneration /\ SettledWithTask /\ NoLostTask
    /\ \A t \in Tasks : RowSettled(t)
    /\ \A w \in Workers : WorkerInformed(w)

\* An idle account with work waiting can start some of it: the order among its
\* queued tasks and the slots kept for video never make all of them wait for
\* each other.  The README promises that queued video reclaims its slots "with
\* aging protection for old ordinary tasks".
IdleAccountServesQueue ==
    \A a \in Accounts :
        LET waiting == {t \in Tasks : /\ task[t].status = "queued" /\ task[t].account = a
                                      /\ KeyHasSlot(KeyOf[t])}
        IN waiting # {} /\ ActiveOn(a) = {} =>
             \E t \in waiting : AccountHasSlot(t, a, ActiveOn(a))

\* It needs that tasks age in the order of their admission, and that a
\* video_reserved account does not keep all of its slots.
AgedInOrder == \A t \in aged, u \in Tasks : u < t => u \in aged

OrdinarySlots == \A a \in VideoReserved : VideoReservedSlots[a] < Concurrency[a]

-----------------------------------------------------------------------------
(* What a step may never do. *)

\* What the owned updates, the claim and the recovery pass write of a task.
Written(t) == <<task[t].status, task[t].lease, task[t].gen, task[t].account,
                res[t].state, res[t].account, res[t].reason>>

\* While a lease is live only the goroutine that holds it writes the task or its
\* reservation, and it goes on to its next statement as it does: a worker that lost
\* its lease, with an upload, a record, a status or a result in hand, a second
\* delivery of the message, the recovery pass, the administrator and the client's
\* cancellation leave both alone.  The one exception is the recovery pass after the
\* upstream deadline, which ends the task as uncertain whoever holds it.
OnlyLeaseHolderWrites ==
    [][\A t \in Tasks :
         task[t].live /\ Written(t)' # Written(t) =>
           \/ /\ task[t].upstreamLate /\ task[t].gen # 0
              /\ task'[t].status = "submission_uncertain" /\ res'[t] = res[t]
           \/ \E w \in Workers : /\ worker[w].task = t /\ worker[w].lease = task[t].lease
                                  /\ worker'[w] # worker[w]]_vars

-----------------------------------------------------------------------------
(* The promise of PaidTask. *)

\* A task ended by the administrator's word is kept apart from one that failed.
LifeOf(t) ==
    [state |-> CASE task[t].status \in Executing \cup {"queued"} -> "open"
                 [] task[t].status = "submission_uncertain" -> "uncertain"
                 [] task[t].status = "failed" /\ res[t].reason \in {"not_created", "manual"} -> "writtenOff"
                 [] OTHER -> task[t].status,
     credits |-> res[t].state,
     bought |-> up[t].state]

Paid == INSTANCE PaidTask WITH life <- [t \in Tasks |-> LifeOf(t)]

\* The gateway implements PaidTask: through every crash, redelivery, lease loss
\* and recovery, each step leaves a task's status, its credits and what was
\* bought for it as they were, or moves them together as the promise allows.
ImplementsPaidTask == Paid!PaidSpec

-----------------------------------------------------------------------------
(* What must eventually happen. *)

\* Every admitted task reaches a terminal state.
EventuallySettled ==
    \A t \in Tasks : (task[t].status # "absent") ~> (task[t].status \in Terminal)

=============================================================================
