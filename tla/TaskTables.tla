----------------------------- MODULE TaskTables -----------------------------
(***************************************************************************)
(* The PostgreSQL rows that the gateway schedules by: tasks, their credit  *)
(* reservations (account_reservations) and their dispatch rows             *)
(* (task_outbox), with the counts and predicates that the scheduling       *)
(* queries of internal/store compute over them.                            *)
(*                                                                         *)
(* A task is a number; tasks are numbered in the order they are admitted,  *)
(* so  u < t  stands for  (created_at,id)  order.  Wall-clock comparisons  *)
(* (lease expiry, deadlines, next_attempt_at) are flags of the row that an *)
(* environment action raises when the time passes.                         *)
(***************************************************************************)
EXTENDS Naturals, FiniteSets

CONSTANTS
    Tasks,               \* the tasks that may be admitted
    Accounts,            \* the provider's accounts
    Keys,                \* the API keys
    NoAccount,           \* account_id IS NULL
    KeyOf,               \* the API key that admits each task
    VideoTasks,          \* the tasks with kind='video'
    Concurrency,         \* accounts.image_concurrency
    QueueCapacity,       \* accounts.queue_capacity
    VideoReserved,       \* the accounts with routing_role='video_reserved'
    VideoReservedSlots,  \* accounts.video_reserved_slots
    KeyLimit,            \* api_keys.concurrency_limit
    KeyQueueMultiplier,  \* SchedulingPolicy.APIKeyQueueMultiplier
    MaxExecuting         \* system_capacity_config.max_executing

ASSUME TableAssumptions ==
    /\ Tasks \subseteq Nat \ {0}
    /\ NoAccount \notin Accounts
    /\ KeyOf \in [Tasks -> Keys]
    /\ VideoTasks \subseteq Tasks
    /\ Concurrency \in [Accounts -> Nat \ {0}]
    /\ QueueCapacity \in [Accounts -> Nat]
    /\ VideoReserved \subseteq Accounts
    /\ VideoReservedSlots \in [Accounts -> Nat]
    /\ \A a \in Accounts : VideoReservedSlots[a] <= Concurrency[a]
    /\ KeyLimit \in [Keys -> Nat]
    /\ KeyQueueMultiplier \in Nat
    /\ MaxExecuting \in Nat \ {0}

VARIABLES
    task,        \* the tasks rows
    res,         \* the account_reservations rows
    outbox,      \* the task_outbox rows
    healthy,     \* the accounts the routing predicates accept
    ruleActive,  \* the price rule is enabled and not drifted
    aged,        \* the tasks admitted at least ten minutes ago
    paused       \* system_capacity_config.execution_paused

tableVars == <<task, res, outbox, healthy, ruleActive, aged, paused>>

-----------------------------------------------------------------------------

Executing == {"reserving", "uploading", "submitted", "polling"}
Terminal == {"succeeded", "failed", "cancelled", "submission_uncertain"}
Status == {"absent", "queued"} \cup Executing \cup Terminal

\* gen is generation_id (0 is ''), lease is execution_lease_id (0 is NULL) and
\* live says that execution_lease_expires_at is still in the future.  Lease ids
\* are fresh UUIDs, one per claim: the number of the claim stands for it.
TaskRow == [status : Status, account : Accounts \cup {NoAccount}, gen : Nat,
            lease : Nat, live : BOOLEAN, attempt : Nat,
            queueLate : BOOLEAN, upstreamLate : BOOLEAN]

\* Why a reservation was released, as far as the properties tell it apart.
Reason == {"", "charged", "unsubmitted", "rejected", "upstream_failed",
           "not_created", "manual"}

ResRow == [state : {"none", "held", "consumed", "released"},
           account : Accounts \cup {NoAccount}, reason : Reason,
           late : BOOLEAN]

\* delivered_at IS NULL splits into a row whose next_attempt_at has come and
\* one that still waits for it.
OutboxRow == {"none", "delayed", "due", "delivered"}

TablesTypeOK ==
    /\ task \in [Tasks -> TaskRow]
    /\ res \in [Tasks -> ResRow]
    /\ outbox \in [Tasks -> OutboxRow]
    /\ healthy \in [Accounts -> BOOLEAN]
    /\ ruleActive \in BOOLEAN
    /\ aged \in SUBSET Tasks
    /\ paused \in BOOLEAN

NewTask == [status |-> "absent", account |-> NoAccount, gen |-> 0, lease |-> 0,
            live |-> FALSE, attempt |-> 0, queueLate |-> FALSE,
            upstreamLate |-> FALSE]

NewReservation == [state |-> "none", account |-> NoAccount, reason |-> "",
                   late |-> FALSE]

TablesInit ==
    /\ task = [t \in Tasks |-> NewTask]
    /\ res = [t \in Tasks |-> NewReservation]
    /\ outbox = [t \in Tasks |-> "none"]
    /\ healthy = [a \in Accounts |-> TRUE]
    /\ ruleActive = TRUE
    /\ aged = {}
    /\ paused = FALSE

-----------------------------------------------------------------------------
(* The counts of the scheduling queries. *)

HeldBy(a) == {t \in Tasks : res[t].state = "held" /\ res[t].account = a}

ActiveOn(a) == {t \in HeldBy(a) : task[t].status \in Executing}

\* Capacity left for a kind: a video_reserved account keeps slots for video.
AccountCapacity(t, a) ==
    Concurrency[a] + QueueCapacity[a]
      - (IF t \notin VideoTasks /\ a \in VideoReserved THEN VideoReservedSlots[a] ELSE 0)

KeyActive(k) == {t \in Tasks : KeyOf[t] = k /\ task[t].status \in Executing}

KeyNonTerminal(k) ==
    {t \in Tasks : KeyOf[t] = k /\ task[t].status \in Executing \cup {"queued"}}

KeyHasSlot(k) == KeyLimit[k] = 0 \/ Cardinality(KeyActive(k)) < KeyLimit[k]

\* concurrency_limit below 1 counts as 1 at admission.
KeyAdmits(k) ==
    LET limit == IF KeyLimit[k] < 1 THEN 1 ELSE KeyLimit[k]
    IN Cardinality(KeyNonTerminal(k)) < limit * (1 + KeyQueueMultiplier)

SystemExecuting == {t \in Tasks : task[t].status \in Executing}

lockSystemExecution == ~paused /\ Cardinality(SystemExecuting) < MaxExecuting

Mutant_OldWorkFirst(u, t) ==
    \/ (u \in VideoTasks) = (t \in VideoTasks) /\ u < t
    \/ t \in VideoTasks /\ u \notin VideoTasks /\ u < t
    \/ t \notin VideoTasks /\ u \in VideoTasks /\ t \notin aged

\* Which queued tasks of the account go before t: first in, first out within a
\* kind; video before ordinary work younger than ten minutes; ordinary work
\* older than ten minutes keeps its place before later video.
GoesBefore(u, t) ==
    \/ (u \in VideoTasks) = (t \in VideoTasks) /\ u < t
    \/ t \in VideoTasks /\ u \notin VideoTasks /\ u \in aged /\ u < t
    \/ t \notin VideoTasks /\ u \in VideoTasks /\ t \notin aged

earlierQueued(t, a) ==
    \E u \in Tasks \ {t} :
        /\ task[u].status = "queued" /\ task[u].account = a
        /\ KeyHasSlot(KeyOf[u])
        /\ GoesBefore(u, t)

videoQueued(a) ==
    \E u \in VideoTasks : task[u].status = "queued" /\ task[u].account = a

\* The account side of the claim's capacity decision, over the set of tasks it
\* believes to be executing on the account.
AccountHasSlot(t, a, active) ==
    /\ Cardinality(active) < Concurrency[a]
    /\ ~earlierQueued(t, a)
    /\ t \notin VideoTasks /\ a \in VideoReserved /\ videoQueued(a) =>
         Cardinality(active \ VideoTasks) < Concurrency[a] - VideoReservedSlots[a]

-----------------------------------------------------------------------------
(* The row operations that the store's transactions share. *)

LeaseFree(t) == task[t].lease = 0 \/ ~task[t].live

Mutant_OwnsAnyLiveLease(t, l) == l # 0 /\ task[t].lease # 0 /\ task[t].live

\* execution_lease_id=$2 AND execution_lease_expires_at>now()
Owns(t, l) == l # 0 /\ task[t].lease = l /\ task[t].live

Release(t, why) ==
    [res EXCEPT ![t] = IF @.state = "held" THEN [@ EXCEPT !.state = "released", !.reason = why]
                                           ELSE @]

\* wakeQueuedTasksTx for the transaction of task t: every queued task of the
\* account or of the API key becomes due, except those whose row another
\* transaction has locked (FOR UPDATE SKIP LOCKED).  rows is the tasks table
\* as the transaction leaves it, ob the outbox before the wake-up.
Wake(t, a, rows, ob) ==
    LET sleeping == {u \in Tasks : /\ rows[u].status = "queued"
                                   /\ rows[u].account = a \/ KeyOf[u] = KeyOf[t]}
    IN \E skipped \in SUBSET {u \in sleeping \ {t} : ob[u] # "due"} :
          outbox' = [u \in Tasks |-> IF u \in sleeping \ skipped THEN "due" ELSE ob[u]]

=============================================================================
