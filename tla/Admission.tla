------------------------------ MODULE Admission ------------------------------
(***************************************************************************)
(* The two transactions that decide who may run, statement by statement:   *)
(* admission (createReservedTaskForProviderOnce, routing.go) and the claim *)
(* of a queued task with its rerouting (claimTaskOnce, execution.go), with *)
(* the settlement of executing tasks and the administrator's capacity      *)
(* settings around them.                                                   *)
(*                                                                         *)
(* Both run at READ COMMITTED.  A statement sees what was committed when   *)
(* it started; SELECT ... FOR UPDATE computes its result first and then    *)
(* waits for the row lock, so counts that it selects with the row may be   *)
(* older than the lock.  A transaction writes at its end, so its writes    *)
(* appear with its commit, when its locks are released.                    *)
(***************************************************************************)
EXTENDS TaskTables, Integers, FiniteSetsExt

CONSTANTS
    Idem,                    \* the idempotency key of each request
    Cost,                    \* tasks.estimated_tokens
    InitialBalance,          \* the credits of each account
    Protected,               \* accounts.protected_tokens
    MaxQueued,               \* system_capacity_config.max_queued
    QueueHighWatermark,
    QueueResumeWatermark,
    UncertainAccountLimit,   \* SchedulingPolicy
    UncertainProviderLimit,  \* SchedulingPolicy
    HealthChanges,           \* whether accounts fail and recover
    BalanceChanges,          \* whether balances are read anew from the provider
    ConfigChanges            \* whether the administrator changes the settings

IdemKeys == {Idem[t] : t \in Tasks}

ASSUME AdmissionAssumptions ==
    /\ IsFiniteSet(Tasks)
    /\ \A t \in Tasks : Cost[t] \in Nat
    /\ InitialBalance \in [Accounts -> Nat]
    /\ \A a \in Accounts : Protected[a] \in Nat
    /\ QueueHighWatermark \in 1..MaxQueued
    /\ QueueResumeWatermark \in 0..(QueueHighWatermark - 1)
    /\ HealthChanges \in BOOLEAN /\ BalanceChanges \in BOOLEAN
    /\ ConfigChanges \in BOOLEAN

\* Rows of three tables and two kinds of advisory locks: no lock is two of them.
ASSUME LocksApart ==
    /\ Accounts \cap Keys = {} /\ Accounts \cap IdemKeys = {} /\ Keys \cap IdemKeys = {}
    /\ {"system", "reroute"} \cap (Accounts \cup Keys \cup IdemKeys) = {}

VARIABLES
    balance,      \* accounts.subscription_tokens + rollover_tokens + paid_tokens
    overload,     \* system_capacity_config.overload_active
    maintenance,  \* system_capacity_config.maintenance_mode
    lock,         \* who holds each row lock and advisory lock (0: nobody)
    tx,           \* the transaction in progress for each task
    answer        \* what admission last answered to each request

ctlVars == <<lock, tx, answer>>
sysVars == <<healthy, ruleActive, aged, paused, balance, overload, maintenance>>
vars == <<task, res, outbox, sysVars, ctlVars>>

-----------------------------------------------------------------------------

Lockable == Accounts \cup Keys \cup IdemKeys \cup {"system", "reroute"}

Pc == {"idle", "select", "candidate", "key", "system", "insert",
       "claim_account", "reroute", "reroute_old", "reroute_select", "reroute_target",
       "claim_key", "claim_system", "claim_update"}

\* account is the account chosen so far, active the executing tasks that the
\* claim's account statement counted, found the accounts the candidate statement or
\* a rerouting selected, excluded the accounts an admission has given up.
Tx == [pc : Pc, account : Accounts \cup {NoAccount}, active : SUBSET Tasks,
       found : SUBSET Accounts, excluded : SUBSET Accounts]

NoTx == [pc |-> "idle", account |-> NoAccount, active |-> {}, found |-> {},
         excluded |-> {}]

Answer == {"", "admitted", "existing", "refused", "overloaded", "error"}

TypeOK ==
    /\ TablesTypeOK
    /\ balance \in [Accounts -> Nat]
    /\ overload \in BOOLEAN /\ maintenance \in BOOLEAN
    /\ lock \in [Lockable -> Tasks \cup {0}]
    /\ tx \in [Tasks -> Tx]
    /\ answer \in [Tasks -> Answer]

Init ==
    /\ TablesInit
    /\ balance = InitialBalance
    /\ overload = FALSE /\ maintenance = FALSE
    /\ lock = [x \in Lockable |-> 0]
    /\ tx = [t \in Tasks |-> NoTx]
    /\ answer = [t \in Tasks |-> ""]

Acquire(t, x) == lock[x] = 0 /\ lock' = [lock EXCEPT ![x] = t]

\* Commit or rollback: the locks go with the transaction.
End(t) ==
    /\ lock' = [x \in Lockable |-> IF lock[x] = t THEN 0 ELSE lock[x]]
    /\ tx' = [tx EXCEPT ![t] = NoTx]

At(t, pc) == tx[t].pc = pc
GoTo(t, pc) == tx' = [tx EXCEPT ![t].pc = pc]

-----------------------------------------------------------------------------
(* Credits and eligibility. *)

HeldCost(a) == MapThenSumSet(LAMBDA t : Cost[t], HeldBy(a))

Uncertain == {t \in Tasks : task[t].status = "submission_uncertain" /\ res[t].state = "held"}

\* Ordinary work may not spend the protected credits, as long as they are there.
Spendable(t, a) ==
    LET available == balance[a] - HeldCost(a)
    IN IF t \notin VideoTasks /\ available >= Protected[a] THEN available - Protected[a]
                                                           ELSE available

\* The reservation count and the credits leave room for the task.
Fits(t, a) ==
    /\ Cardinality(HeldBy(a)) < AccountCapacity(t, a)
    /\ Spendable(t, a) >= Cost[t]

Routeable(a) == healthy[a] /\ balance[a] >= HeldCost(a)

Eligible(t, a) ==
    /\ healthy[a]
    /\ Cardinality({u \in Uncertain : task[u].account = a}) < UncertainAccountLimit
    /\ Fits(t, a)

Queued == {t \in Tasks : task[t].status = "queued"}

-----------------------------------------------------------------------------
(* Admission: createReservedTaskForProviderOnce. *)

Answered(t, how) == End(t) /\ answer' = [answer EXCEPT ![t] = how]

Existing(t) ==
    {u \in Tasks : task[u].status # "absent" /\ KeyOf[u] = KeyOf[t] /\ Idem[u] = Idem[t]}

\* created_at is the start of the admission: tasks are numbered in its order.
Follows(t) == \A u \in Tasks : u > t => task[u].status = "absent" /\ At(u, "idle")

Mutant_BeginUnlocked(t) ==
    /\ At(t, "idle") /\ task[t].status = "absent" /\ Follows(t)
    /\ Existing(t) = {}
    /\ GoTo(t, "select")
    /\ UNCHANGED <<task, res, outbox, sysVars, lock, answer>>

\* The advisory lock on the idempotency key, and the checks under it.
BeginAdmission(t) ==
    /\ At(t, "idle") /\ task[t].status = "absent" /\ Follows(t)
    /\ lock[Idem[t]] = 0
    /\ IF \/ Existing(t) # {}
          \/ Cardinality(Uncertain) >= UncertainProviderLimit
          \/ ~ruleActive
         THEN Answered(t, IF Existing(t) # {} THEN "existing" ELSE "refused")
         ELSE Acquire(t, Idem[t]) /\ GoTo(t, "select") /\ UNCHANGED answer
    /\ UNCHANGED <<task, res, outbox, sysVars>>

\* The candidate statement's snapshot.  Its ORDER BY prefers some accounts; any
\* eligible one may be its first choice here.
Candidates(t) == {a \in Accounts \ tx[t].excluded : Eligible(t, a)}

SelectCandidate(t) ==
    /\ At(t, "select")
    /\ IF Candidates(t) = {}
         THEN Answered(t, "refused")
         ELSE /\ \E a \in Candidates(t) :
                   tx' = [tx EXCEPT ![t].pc = "candidate", ![t].account = a,
                                    ![t].found = Candidates(t)]
              /\ UNCHANGED <<lock, answer>>
    /\ UNCHANGED <<task, res, outbox, sysVars>>

Mutant_NoRecheck(t) ==
    /\ At(t, "candidate")
    /\ Acquire(t, tx[t].account) /\ GoTo(t, "key") /\ UNCHANGED answer
    /\ UNCHANGED <<task, res, outbox, sysVars>>

\* The candidate's row lock, then fresh counts.
LockCandidate(t) ==
    LET a == tx[t].account IN
    /\ At(t, "candidate")
    /\ healthy[a] /\ Fits(t, a)
    /\ Acquire(t, a) /\ GoTo(t, "key")
    /\ UNCHANGED <<task, res, outbox, sysVars, answer>>

\* A row that changed while the statement waited and matches no more is passed
\* over: it stays locked, and the statement goes on to the next row of its snapshot.
PassCandidate(t) ==
    LET a == tx[t].account
        rest == tx[t].found \ {a}
    IN
    /\ At(t, "candidate")
    /\ lock[a] = 0
    /\ ~(healthy[a] /\ Fits(t, a))
    /\ IF rest = {}
         THEN Answered(t, "refused")
         ELSE /\ Acquire(t, a)
              /\ \E b \in rest : tx' = [tx EXCEPT ![t].account = b, ![t].found = rest]
              /\ UNCHANGED answer
    /\ UNCHANGED <<task, res, outbox, sysVars>>

\* A row that matches by the old counts, of an account that filled up meanwhile: it
\* is excluded, and going back to the savepoint releases what was locked since.
ExcludeCandidate(t) ==
    LET a == tx[t].account IN
    /\ At(t, "candidate")
    /\ lock[a] = 0
    /\ healthy[a] /\ ~Fits(t, a)
    /\ lock' = [x \in Lockable |-> IF x \in Accounts /\ lock[x] = t THEN 0 ELSE lock[x]]
    /\ tx' = [tx EXCEPT ![t].pc = "select", ![t].account = NoAccount, ![t].found = {},
                        ![t].excluded = @ \cup {a}]
    /\ UNCHANGED <<task, res, outbox, sysVars, answer>>

Mutant_KeyCountUnlocked(t) ==
    /\ At(t, "key") /\ KeyAdmits(KeyOf[t])
    /\ GoTo(t, "system")
    /\ UNCHANGED <<task, res, outbox, sysVars, lock, answer>>

LockKey(t) ==
    /\ At(t, "key")
    /\ lock[KeyOf[t]] = 0
    /\ IF KeyAdmits(KeyOf[t])
         THEN Acquire(t, KeyOf[t]) /\ GoTo(t, "system") /\ UNCHANGED answer
         ELSE Answered(t, "refused")
    /\ UNCHANGED <<task, res, outbox, sysVars>>

Mutant_SystemCountUnlocked(t) ==
    /\ At(t, "system") /\ ~maintenance /\ Cardinality(Queued) < QueueHighWatermark
    /\ GoTo(t, "insert")
    /\ UNCHANGED <<task, res, outbox, sysVars, lock, answer>>

\* The writes of overload_active=true on the refusing paths are rolled back with
\* the transaction that the error ends.
lockSystemAdmission(t) ==
    LET queued == Cardinality(Queued) IN
    /\ At(t, "system")
    /\ lock["system"] = 0
    /\ \/ /\ maintenance
          /\ Answered(t, "refused")
       \/ /\ ~maintenance
          /\ \/ overload /\ queued > QueueResumeWatermark
             \/ queued >= QueueHighWatermark
          /\ Answered(t, "overloaded")
       \/ /\ ~maintenance /\ queued < QueueHighWatermark
          /\ overload => queued <= QueueResumeWatermark
          /\ Acquire(t, "system") /\ GoTo(t, "insert") /\ UNCHANGED answer
    /\ UNCHANGED <<task, res, outbox, sysVars>>

\* The inserts and the commit; UNIQUE(api_key_id, idempotency_key) refuses a
\* second task.
InsertTask(t) ==
    /\ At(t, "insert")
    /\ IF Existing(t) # {}
         THEN Answered(t, "error") /\ UNCHANGED <<task, res, outbox, overload>>
         ELSE /\ task' = [task EXCEPT ![t].status = "queued", ![t].account = tx[t].account]
              /\ res' = [res EXCEPT ![t].state = "held", ![t].account = tx[t].account]
              /\ outbox' = [outbox EXCEPT ![t] = "due"]
              /\ overload' = FALSE
              /\ Answered(t, "admitted")
    /\ UNCHANGED <<healthy, ruleActive, aged, paused, balance, maintenance>>

-----------------------------------------------------------------------------
(* The claim of a queued task: claimTaskOnce. *)

MoveTo(t, a, status) ==
    /\ task' = [task EXCEPT ![t].status = status, ![t].account = a]
    /\ res' = [res EXCEPT ![t].account = a]

Defer(t, a) ==
    /\ MoveTo(t, a, "queued")
    /\ outbox' = [outbox EXCEPT ![t] = "delayed"]
    /\ End(t)

Mutant_KeyLockedFirst(t) ==
    /\ At(t, "idle") /\ task[t].status = "queued"
    /\ Acquire(t, KeyOf[t])
    /\ tx' = [tx EXCEPT ![t].pc = "claim_account", ![t].account = task[t].account,
                        ![t].active = ActiveOn(task[t].account)]
    /\ UNCHANGED <<task, res, outbox, sysVars, answer>>

\* The task row is locked.  A routeable account is read again FOR UPDATE, which
\* counts its executing tasks before it waits for the lock.
BeginClaim(t) ==
    LET a == task[t].account IN
    /\ At(t, "idle") /\ task[t].status = "queued"
    /\ tx' = IF Routeable(a)
               THEN [tx EXCEPT ![t].pc = "claim_account", ![t].account = a,
                               ![t].active = ActiveOn(a)]
               ELSE [tx EXCEPT ![t].pc = "reroute", ![t].account = a]
    /\ UNCHANGED <<task, res, outbox, sysVars, lock, answer>>

\* The account's lock, and the order among its queued tasks as it is then.
LockClaimAccount(t) ==
    LET a == tx[t].account IN
    /\ At(t, "claim_account")
    /\ lock[a] = 0
    /\ IF Routeable(a) /\ AccountHasSlot(t, a, tx[t].active)
         THEN Acquire(t, a) /\ GoTo(t, "claim_key") /\ UNCHANGED <<task, res, outbox>>
         ELSE Defer(t, a)
    /\ UNCHANGED <<sysVars, answer>>

\* rerouteQueuedTaskTx: one rerouting at a time per provider, the old account
\* locked, then a statement that selects targets and takes one that is unlocked.
RerouteTarget(t, a) ==
    /\ a # task[t].account /\ Eligible(t, a)
    /\ Cardinality(ActiveOn(a)) < Concurrency[a]

Reroute(t) ==
    /\ \/ At(t, "reroute") /\ Acquire(t, "reroute") /\ GoTo(t, "reroute_old")
       \/ At(t, "reroute_old") /\ Acquire(t, task[t].account) /\ GoTo(t, "reroute_select")
       \/ /\ At(t, "reroute_select")
          /\ tx' = [tx EXCEPT ![t].pc = "reroute_target",
                              ![t].found = {a \in Accounts : RerouteTarget(t, a)}]
          /\ UNCHANGED lock
    /\ UNCHANGED <<task, res, outbox, sysVars, answer>>

\* FOR UPDATE SKIP LOCKED.  The target keeps the task from here on, whether it
\* can start it or not; its executing tasks are counted anew.
LockRerouteTarget(t) ==
    LET targets == {a \in tx[t].found : lock[a] = 0 /\ healthy[a]} IN
    /\ At(t, "reroute_target")
    /\ \/ targets = {} /\ Defer(t, task[t].account)
       \/ \E a \in targets :
            IF balance[a] >= HeldCost(a) + Cost[t] /\ AccountHasSlot(t, a, ActiveOn(a))
              THEN /\ Acquire(t, a)
                   /\ tx' = [tx EXCEPT ![t].pc = "claim_key", ![t].account = a]
                   /\ UNCHANGED <<task, res, outbox>>
              ELSE Defer(t, a)
    /\ UNCHANGED <<sysVars, answer>>

LockClaimKey(t) ==
    /\ At(t, "claim_key")
    /\ lock[KeyOf[t]] = 0
    /\ IF KeyHasSlot(KeyOf[t])
         THEN Acquire(t, KeyOf[t]) /\ GoTo(t, "claim_system") /\ UNCHANGED <<task, res, outbox>>
         ELSE Defer(t, tx[t].account)
    /\ UNCHANGED <<sysVars, answer>>

LockClaimSystem(t) ==
    /\ At(t, "claim_system")
    /\ lock["system"] = 0
    /\ IF lockSystemExecution
         THEN Acquire(t, "system") /\ GoTo(t, "claim_update") /\ UNCHANGED <<task, res, outbox>>
         ELSE Defer(t, tx[t].account)
    /\ UNCHANGED <<sysVars, answer>>

\* The lease is taken and the transaction commits; queued tasks of the account
\* and of the key are woken.
TakeLease(t) ==
    /\ At(t, "claim_update")
    /\ MoveTo(t, tx[t].account, "reserving")
    /\ Wake(t, tx[t].account, task', [outbox EXCEPT ![t] = "delivered"])
    /\ End(t)
    /\ UNCHANGED <<sysVars, answer>>

-----------------------------------------------------------------------------
(* Around them. *)

Mutant_ChargeUncapped(left, cost) == left - cost

\* GREATEST(0, ...) over the account's three balances together.
ChargeCredits(left, cost) == IF left > cost THEN left - cost ELSE 0

\* CompleteTaskOwned charges the account, FailTaskOwned gives the credits back,
\* an uncertain submission keeps them.
TaskEnds(t) ==
    LET a == task[t].account IN
    /\ task[t].status \in Executing
    /\ \/ /\ lock[a] = 0
          /\ task' = [task EXCEPT ![t].status = "succeeded"]
          /\ res' = [res EXCEPT ![t].state = "consumed"]
          /\ balance' = [balance EXCEPT ![a] = ChargeCredits(@, Cost[t])]
       \/ /\ task' = [task EXCEPT ![t].status = "failed"]
          /\ res' = Release(t, "unsubmitted")
          /\ UNCHANGED balance
       \/ /\ task' = [task EXCEPT ![t].status = "submission_uncertain"]
          /\ UNCHANGED <<res, balance>>
    /\ Wake(t, a, task', [outbox EXCEPT ![t] = "delivered"])
    /\ UNCHANGED <<healthy, ruleActive, aged, paused, overload, maintenance, ctlVars>>

\* YieldTaskLease and the recovery of an expired lease: back to the queue.
TaskYields(t) ==
    /\ task[t].status \in Executing
    /\ task' = [task EXCEPT ![t].status = "queued"]
    /\ Wake(t, task[t].account, task', [outbox EXCEPT ![t] = "delayed"])
    /\ UNCHANGED <<res, sysVars, ctlVars>>

\* A balance snapshot of the provider replaces the local one.
BalanceSynced(a) ==
    /\ BalanceChanges
    /\ lock[a] = 0
    /\ \E b \in 0..InitialBalance[a] : balance' = [balance EXCEPT ![a] = b]
    /\ UNCHANGED <<task, res, outbox, healthy, ruleActive, aged, paused, overload,
                   maintenance, ctlVars>>

AccountHealthChanges(a) ==
    /\ HealthChanges
    /\ lock[a] = 0
    /\ healthy' = [healthy EXCEPT ![a] = ~@]
    /\ UNCHANGED <<task, res, outbox, ruleActive, aged, paused, balance, overload,
                   maintenance, ctlVars>>

UpdateSystemCapacity ==
    LET queued == Cardinality(Queued) IN
    /\ ConfigChanges
    /\ lock["system"] = 0
    /\ \E m, p \in BOOLEAN : (p => m) /\ maintenance' = m /\ paused' = p
    /\ overload' = IF queued <= QueueResumeWatermark THEN FALSE
                   ELSE IF queued >= QueueHighWatermark THEN TRUE ELSE overload
    /\ UNCHANGED <<task, res, outbox, healthy, ruleActive, aged, balance, ctlVars>>

-----------------------------------------------------------------------------

(* Waiting. *)

\* The lock that the transaction of t takes in its next statement, waiting if it
\* has to.
Awaited(t) ==
    CASE tx[t].pc \in {"candidate", "claim_account"} -> {tx[t].account}
      [] At(t, "reroute_old") -> {task[t].account}
      [] At(t, "reroute") -> {"reroute"}
      [] tx[t].pc \in {"key", "claim_key"} -> {KeyOf[t]}
      [] tx[t].pc \in {"system", "claim_system"} -> {"system"}
      [] OTHER -> {}

\* Every transaction of C waits for a lock that another of C holds.
Circle(C) == C # {} /\ \A t \in C : \E x \in Awaited(t) : lock[x] \in C

\* PostgreSQL ends a transaction of a circle with an error on which the admission
\* begins again, a few times.
AdmissionDeadlocked(t) ==
    /\ \E C \in SUBSET {u \in Tasks : At(u, "candidate")} : t \in C /\ Circle(C)
    /\ End(t)
    /\ UNCHANGED <<task, res, outbox, sysVars, answer>>

-----------------------------------------------------------------------------

Admit(t) ==
    \/ SelectCandidate(t) \/ LockCandidate(t) \/ PassCandidate(t) \/ ExcludeCandidate(t)
    \/ LockKey(t) \/ lockSystemAdmission(t) \/ InsertTask(t) \/ AdmissionDeadlocked(t)

Claim(t) ==
    \/ LockClaimAccount(t) \/ Reroute(t) \/ LockRerouteTarget(t)
    \/ LockClaimKey(t) \/ LockClaimSystem(t) \/ TakeLease(t)

Next ==
    \/ \E t \in Tasks : BeginAdmission(t) \/ Admit(t) \/ BeginClaim(t) \/ Claim(t)
    \/ \E t \in Tasks : TaskEnds(t) \/ TaskYields(t)
    \/ \E a \in Accounts : AccountHealthChanges(a) \/ BalanceSynced(a)
    \/ UpdateSystemCapacity

Spec == Init /\ [][Next]_vars

-----------------------------------------------------------------------------
(* Properties. *)

\* However admissions, reroutings, settlements and balance updates interleave,
\* an admission commits only where its account has room and credits for it at
\* that moment (the recheck under the account lock, routing.go:223-257).
AdmissionFits ==
    [][\A t \in Tasks : answer'[t] = "admitted" /\ answer[t] # "admitted" =>
         \A a \in Accounts : task'[t].account = a =>
            /\ Cardinality(HeldBy(a)') <= AccountCapacity(t, a)
            /\ HeldCost(a)' <= balance'[a]]_vars

\* No API key executes more than its limit, or has more unfinished tasks than
\* its limit and the queue multiplier allow.
KeyWithinLimits ==
    \A k \in Keys :
        /\ KeyLimit[k] > 0 => Cardinality(KeyActive(k)) <= KeyLimit[k]
        /\ Cardinality(KeyNonTerminal(k)) <=
             (IF KeyLimit[k] < 1 THEN 1 ELSE KeyLimit[k]) * (1 + KeyQueueMultiplier)

\* The global execution limit holds, and the unfinished tasks of the system never
\* outnumber it by more than the queue watermark: a task that yields goes back to
\* the queue past the watermark, but it leaves an execution slot behind.
SystemWithinLimits ==
    /\ Cardinality(SystemExecuting) <= MaxExecuting
    /\ Cardinality(SystemExecuting \cup Queued) <= MaxExecuting + QueueHighWatermark

\* Concurrent requests with one idempotency key create one task, and each of the
\* others gets that task, never the error of the unique constraint.
RetriesGetTheirTask ==
    \A t \in Tasks : /\ Cardinality(Existing(t)) <= 1
                     /\ answer[t] = "existing" => Existing(t) # {}
                     /\ answer[t] # "error"

\* "With concurrency 5 and queue capacity 5, at most 5 tasks execute and 5 wait"
\* (README.md:159): an account executes no more tasks than its concurrency.
ExecutingWithinConcurrency ==
    \A a \in Accounts : Cardinality(ActiveOn(a)) <= Concurrency[a]

\* "The system also enforces ... overload high/resume watermarks" (README.md:159):
\* an admission that found the queue at the high watermark leaves the overload on,
\* so that it lasts until the queue is down to the resume watermark.
OverloadLasts ==
    [][\A t \in Tasks : answer'[t] = "overloaded" /\ answer[t] # "overloaded" => overload']_vars

\* Admission, claim and rerouting take accounts, the API key and the system row in
\* the same order ("so task creation cannot deadlock with a worker claim",
\* routing.go:293), and a rerouting that holds one account never waits for another
\* (SKIP LOCKED).  The one circle left is one of admissions alone, each with a
\* candidate that it passed over and that another of them waits for next.
DeadlockFree ==
    \A S \in SUBSET Tasks : Circle(S) => \E C \in SUBSET {t \in S : At(t, "candidate")} : Circle(C)

-----------------------------------------------------------------------------
(* Why they hold, as an inductive invariant. *)

AdmitPcs == {"select", "candidate", "key", "system", "insert"}
ClaimPcs == {"claim_account", "reroute", "reroute_old", "reroute_select", "reroute_target",
             "claim_key", "claim_system", "claim_update"}

\* What a transaction has checked stays true until it commits, because it holds
\* the lock under which it checked and whoever could spoil it needs that lock.
Checked(t) ==
    /\ tx[t].pc \in AdmitPcs =>
         task[t].status = "absent" /\ lock[Idem[t]] = t /\ Existing(t) = {}
    /\ tx[t].pc \in ClaimPcs => task[t].status = "queued"
    /\ tx[t].pc \in {"system", "insert"} => lock[KeyOf[t]] = t /\ KeyAdmits(KeyOf[t])
    /\ tx[t].pc \in {"claim_system", "claim_update"} =>
         lock[KeyOf[t]] = t /\ KeyHasSlot(KeyOf[t])
    /\ tx[t].pc = "insert" =>
         /\ lock["system"] = t
         /\ Cardinality(SystemExecuting \cup Queued) < MaxExecuting + QueueHighWatermark
    /\ tx[t].pc = "claim_update" =>
         lock["system"] = t /\ Cardinality(SystemExecuting) < MaxExecuting

\* Every wait is for the lock of an account that exists.
AccountsKnown(t) ==
    /\ task[t].status # "absent" => task[t].account \in Accounts
    /\ tx[t].pc \in (AdmitPcs \cup ClaimPcs) \ {"select"} => tx[t].account \in Accounts

\* How far the transaction of t must be to hold a lock: the order in which the
\* locks are taken.
LocksInOrder(t) ==
    /\ lock["system"] = t => tx[t].pc \in {"insert", "claim_update"}
    /\ \A k \in Keys : lock[k] = t => tx[t].pc \in {"system", "insert", "claim_system", "claim_update"}
    /\ \A a \in Accounts : lock[a] = t =>
         tx[t].pc \in {"candidate", "key", "system", "insert", "reroute_select",
                       "reroute_target", "claim_key", "claim_system", "claim_update"}
    /\ lock["reroute"] = t =>
         tx[t].pc \in {"reroute_old", "reroute_select", "reroute_target", "claim_key",
                       "claim_system", "claim_update"}

AdmissionInv ==
    /\ TypeOK
    /\ KeyWithinLimits /\ SystemWithinLimits /\ RetriesGetTheirTask
    /\ \A t \in Tasks : Checked(t) /\ AccountsKnown(t) /\ LocksInOrder(t)

\* The account a transaction is about to write to is locked by it, and the room
\* and the credits that an admission found on its account are still there: whoever
\* adds to an account's reservations or charges it needs its lock.
RoomKept(t) ==
    LET a == tx[t].account IN
    /\ tx[t].pc \in {"key", "system", "insert"} =>
         /\ lock[a] = t
         /\ Cardinality(HeldBy(a)) < AccountCapacity(t, a)
         /\ HeldCost(a) + Cost[t] <= balance[a]
    /\ tx[t].pc \in {"claim_key", "claim_system", "claim_update"} => lock[a] = t
    /\ tx[t].pc \in {"reroute_select", "reroute_target"} => lock[task[t].account] = t

RoomInv == AdmissionInv /\ \A t \in Tasks : RoomKept(t)

=============================================================================
