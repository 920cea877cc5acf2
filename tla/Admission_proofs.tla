--------------------------- MODULE Admission_proofs ---------------------------
(***************************************************************************)
(* Proofs about the admission and the claim transactions: the limits of    *)
(* API keys and of the system hold, retries of a request get its task, and *)
(* the row locks never form a cycle, for any number of requests, accounts  *)
(* and keys and every interleaving of their statements.                    *)
(*                                                                         *)
(* The argument: a step of one transaction leaves the others' locks alone, *)
(* so that what they have checked stays true, and all but two statements   *)
(* only let tasks finish. The credits an account has reserved are a sum    *)
(* over its tasks; it grows only with the account's lock, so the room that *)
(* an admission found is there when it commits.                            *)
(***************************************************************************)
EXTENDS Admission, FiniteSetTheorems, WellFoundedInduction, TLAPS

-----------------------------------------------------------------------------
(* Types. *)

\* Ending a transaction keeps the types of locks and transactions.
LEMMA EndType ==
    ASSUME TypeOK, NEW t \in Tasks, End(t)
    PROVE  lock' \in [Lockable -> Tasks \cup {0}] /\ tx' \in [Tasks -> Tx]
BY DEF TypeOK, End, NoTx, Tx, Pc

\* So does taking a lock.
LEMMA AcquireType ==
    ASSUME TypeOK, NEW t \in Tasks, NEW x, Acquire(t, x)
    PROVE  lock' \in [Lockable -> Tasks \cup {0}]
BY DEF TypeOK, Acquire

\* And going to another statement.
LEMMA GoToType ==
    ASSUME TypeOK, NEW t \in Tasks, NEW pc \in Pc, GoTo(t, pc)
    PROVE  tx' \in [Tasks -> Tx]
BY DEF TypeOK, GoTo, Tx

\* An answer is recorded.
LEMMA AnsweredType ==
    ASSUME TypeOK, NEW t \in Tasks, NEW how \in Answer, Answered(t, how)
    PROVE  /\ lock' \in [Lockable -> Tasks \cup {0}] /\ tx' \in [Tasks -> Tx]
           /\ answer' \in [Tasks -> Answer]
<1>1. answer' \in [Tasks -> Answer]
  BY DEF TypeOK, Answered
<1> QED BY <1>1, EndType DEF Answered

\* A row gets a new status and account.
LEMMA RowType ==
    ASSUME NEW r \in TaskRow, NEW a \in Accounts \cup {NoAccount}, NEW s \in Status
    PROVE  [r EXCEPT !.status = s, !.account = a] \in TaskRow
BY DEF TaskRow

\* So does one row of the table.
LEMMA TableType ==
    ASSUME task \in [Tasks -> TaskRow], NEW t \in Tasks, NEW a \in Accounts \cup {NoAccount},
           NEW s \in Status, task' = [task EXCEPT ![t].status = s, ![t].account = a]
    PROVE  /\ task' \in [Tasks -> TaskRow]
           /\ task'[t].status = s /\ task'[t].account = a
           /\ \A u \in Tasks \ {t} : task'[u] = task[u]
<1> DEFINE r == [task[t] EXCEPT !.status = s, !.account = a]
<1>1. r \in TaskRow
  BY RowType
<1>2. r.status = s /\ r.account = a
  BY DEF TaskRow
<1>3. task' = [task EXCEPT ![t] = r]
  OBVIOUS
<1> HIDE DEF r
<1> QED BY <1>1, <1>2, <1>3

\* The rows keep their shapes when a task is moved or put off.
LEMMA MoveToType ==
    ASSUME TypeOK, NEW t \in Tasks, NEW a \in Accounts \cup {NoAccount}, NEW s \in Status, MoveTo(t, a, s)
    PROVE  task' \in [Tasks -> TaskRow] /\ res' \in [Tasks -> ResRow]
<1>1. task' \in [Tasks -> TaskRow]
  BY TableType DEF TypeOK, TablesTypeOK, MoveTo
<1>2. res' \in [Tasks -> ResRow]
  BY DEF TypeOK, TablesTypeOK, MoveTo, ResRow
<1> QED BY <1>1, <1>2

\* The types of a task that is put off.
LEMMA DeferType ==
    ASSUME TypeOK, NEW t \in Tasks, NEW a \in Accounts \cup {NoAccount}, Defer(t, a)
    PROVE  /\ task' \in [Tasks -> TaskRow] /\ res' \in [Tasks -> ResRow]
           /\ outbox' \in [Tasks -> OutboxRow]
           /\ lock' \in [Lockable -> Tasks \cup {0}] /\ tx' \in [Tasks -> Tx]
<1>1. task' \in [Tasks -> TaskRow] /\ res' \in [Tasks -> ResRow]
  BY MoveToType DEF Defer, Status
<1>2. outbox' \in [Tasks -> OutboxRow]
  BY DEF TypeOK, TablesTypeOK, Defer, OutboxRow
<1> QED BY <1>1, <1>2, EndType DEF Defer

\* Waking queued tasks makes outbox rows due.
LEMMA WakeType ==
    ASSUME NEW t, NEW a, NEW rows, NEW ob \in [Tasks -> OutboxRow], Wake(t, a, rows, ob)
    PROVE  outbox' \in [Tasks -> OutboxRow]
BY DEF Wake, OutboxRow

\* The types of the tables, by what stays.
LEMMA TypesStay ==
    ASSUME TypeOK, task' \in [Tasks -> TaskRow], res' \in [Tasks -> ResRow],
           outbox' \in [Tasks -> OutboxRow], UNCHANGED sysVars,
           lock' \in [Lockable -> Tasks \cup {0}], tx' \in [Tasks -> Tx],
           answer' \in [Tasks -> Answer]
    PROVE  TypeOK'
BY DEF TypeOK, TablesTypeOK, sysVars

\* An admission passes a candidate over, excludes it or begins again.
LEMMA CandidateType ==
    ASSUME TypeOK, NEW t \in Tasks, AccountsKnown(t),
           PassCandidate(t) \/ ExcludeCandidate(t) \/ AdmissionDeadlocked(t)
    PROVE  TypeOK'
<1>0. /\ task \in [Tasks -> TaskRow] /\ res \in [Tasks -> ResRow] /\ outbox \in [Tasks -> OutboxRow]
      /\ lock \in [Lockable -> Tasks \cup {0}] /\ tx \in [Tasks -> Tx] /\ tx[t] \in Tx
      /\ answer \in [Tasks -> Answer]
  BY DEF TypeOK, TablesTypeOK
<1>1. tx[t].found \subseteq Accounts /\ (At(t, "candidate") => tx[t].account \in Accounts)
  BY <1>0 DEF At, AccountsKnown, AdmitPcs, Tx
<1>2. CASE PassCandidate(t)
  <2>1. CASE Answered(t, "refused")
    BY <1>0, <1>2, <2>1, AnsweredType, TypesStay DEF PassCandidate, Answer
  <2>2. ASSUME NEW b \in tx[t].found, NEW rest \in SUBSET Accounts, Acquire(t, tx[t].account),
               tx' = [tx EXCEPT ![t].account = b, ![t].found = rest], UNCHANGED answer
        PROVE  TypeOK'
    <3>1. tx' \in [Tasks -> Tx]
      BY <1>0, <1>1, <2>2 DEF Tx
    <3> QED BY <1>0, <1>2, <2>2, <3>1, AcquireType, TypesStay DEF PassCandidate
  <2> DEFINE rest == tx[t].found \ {tx[t].account}
  <2>3. rest \in SUBSET Accounts /\ rest \subseteq tx[t].found
    BY <1>1
  <2> QED BY <1>2, <2>1, <2>2, <2>3 DEF PassCandidate
<1>3. CASE ExcludeCandidate(t)
  <2>1. lock' \in [Lockable -> Tasks \cup {0}]
    BY <1>0, <1>3 DEF ExcludeCandidate
  <2>2. tx' \in [Tasks -> Tx]
    BY <1>0, <1>1, <1>3 DEF ExcludeCandidate, Tx, Pc
  <2> QED BY <1>0, <1>3, <2>1, <2>2, TypesStay DEF ExcludeCandidate
<1>4. CASE AdmissionDeadlocked(t)
  BY <1>0, <1>4, EndType, TypesStay DEF AdmissionDeadlocked
<1> QED BY <1>2, <1>3, <1>4

\* The statements of an admission.
LEMMA AdmitType ==
    ASSUME TypeOK, NEW t \in Tasks, AccountsKnown(t), BeginAdmission(t) \/ Admit(t)
    PROVE  TypeOK'
<1>0. /\ task \in [Tasks -> TaskRow] /\ res \in [Tasks -> ResRow] /\ outbox \in [Tasks -> OutboxRow]
      /\ lock \in [Lockable -> Tasks \cup {0}] /\ tx \in [Tasks -> Tx] /\ tx[t] \in Tx
      /\ answer \in [Tasks -> Answer]
  BY DEF TypeOK, TablesTypeOK
<1>1. CASE BeginAdmission(t)
  <2>1. CASE Acquire(t, Idem[t]) /\ GoTo(t, "select") /\ UNCHANGED answer
    BY <1>0, <1>1, <2>1, AcquireType, GoToType, TypesStay DEF BeginAdmission, Pc
  <2>2. CASE \E how \in {"existing", "refused"} : Answered(t, how)
    BY <1>0, <1>1, <2>2, AnsweredType, TypesStay DEF BeginAdmission, Answer
  <2> QED BY <1>1, <2>1, <2>2 DEF BeginAdmission
<1>2. CASE SelectCandidate(t)
  <2>1. CASE Answered(t, "refused")
    BY <1>0, <1>2, <2>1, AnsweredType, TypesStay DEF SelectCandidate, Answer
  <2>2. ASSUME UNCHANGED <<lock, answer>>, NEW a \in Accounts, NEW found \in SUBSET Accounts,
               tx' = [tx EXCEPT ![t].pc = "candidate", ![t].account = a, ![t].found = found]
        PROVE  TypeOK'
    <3>1. tx' \in [Tasks -> Tx]
      BY <1>0, <2>2 DEF Tx, Pc
    <3> QED BY <1>0, <1>2, <2>2, <3>1, TypesStay DEF SelectCandidate
  <2>3. Candidates(t) \in SUBSET Accounts
    BY DEF Candidates
  <2> QED BY <1>2, <2>1, <2>2, <2>3 DEF SelectCandidate
<1>3. CASE LockCandidate(t)
  BY <1>0, <1>3, AcquireType, GoToType, TypesStay DEF LockCandidate, Pc
<1>4. CASE LockKey(t)
  <2>1. CASE Acquire(t, KeyOf[t]) /\ GoTo(t, "system") /\ UNCHANGED answer
    BY <1>0, <1>4, <2>1, AcquireType, GoToType, TypesStay DEF LockKey, Pc
  <2>2. CASE Answered(t, "refused")
    BY <1>0, <1>4, <2>2, AnsweredType, TypesStay DEF LockKey, Answer
  <2> QED BY <1>4, <2>1, <2>2 DEF LockKey
<1>5. CASE lockSystemAdmission(t)
  <2>1. CASE Acquire(t, "system") /\ GoTo(t, "insert") /\ UNCHANGED answer
    BY <1>0, <1>5, <2>1, AcquireType, GoToType, TypesStay DEF lockSystemAdmission, Pc
  <2>2. CASE \E how \in {"refused", "overloaded"} : Answered(t, how)
    BY <1>0, <1>5, <2>2, AnsweredType, TypesStay DEF lockSystemAdmission, Answer
  <2> QED BY <1>5, <2>1, <2>2 DEF lockSystemAdmission
<1>6. CASE InsertTask(t)
  <2>1. UNCHANGED <<healthy, ruleActive, aged, paused, balance, maintenance>>
    BY <1>6 DEF InsertTask
  <2>2. CASE Answered(t, "error") /\ UNCHANGED <<task, res, outbox, overload>>
    BY <1>0, <2>1, <2>2, AnsweredType, TypesStay DEF Answer, sysVars
  <2>3. CASE /\ task' = [task EXCEPT ![t].status = "queued", ![t].account = tx[t].account]
             /\ res' = [res EXCEPT ![t].state = "held", ![t].account = tx[t].account]
             /\ outbox' = [outbox EXCEPT ![t] = "due"]
             /\ overload' = FALSE
             /\ Answered(t, "admitted")
    <3>1. tx[t].account \in Accounts \cup {NoAccount}
      BY <1>0 DEF Tx
    <3>2. task' \in [Tasks -> TaskRow]
      BY <1>0, <2>3, <3>1, TableType DEF Status
    <3>3. res' \in [Tasks -> ResRow] /\ outbox' \in [Tasks -> OutboxRow]
      BY <1>0, <2>3, <3>1 DEF ResRow, OutboxRow
    <3>4. /\ lock' \in [Lockable -> Tasks \cup {0}] /\ tx' \in [Tasks -> Tx]
          /\ answer' \in [Tasks -> Answer]
      BY <2>3, AnsweredType DEF Answer
    <3> QED BY <2>1, <2>3, <3>2, <3>3, <3>4 DEF TypeOK, TablesTypeOK
  <2> QED BY <1>6, <2>2, <2>3 DEF InsertTask
<1>7. CASE PassCandidate(t) \/ ExcludeCandidate(t) \/ AdmissionDeadlocked(t)
  BY <1>7, CandidateType
<1> QED BY <1>1, <1>2, <1>3, <1>4, <1>5, <1>6, <1>7 DEF Admit

\* The statements of a claim.
LEMMA ClaimType ==
    ASSUME TypeOK, NEW t \in Tasks, BeginClaim(t) \/ Claim(t)
    PROVE  TypeOK'
<1>0. /\ task \in [Tasks -> TaskRow] /\ res \in [Tasks -> ResRow] /\ outbox \in [Tasks -> OutboxRow]
      /\ lock \in [Lockable -> Tasks \cup {0}] /\ tx \in [Tasks -> Tx] /\ tx[t] \in Tx
      /\ answer \in [Tasks -> Answer]
      /\ task[t].account \in Accounts \cup {NoAccount} /\ tx[t].account \in Accounts \cup {NoAccount}
      /\ tx[t].found \subseteq Accounts
  BY DEF TypeOK, TablesTypeOK, TaskRow, Tx
<1>1. CASE BeginClaim(t)
  <2>1. ActiveOn(task[t].account) \in SUBSET Tasks
    BY DEF ActiveOn, HeldBy
  <2>2. tx' \in [Tasks -> Tx]
    BY <1>0, <1>1, <2>1 DEF BeginClaim, Tx, Pc
  <2> QED BY <1>0, <1>1, <2>2, TypesStay DEF BeginClaim
<1>2. ASSUME NEW x, NEW pc \in Pc, Acquire(t, x), GoTo(t, pc), UNCHANGED <<task, res, outbox>>,
             UNCHANGED <<sysVars, answer>>
      PROVE  TypeOK'
  BY <1>0, <1>2, AcquireType, GoToType, TypesStay
<1>3. ASSUME NEW a \in Accounts \cup {NoAccount}, Defer(t, a), UNCHANGED <<sysVars, answer>>
      PROVE  TypeOK'
  BY <1>0, <1>3, DeferType, TypesStay
<1>4. CASE LockClaimAccount(t)
  BY <1>0, <1>2, <1>3, <1>4 DEF LockClaimAccount, Pc
<1>5. CASE Reroute(t)
  <2>1. CASE tx' = [tx EXCEPT ![t].pc = "reroute_target",
                              ![t].found = {a \in Accounts : RerouteTarget(t, a)}] /\ UNCHANGED lock
    <3>1. {a \in Accounts : RerouteTarget(t, a)} \in SUBSET Accounts
      OBVIOUS
    <3>2. tx' \in [Tasks -> Tx]
      BY <1>0, <2>1, <3>1 DEF Tx, Pc
    <3> QED BY <1>0, <1>5, <2>1, <3>2, TypesStay DEF Reroute
  <2> QED BY <1>2, <1>5, <2>1 DEF Reroute, Pc
<1>6. CASE LockRerouteTarget(t)
  <2>1. ASSUME NEW a \in Accounts, Acquire(t, a), UNCHANGED <<task, res, outbox>>,
               tx' = [tx EXCEPT ![t].pc = "claim_key", ![t].account = a]
        PROVE  TypeOK'
    <3>1. tx' \in [Tasks -> Tx]
      BY <1>0, <2>1 DEF Tx, Pc
    <3> QED BY <1>0, <1>6, <2>1, <3>1, AcquireType, TypesStay DEF LockRerouteTarget
  <2> QED BY <1>0, <1>3, <1>6, <2>1 DEF LockRerouteTarget
<1>7. CASE LockClaimKey(t) \/ LockClaimSystem(t)
  BY <1>0, <1>2, <1>3, <1>7 DEF LockClaimKey, LockClaimSystem, Pc
<1>8. CASE TakeLease(t)
  <2>1. task' \in [Tasks -> TaskRow] /\ res' \in [Tasks -> ResRow]
    BY <1>0, <1>8, MoveToType DEF TakeLease, Status, Executing
  <2>2. [outbox EXCEPT ![t] = "delivered"] \in [Tasks -> OutboxRow]
    BY <1>0 DEF OutboxRow
  <2>3. outbox' \in [Tasks -> OutboxRow]
    BY <1>8, <2>2, WakeType DEF TakeLease
  <2> QED BY <1>0, <1>8, <2>1, <2>3, EndType, TypesStay DEF TakeLease
<1> QED BY <1>1, <1>4, <1>5, <1>6, <1>7, <1>8 DEF Claim

\* The statements around them.
LEMMA AroundType ==
    ASSUME TypeOK,
           \/ \E t \in Tasks : TaskEnds(t) \/ TaskYields(t)
           \/ \E a \in Accounts : AccountHealthChanges(a) \/ BalanceSynced(a)
           \/ UpdateSystemCapacity \/ UNCHANGED vars
    PROVE  TypeOK'
<1>0. /\ task \in [Tasks -> TaskRow] /\ res \in [Tasks -> ResRow] /\ outbox \in [Tasks -> OutboxRow]
      /\ lock \in [Lockable -> Tasks \cup {0}] /\ tx \in [Tasks -> Tx]
      /\ answer \in [Tasks -> Answer] /\ balance \in [Accounts -> Nat]
  BY DEF TypeOK, TablesTypeOK
<1>1. ASSUME NEW t \in Tasks, NEW s \in Status, task' = [task EXCEPT ![t].status = s]
      PROVE  task' \in [Tasks -> TaskRow]
  <2> DEFINE r == [task[t] EXCEPT !.status = s]
  <2>1. r \in TaskRow
    BY <1>0 DEF TaskRow
  <2>2. task' = [task EXCEPT ![t] = r]
    BY <1>1
  <2> HIDE DEF r
  <2> QED BY <1>0, <2>1, <2>2
<1>2. ASSUME NEW t \in Tasks, NEW a, NEW o \in OutboxRow, Wake(t, a, task', [outbox EXCEPT ![t] = o])
      PROVE  outbox' \in [Tasks -> OutboxRow]
  <2>1. [outbox EXCEPT ![t] = o] \in [Tasks -> OutboxRow]
    BY <1>0
  <2> QED BY <1>2, <2>1, WakeType
<1>3. ASSUME NEW t \in Tasks, TaskEnds(t)
      PROVE  TypeOK'
  <2>1. task' \in [Tasks -> TaskRow]
    BY <1>1, <1>3 DEF TaskEnds, Status, Terminal
  <2>2. outbox' \in [Tasks -> OutboxRow]
    BY <1>2, <1>3 DEF TaskEnds, OutboxRow
  <2>3. res' \in [Tasks -> ResRow]
    <3>1. CASE res' = [res EXCEPT ![t].state = "consumed"]
      BY <1>0, <3>1 DEF ResRow
    <3>2. CASE res' = Release(t, "unsubmitted")
      BY <1>0, <3>2 DEF Release, ResRow, Reason
    <3> QED BY <1>0, <1>3, <3>1, <3>2 DEF TaskEnds
  <2>4. balance' \in [Accounts -> Nat]
    <3> DEFINE a == task[t].account
    <3>1. CASE balance' = [balance EXCEPT ![a] = ChargeCredits(balance[a], Cost[t])]
      <4>1. CASE a \in Accounts
        <5>1. ChargeCredits(balance[a], Cost[t]) \in Nat
          BY <1>0, <4>1, AdmissionAssumptions DEF ChargeCredits
        <5> HIDE DEF a
        <5> QED BY <1>0, <3>1, <5>1
      <4>2. CASE a \notin Accounts
        <5> HIDE DEF a
        <5> QED BY <1>0, <3>1, <4>2
      <4> QED BY <4>1, <4>2
    <3> QED BY <1>0, <1>3, <3>1 DEF TaskEnds
  <2> QED BY <1>0, <1>3, <2>1, <2>2, <2>3, <2>4 DEF TaskEnds, TypeOK, TablesTypeOK, ctlVars
<1>4. ASSUME NEW t \in Tasks, TaskYields(t)
      PROVE  TypeOK'
  <2>1. task' \in [Tasks -> TaskRow]
    BY <1>1, <1>4 DEF TaskYields, Status
  <2>2. outbox' \in [Tasks -> OutboxRow]
    BY <1>2, <1>4 DEF TaskYields, OutboxRow
  <2> QED BY <1>0, <1>4, <2>1, <2>2, TypesStay DEF TaskYields, ctlVars
<1>5. ASSUME NEW a \in Accounts, AccountHealthChanges(a)
      PROVE  TypeOK'
  BY <1>5 DEF AccountHealthChanges, TypeOK, TablesTypeOK, ctlVars
<1>6. ASSUME NEW a \in Accounts, BalanceSynced(a)
      PROVE  TypeOK'
  <2>1. balance' \in [Accounts -> Nat]
    BY <1>0, <1>6, AdmissionAssumptions DEF BalanceSynced
  <2> QED BY <1>6, <2>1 DEF BalanceSynced, TypeOK, TablesTypeOK, ctlVars
<1>7. CASE UpdateSystemCapacity
  BY <1>7 DEF UpdateSystemCapacity, TypeOK, TablesTypeOK, ctlVars
<1>8. CASE UNCHANGED vars
  BY <1>0, <1>8, TypesStay DEF vars, ctlVars
<1> QED BY <1>3, <1>4, <1>5, <1>6, <1>7, <1>8

-----------------------------------------------------------------------------
(* Counting tasks. *)

Unfinished == Executing \cup {"queued"}
KeyQuota(k) == (IF KeyLimit[k] < 1 THEN 1 ELSE KeyLimit[k]) * (1 + KeyQueueMultiplier)
SystemOpen == SystemExecuting \cup Queued

\* A part of the tasks is no larger than the whole.
LEMMA FewerTasks ==
    ASSUME NEW S \in SUBSET Tasks, NEW T \in SUBSET S
    PROVE  /\ Cardinality(S) \in Nat /\ Cardinality(T) \in Nat
           /\ Cardinality(T) <= Cardinality(S)
<1>1. IsFiniteSet(S)
  BY FS_Subset, AdmissionAssumptions
<1>2. IsFiniteSet(T) /\ Cardinality(T) <= Cardinality(S)
  BY <1>1, FS_Subset
<1> QED BY <1>1, <1>2, FS_CardinalityType

\* One more task.
LEMMA OneMoreTask ==
    ASSUME NEW S \in SUBSET Tasks, NEW t \in Tasks
    PROVE  /\ Cardinality(S) \in Nat /\ Cardinality(S \cup {t}) \in Nat
           /\ Cardinality(S \cup {t}) <= Cardinality(S) + 1
<1>1. IsFiniteSet(S)
  BY FS_Subset, AdmissionAssumptions
<1>2. IsFiniteSet(S \cup {t}) /\ (Cardinality(S \cup {t}) = Cardinality(S)
                                 \/ Cardinality(S \cup {t}) = Cardinality(S) + 1)
  BY <1>1, FS_AddElement
<1>3. Cardinality(S) \in Nat /\ Cardinality(S \cup {t}) \in Nat
  BY <1>1, <1>2, FS_CardinalityType
<1> QED BY <1>2, <1>3

\* The limits as natural numbers.
LEMMA Limits ==
    /\ \A k \in Keys : KeyLimit[k] \in Nat /\ KeyQuota(k) \in Nat
    /\ MaxExecuting \in Nat /\ QueueHighWatermark \in Nat
    /\ \A t \in Tasks : KeyOf[t] \in Keys
<1>1. ASSUME NEW m \in Nat, NEW n \in Nat PROVE m * (1 + n) \in Nat
  OBVIOUS
<1>2. ASSUME NEW k \in Keys PROVE KeyLimit[k] \in Nat /\ KeyQuota(k) \in Nat
  <2>1. KeyLimit[k] \in Nat /\ KeyQueueMultiplier \in Nat
    BY TableAssumptions
  <2> QED BY <1>1, <2>1 DEF KeyQuota
<1> QED BY <1>2, TableAssumptions, AdmissionAssumptions

\* The sets that are counted, as sets of tasks.
LEMMA CountedSets ==
    /\ \A k \in Keys : KeyActive(k) \in SUBSET Tasks /\ KeyNonTerminal(k) \in SUBSET Tasks
    /\ SystemExecuting \in SUBSET Tasks /\ SystemOpen \in SUBSET Tasks
    /\ \A t \in Tasks : Existing(t) \in SUBSET Tasks
BY DEF KeyActive, KeyNonTerminal, SystemExecuting, SystemOpen, Queued, Existing

\* No task starts or starts to execute.
NoneStarts ==
    \A u \in Tasks : /\ task'[u].status \in Executing => task[u].status \in Executing
                     /\ task'[u].status \in Unfinished => task[u].status \in Unfinished
                     /\ task'[u].status = "absent" <=> task[u].status = "absent"

\* Every count stays or falls.
CountsFall ==
    /\ \A k \in Keys : /\ Cardinality(KeyActive(k)') <= Cardinality(KeyActive(k))
                       /\ Cardinality(KeyNonTerminal(k)') <= Cardinality(KeyNonTerminal(k))
    /\ Cardinality(SystemExecuting') <= Cardinality(SystemExecuting)
    /\ Cardinality(SystemOpen') <= Cardinality(SystemOpen)

\* Then the counts fall.
LEMMA NoneStartsFall ==
    ASSUME NoneStarts
    PROVE  CountsFall /\ \A t \in Tasks : Existing(t)' = Existing(t)
<1>1. /\ \A k \in Keys : KeyActive(k)' \subseteq KeyActive(k) /\ KeyNonTerminal(k)' \subseteq KeyNonTerminal(k)
      /\ SystemExecuting' \subseteq SystemExecuting /\ SystemOpen' \subseteq SystemOpen
  BY DEF NoneStarts, KeyActive, KeyNonTerminal, SystemExecuting, SystemOpen, Queued, Unfinished
<1>2. \A t \in Tasks : Existing(t)' = Existing(t)
  BY DEF NoneStarts, Existing
<1>3. CountsFall
  <2>1. ASSUME NEW k \in Keys
        PROVE  /\ Cardinality(KeyActive(k)') <= Cardinality(KeyActive(k))
               /\ Cardinality(KeyNonTerminal(k)') <= Cardinality(KeyNonTerminal(k))
    BY <1>1, CountedSets, FewerTasks
  <2>2. /\ Cardinality(SystemExecuting') <= Cardinality(SystemExecuting)
        /\ Cardinality(SystemOpen') <= Cardinality(SystemOpen)
    BY <1>1, CountedSets, FewerTasks
  <2> QED BY <2>1, <2>2 DEF CountsFall
<1> QED BY <1>2, <1>3

\* Counts are natural numbers.
LEMMA CountTypes ==
    /\ \A k \in Keys : Cardinality(KeyActive(k)) \in Nat /\ Cardinality(KeyNonTerminal(k)) \in Nat
    /\ Cardinality(SystemExecuting) \in Nat /\ Cardinality(SystemOpen) \in Nat
BY CountedSets, FewerTasks

\* So are those of the next state.
LEMMA NextCountTypes ==
    /\ \A k \in Keys : Cardinality(KeyActive(k)') \in Nat /\ Cardinality(KeyNonTerminal(k)') \in Nat
    /\ Cardinality(SystemExecuting') \in Nat /\ Cardinality(SystemOpen') \in Nat
<1>1. /\ \A k \in Keys : KeyActive(k)' \in SUBSET Tasks /\ KeyNonTerminal(k)' \in SUBSET Tasks
      /\ SystemExecuting' \in SUBSET Tasks /\ SystemOpen' \in SUBSET Tasks
  BY DEF KeyActive, KeyNonTerminal, SystemExecuting, SystemOpen, Queued
<1> QED BY <1>1, FewerTasks

-----------------------------------------------------------------------------
(* The invariant, transaction by transaction. *)

TxOK(t) == Checked(t) /\ AccountsKnown(t) /\ LocksInOrder(t)

\* A step of t's transaction touches no other transaction and no lock of another.
OthersKeepLocks(t) ==
    \A u \in Tasks \ {t} : tx'[u] = tx[u] /\ \A x \in Lockable : lock'[x] = u <=> lock[x] = u

\* The checks of a transaction that keeps its place, its locks and its row, as long
\* as what it has counted stays.
LEMMA ChecksStay ==
    ASSUME NEW u \in Tasks, TypeOK, TxOK(u), tx'[u] = tx[u], task'[u] = task[u],
           \A x \in Lockable : lock'[x] = u <=> lock[x] = u,
           tx[u].pc \in AdmitPcs => Existing(u)' = Existing(u),
           KeyAdmits(KeyOf[u]) /\ lock[KeyOf[u]] = u => KeyAdmits(KeyOf[u])',
           KeyHasSlot(KeyOf[u]) /\ lock[KeyOf[u]] = u => KeyHasSlot(KeyOf[u])',
           lock["system"] = u => /\ Cardinality(SystemExecuting') <= Cardinality(SystemExecuting)
                                 /\ Cardinality(SystemOpen') <= Cardinality(SystemOpen)
    PROVE  TxOK(u)'
<1>0. /\ "system" \in Lockable /\ "reroute" \in Lockable /\ Idem[u] \in Lockable
      /\ KeyOf[u] \in Keys /\ Keys \subseteq Lockable /\ Accounts \subseteq Lockable
      /\ MaxExecuting + QueueHighWatermark \in Nat /\ MaxExecuting \in Nat
  BY Limits DEF Lockable, IdemKeys
<1>1. AccountsKnown(u)'
  BY DEF TxOK, AccountsKnown
<1>2. LocksInOrder(u)'
  BY <1>0 DEF TxOK, LocksInOrder
<1>3. tx[u].pc = "insert" =>
        lock'["system"] = u /\ Cardinality(SystemOpen') < MaxExecuting + QueueHighWatermark
  BY <1>0, CountTypes, NextCountTypes DEF TxOK, Checked, SystemOpen
<1>4. tx[u].pc = "claim_update" =>
        lock'["system"] = u /\ Cardinality(SystemExecuting') < MaxExecuting
  BY <1>0, CountTypes, NextCountTypes DEF TxOK, Checked
<1>5. Checked(u)'
  BY <1>0, <1>3, <1>4 DEF TxOK, Checked, SystemOpen
<1> QED BY <1>1, <1>2, <1>5 DEF TxOK

\* Falling counts keep every check and every limit.
LEMMA FallKeepsChecks ==
    ASSUME CountsFall
    PROVE  /\ \A k \in Keys : /\ KeyAdmits(k) => KeyAdmits(k)'
                              /\ KeyHasSlot(k) => KeyHasSlot(k)'
           /\ KeyWithinLimits => KeyWithinLimits'
           /\ SystemWithinLimits => SystemWithinLimits'
<1> USE Limits, CountTypes, NextCountTypes
<1>1. ASSUME NEW k \in Keys
      PROVE  /\ KeyAdmits(k) <=> Cardinality(KeyNonTerminal(k)) < KeyQuota(k)
             /\ KeyAdmits(k)' <=> Cardinality(KeyNonTerminal(k)') < KeyQuota(k)
  BY DEF KeyAdmits, KeyQuota
<1>2. ASSUME NEW k \in Keys
      PROVE  /\ KeyAdmits(k) => KeyAdmits(k)'
             /\ KeyHasSlot(k) => KeyHasSlot(k)'
  BY <1>1 DEF CountsFall, KeyHasSlot
<1>3. /\ KeyWithinLimits <=> \A k \in Keys : /\ KeyLimit[k] > 0 => Cardinality(KeyActive(k)) <= KeyLimit[k]
                                             /\ Cardinality(KeyNonTerminal(k)) <= KeyQuota(k)
      /\ KeyWithinLimits' <=> \A k \in Keys : /\ KeyLimit[k] > 0 => Cardinality(KeyActive(k)') <= KeyLimit[k]
                                              /\ Cardinality(KeyNonTerminal(k)') <= KeyQuota(k)
  BY DEF KeyWithinLimits, KeyQuota
<1>4. KeyWithinLimits => KeyWithinLimits'
  BY <1>3 DEF CountsFall
<1>5. SystemWithinLimits => SystemWithinLimits'
  BY DEF CountsFall, SystemWithinLimits, SystemOpen
<1> QED BY <1>2, <1>4, <1>5

\* The answers that a step gives.
AnswersRight ==
    \A u \in Tasks : /\ answer'[u] = "existing" /\ answer[u] # "existing" => Existing(u) # {}
                     /\ answer'[u] = "error" => answer[u] = "error"

\* A step of t's transaction, or of t's worker, in which nothing starts.
LEMMA QuietStep ==
    ASSUME AdmissionInv, TypeOK', NEW t \in Tasks, OthersKeepLocks(t), NoneStarts, AnswersRight,
           \A u \in Tasks \ {t} : task'[u] = task[u], TxOK(t)'
    PROVE  AdmissionInv'
<1>1. CountsFall /\ \A u \in Tasks : Existing(u)' = Existing(u)
  BY NoneStartsFall
<1>2. ASSUME NEW u \in Tasks \ {t} PROVE TxOK(u)'
  <2>1. TxOK(u) /\ TypeOK /\ KeyOf[u] \in Keys
    BY Limits DEF AdmissionInv, TxOK
  <2> QED BY <1>1, <2>1, ChecksStay, FallKeepsChecks DEF OthersKeepLocks, CountsFall
<1>3. KeyWithinLimits' /\ SystemWithinLimits'
  BY <1>1, FallKeepsChecks DEF AdmissionInv
<1>4. RetriesGetTheirTask'
  BY <1>1 DEF AdmissionInv, RetriesGetTheirTask, AnswersRight
<1> QED BY <1>2, <1>3, <1>4 DEF AdmissionInv, TxOK

-----------------------------------------------------------------------------
(* The statements. *)

\* What ending its transaction leaves of t: no place and no lock.
LEMMA EndsClean ==
    ASSUME TypeOK, NEW t \in Tasks, End(t)
    PROVE  /\ tx'[t].pc = "idle" /\ \A x \in Lockable : lock'[x] # t
           /\ OthersKeepLocks(t)
<1>1. t # 0 /\ 0 \notin Tasks
  BY TableAssumptions
<1> QED BY <1>1 DEF TypeOK, End, NoTx, OthersKeepLocks

\* A transaction that has ended has nothing to keep.
LEMMA EndedOK ==
    ASSUME NEW t \in Tasks, tx'[t].pc = "idle", \A x \in Lockable : lock'[x] # t,
           task'[t].status # "absent" => task'[t].account \in Accounts
    PROVE  TxOK(t)'
<1>1. /\ "system" \in Lockable /\ "reroute" \in Lockable
      /\ Keys \subseteq Lockable /\ Accounts \subseteq Lockable
  BY DEF Lockable
<1>2. Checked(t)' /\ AccountsKnown(t)'
  BY DEF Checked, AccountsKnown, AdmitPcs, ClaimPcs
<1>3. LocksInOrder(t)'
  BY <1>1 DEF LocksInOrder
<1> QED BY <1>2, <1>3 DEF TxOK

\* The tables stay: nothing starts.
LEMMA TablesStay ==
    ASSUME task' = task
    PROVE  NoneStarts /\ \A u \in Tasks : Existing(u)' = Existing(u)
BY DEF NoneStarts, Existing

\* A transaction answers and ends without a write.
LEMMA AnsweredKeepsInv ==
    ASSUME AdmissionInv, TypeOK', NEW t \in Tasks,
           NEW how \in {"refused", "overloaded", "existing"}, how = "existing" => Existing(t) # {},
           Answered(t, how), task' = task
    PROVE  AdmissionInv'
<1>1. TypeOK /\ End(t) /\ (task[t].status # "absent" => task[t].account \in Accounts)
  BY DEF AdmissionInv, AccountsKnown, Answered
<1>2. AnswersRight
  BY <1>1 DEF Answered, AnswersRight, TypeOK
<1> QED BY <1>1, <1>2, EndsClean, EndedOK, TablesStay, QuietStep

\* A transaction takes a lock, or none, and goes on without a write.
LEMMA GoesOnKeepsInv ==
    ASSUME AdmissionInv, TypeOK', NEW t \in Tasks, UNCHANGED <<task, answer>>,
           \A u \in Tasks \ {t} : tx'[u] = tx[u],
           lock' = lock \/ \E x \in Lockable : Acquire(t, x), TxOK(t)'
    PROVE  AdmissionInv'
<1>1. t # 0 /\ 0 \notin Tasks /\ TypeOK
  BY TableAssumptions DEF AdmissionInv
<1>2. OthersKeepLocks(t)
  BY <1>1 DEF OthersKeepLocks, Acquire, TypeOK
<1>3. AnswersRight
  BY DEF AnswersRight
<1> QED BY <1>2, <1>3, TablesStay, QuietStep

\* What a place of a transaction needs; the place and what it has checked are new.
LEMMA PlaceOK ==
    ASSUME TypeOK, NEW t \in Tasks, TxOK(t), UNCHANGED task, TypeOK',
           tx'[t].pc \in AdmitPcs \cup ClaimPcs,
           tx'[t].pc # "select" => tx'[t].account \in Accounts,
           Checked(t)', LocksInOrder(t)'
    PROVE  TxOK(t)'
<1>1. AccountsKnown(t)'
  BY DEF TxOK, AccountsKnown
<1> QED BY <1>1 DEF TxOK

\* A lock that is taken, and the others.
LEMMA LockTaken ==
    ASSUME TypeOK, NEW t \in Tasks, NEW x \in Lockable, Acquire(t, x)
    PROVE  lock'[x] = t /\ \A y \in Lockable \ {x} : lock'[y] = lock[y]
BY DEF TypeOK, Acquire

\* What is counted and found stays with the tables.
LEMMA SameCounts ==
    ASSUME task' = task
    PROVE  /\ \A k \in Keys : (KeyAdmits(k)' <=> KeyAdmits(k)) /\ (KeyHasSlot(k)' <=> KeyHasSlot(k))
           /\ SystemExecuting' = SystemExecuting /\ Queued' = Queued
           /\ \A u \in Tasks : Existing(u)' = Existing(u)
BY DEF KeyAdmits, KeyHasSlot, KeyActive, KeyNonTerminal, SystemExecuting, Queued, Existing

\* The kinds of locks.
LEMMA LockKinds ==
    ASSUME NEW t \in Tasks
    PROVE  /\ Idem[t] \in IdemKeys /\ KeyOf[t] \in Keys
           /\ IdemKeys \subseteq Lockable /\ Keys \subseteq Lockable /\ Accounts \subseteq Lockable
           /\ "system" \in Lockable /\ "reroute" \in Lockable
           /\ \A a \in Accounts : a \notin Keys /\ a \notin IdemKeys
           /\ \A k \in Keys : k \notin IdemKeys
           /\ \A x \in {"system", "reroute"} : x \notin Accounts /\ x \notin Keys /\ x \notin IdemKeys
BY LocksApart, Limits DEF Lockable, IdemKeys

\* An admission passes a candidate over, excludes it or begins again.
LEMMA CandidateKeepsInv ==
    ASSUME AdmissionInv, TypeOK', NEW t \in Tasks,
           PassCandidate(t) \/ ExcludeCandidate(t) \/ AdmissionDeadlocked(t)
    PROVE  AdmissionInv'
<1>0. /\ TypeOK /\ tx \in [Tasks -> Tx] /\ tx[t] \in Tx /\ lock \in [Lockable -> Tasks \cup {0}]
      /\ TxOK(t) /\ Checked(t) /\ AccountsKnown(t) /\ LocksInOrder(t) /\ t # 0 /\ 0 \notin Tasks
  BY TableAssumptions DEF AdmissionInv, TxOK, TypeOK
<1>1. UNCHANGED task
  BY DEF PassCandidate, ExcludeCandidate, AdmissionDeadlocked
<1>2. CASE PassCandidate(t)
  <2>1. CASE Answered(t, "refused")
    BY <1>1, <2>1, AnsweredKeepsInv
  <2>2. ASSUME NEW b \in tx[t].found, NEW rest, Acquire(t, tx[t].account),
               tx' = [tx EXCEPT ![t].account = b, ![t].found = rest], UNCHANGED answer
        PROVE  AdmissionInv'
    <3>0. PICK a \in Accounts : a = tx[t].account
      BY <1>0, <1>2 DEF PassCandidate, At, AccountsKnown, AdmitPcs
    <3>1. tx[t].pc = "candidate" /\ b \in Accounts /\ a \in Lockable /\ Acquire(t, a)
      BY <1>0, <1>2, <2>2, <3>0, LockKinds DEF PassCandidate, At, Tx
    <3>2. tx'[t].pc = "candidate" /\ tx'[t].account = b /\ \A u \in Tasks \ {t} : tx'[u] = tx[u]
      BY <1>0, <2>2, <3>1 DEF Tx
    <3>3. lock'[a] = t /\ \A y \in Lockable \ {a} : lock'[y] = lock[y]
      BY <1>0, <3>1, LockTaken
    <3>4. Checked(t)'
      BY <1>0, <1>1, <3>1, <3>2, <3>3, SameCounts, LockKinds DEF Checked, AdmitPcs, ClaimPcs
    <3>5. LocksInOrder(t)'
      BY <1>0, <3>1, <3>2, <3>3, LockKinds DEF LocksInOrder
    <3>6. TxOK(t)'
      BY <1>0, <1>1, <3>1, <3>2, <3>4, <3>5, PlaceOK DEF AdmitPcs
    <3> QED BY <1>1, <2>2, <3>1, <3>2, <3>6, GoesOnKeepsInv
  <2> QED BY <1>2, <2>1, <2>2 DEF PassCandidate
<1>3. CASE ExcludeCandidate(t)
  <2>1. tx[t].pc = "candidate" /\ tx'[t].pc = "select" /\ \A u \in Tasks \ {t} : tx'[u] = tx[u]
    BY <1>0, <1>3 DEF ExcludeCandidate, At, Tx
  <2>2. \A x \in Lockable : lock'[x] = IF x \in Accounts /\ lock[x] = t THEN 0 ELSE lock[x]
    BY <1>3 DEF ExcludeCandidate
  <2>3. OthersKeepLocks(t)
    BY <1>0, <2>1, <2>2 DEF OthersKeepLocks
  <2>4. \A a \in Accounts : lock'[a] # t
    BY <1>0, <2>2, LockKinds
  <2>5. \A x \in Lockable \ Accounts : lock'[x] = lock[x]
    BY <2>2
  <2>6. Checked(t)'
    BY <1>0, <1>1, <2>1, <2>5, SameCounts, LockKinds DEF Checked, AdmitPcs, ClaimPcs
  <2>7. LocksInOrder(t)'
    BY <1>0, <2>1, <2>4, <2>5, LockKinds DEF LocksInOrder
  <2>8. TxOK(t)'
    BY <1>0, <1>1, <2>1, <2>6, <2>7, PlaceOK DEF AdmitPcs
  <2>9. AnswersRight
    BY <1>3 DEF ExcludeCandidate, AnswersRight
  <2> QED BY <1>1, <2>3, <2>8, <2>9, TablesStay, QuietStep
<1>4. CASE AdmissionDeadlocked(t)
  <2>1. End(t) /\ AnswersRight
    BY <1>4 DEF AdmissionDeadlocked, AnswersRight
  <2>2. task[t].status # "absent" => task[t].account \in Accounts
    BY <1>0 DEF AccountsKnown
  <2> QED BY <1>0, <1>1, <2>1, <2>2, EndsClean, EndedOK, TablesStay, QuietStep
<1> QED BY <1>2, <1>3, <1>4

\* The statements of an admission but the last.
LEMMA AdmitKeepsInv ==
    ASSUME AdmissionInv, TypeOK', NEW t \in Tasks,
           BeginAdmission(t) \/ SelectCandidate(t) \/ LockCandidate(t) \/ LockKey(t) \/ lockSystemAdmission(t)
    PROVE  AdmissionInv'
<1>0. /\ TypeOK /\ tx \in [Tasks -> Tx] /\ tx[t] \in Tx /\ lock \in [Lockable -> Tasks \cup {0}]
      /\ TxOK(t) /\ Checked(t) /\ AccountsKnown(t) /\ LocksInOrder(t)
  BY DEF AdmissionInv, TxOK, TypeOK
<1>1. UNCHANGED task
  BY DEF BeginAdmission, SelectCandidate, LockCandidate, LockKey, lockSystemAdmission
<1>2. CASE BeginAdmission(t)
  <2>1. CASE Acquire(t, Idem[t]) /\ GoTo(t, "select") /\ UNCHANGED answer /\ Existing(t) = {}
    <3>1. /\ tx'[t].pc = "select" /\ \A u \in Tasks \ {t} : tx'[u] = tx[u]
      BY <1>0, <2>1 DEF GoTo, Tx
    <3>2. lock'[Idem[t]] = t /\ \A y \in Lockable \ {Idem[t]} : lock'[y] = lock[y]
      BY <1>0, <2>1, LockKinds, LockTaken
    <3>3. task[t].status = "absent" /\ tx[t].pc = "idle"
      BY <1>2 DEF BeginAdmission, At
    <3>4. Checked(t)'
      BY <1>1, <2>1, <3>1, <3>2, <3>3, SameCounts DEF Checked, ClaimPcs
    <3>5. LocksInOrder(t)'
      BY <1>0, <3>2, <3>3, LockKinds DEF LocksInOrder
    <3> QED BY <1>0, <1>1, <2>1, <3>1, <3>4, <3>5, LockKinds, PlaceOK, GoesOnKeepsInv DEF AdmitPcs
  <2>2. CASE \E how \in {"existing", "refused"} : Answered(t, how) /\ (how = "existing" => Existing(t) # {})
    BY <1>1, <2>2, AnsweredKeepsInv
  <2> QED BY <1>2, <2>1, <2>2 DEF BeginAdmission
<1>3. CASE SelectCandidate(t)
  <2>1. CASE Answered(t, "refused")
    BY <1>1, <2>1, AnsweredKeepsInv
  <2>2. ASSUME UNCHANGED <<lock, answer>>, NEW a \in Accounts, NEW found \in SUBSET Accounts,
               tx' = [tx EXCEPT ![t].pc = "candidate", ![t].account = a, ![t].found = found]
        PROVE  AdmissionInv'
    <3>1. /\ tx'[t].pc = "candidate" /\ tx'[t].account = a
          /\ \A u \in Tasks \ {t} : tx'[u] = tx[u]
      BY <1>0, <2>2 DEF Tx
    <3>2. tx[t].pc = "select"
      BY <1>3 DEF SelectCandidate, At
    <3>3. Checked(t)'
      BY <1>0, <1>1, <2>2, <3>1, <3>2, SameCounts DEF Checked, AdmitPcs, ClaimPcs
    <3>4. LocksInOrder(t)'
      BY <1>0, <2>2, <3>1, <3>2 DEF LocksInOrder
    <3> QED BY <1>0, <1>1, <2>2, <3>1, <3>3, <3>4, PlaceOK, GoesOnKeepsInv DEF AdmitPcs
  <2>3. Candidates(t) \in SUBSET Accounts
    BY DEF Candidates
  <2> QED BY <1>3, <2>1, <2>2, <2>3 DEF SelectCandidate
<1>4. CASE LockCandidate(t)
  <2> DEFINE a == tx[t].account
  <2>0. a \in Accounts /\ tx[t].pc = "candidate" /\ UNCHANGED answer
    BY <1>0, <1>4 DEF LockCandidate, At, AccountsKnown, AdmitPcs
  <2>1. CASE Acquire(t, a) /\ GoTo(t, "key")
    <3>1. /\ tx'[t].pc = "key" /\ tx'[t].account = a /\ \A u \in Tasks \ {t} : tx'[u] = tx[u]
      BY <1>0, <2>1 DEF GoTo, Tx
    <3>2. a \in Lockable
      BY <2>0, LockKinds
    <3>3. lock'[a] = t /\ \A y \in Lockable \ {a} : lock'[y] = lock[y]
      BY <1>0, <2>1, <3>2, LockTaken
    <3> HIDE DEF a
    <3>4. Checked(t)'
      BY <1>0, <1>1, <2>0, <3>1, <3>3, SameCounts, LockKinds DEF Checked, AdmitPcs, ClaimPcs
    <3>5. LocksInOrder(t)'
      BY <1>0, <2>0, <3>1, <3>3, LockKinds DEF LocksInOrder
    <3> QED BY <1>0, <1>1, <2>0, <2>1, <3>1, <3>2, <3>4, <3>5, PlaceOK, GoesOnKeepsInv DEF AdmitPcs
  <2> QED BY <1>4, <2>1 DEF LockCandidate
<1>5. CASE LockKey(t)
  <2> DEFINE k == KeyOf[t]
  <2>0. k \in Keys /\ tx[t].pc = "key" /\ tx[t].account \in Accounts
    BY <1>0, <1>5, LockKinds DEF LockKey, At, AccountsKnown, AdmitPcs
  <2>1. CASE Acquire(t, k) /\ GoTo(t, "system") /\ UNCHANGED answer /\ KeyAdmits(k)
    <3>1. /\ tx'[t].pc = "system" /\ tx'[t].account = tx[t].account /\ \A u \in Tasks \ {t} : tx'[u] = tx[u]
      BY <1>0, <2>1 DEF GoTo, Tx
    <3>2. k \in Lockable
      BY <2>0, LockKinds
    <3>3. lock'[k] = t /\ \A y \in Lockable \ {k} : lock'[y] = lock[y]
      BY <1>0, <2>1, <3>2, LockTaken
    <3>4. Checked(t)'
      BY <1>0, <1>1, <2>0, <2>1, <3>1, <3>3, SameCounts, LockKinds DEF Checked, AdmitPcs, ClaimPcs
    <3>5. LocksInOrder(t)'
      BY <1>0, <2>0, <3>1, <3>3, LockKinds DEF LocksInOrder
    <3> QED BY <1>0, <1>1, <2>0, <2>1, <3>1, <3>2, <3>4, <3>5, PlaceOK, GoesOnKeepsInv DEF AdmitPcs
  <2>2. CASE Answered(t, "refused")
    BY <1>1, <2>2, AnsweredKeepsInv
  <2> QED BY <1>5, <2>1, <2>2 DEF LockKey
<1>6. CASE lockSystemAdmission(t)
  <2>0. tx[t].pc = "system" /\ tx[t].account \in Accounts
    BY <1>0, <1>6 DEF lockSystemAdmission, At, AccountsKnown, AdmitPcs
  <2>1. CASE Acquire(t, "system") /\ GoTo(t, "insert") /\ UNCHANGED answer /\ Cardinality(Queued) < QueueHighWatermark
    <3>1. /\ tx'[t].pc = "insert" /\ tx'[t].account = tx[t].account /\ \A u \in Tasks \ {t} : tx'[u] = tx[u]
      BY <1>0, <2>1 DEF GoTo, Tx
    <3>2. lock'["system"] = t /\ \A y \in Lockable \ {"system"} : lock'[y] = lock[y]
      BY <1>0, <2>1, LockKinds, LockTaken
    <3>3. Cardinality(SystemExecuting \cup Queued) < MaxExecuting + QueueHighWatermark
      <4>1. IsFiniteSet(SystemExecuting) /\ IsFiniteSet(Queued)
        BY FS_Subset, AdmissionAssumptions DEF SystemExecuting, Queued
      <4>2. SystemExecuting \cap Queued = {}
        BY DEF SystemExecuting, Queued, Executing
      <4>3. Cardinality(SystemExecuting \cup Queued) = Cardinality(SystemExecuting) + Cardinality(Queued) - 0
        BY <4>1, <4>2, FS_Union, FS_EmptySet
      <4>4. /\ Cardinality(SystemExecuting) \in Nat /\ Cardinality(Queued) \in Nat
            /\ Cardinality(SystemExecuting) <= MaxExecuting
        BY <4>1, FS_CardinalityType DEF AdmissionInv, SystemWithinLimits
      <4> QED BY <2>1, <4>3, <4>4, Limits
    <3>4. Checked(t)'
      BY <1>0, <1>1, <2>0, <3>1, <3>2, <3>3, SameCounts, LockKinds DEF Checked, AdmitPcs, ClaimPcs
    <3>5. LocksInOrder(t)'
      BY <1>0, <2>0, <3>1, <3>2, LockKinds DEF LocksInOrder
    <3> QED BY <1>0, <1>1, <2>0, <2>1, <3>1, <3>4, <3>5, LockKinds, PlaceOK, GoesOnKeepsInv DEF AdmitPcs
  <2>2. CASE \E how \in {"refused", "overloaded"} : Answered(t, how)
    BY <1>1, <2>2, AnsweredKeepsInv
  <2> QED BY <1>6, <2>1, <2>2 DEF lockSystemAdmission
<1> QED BY <1>2, <1>3, <1>4, <1>5, <1>6

\* A claimed task is put off: it stays queued, on an account that exists.
LEMMA DeferKeepsInv ==
    ASSUME AdmissionInv, TypeOK', NEW t \in Tasks, tx[t].pc \in ClaimPcs, NEW a \in Accounts,
           Defer(t, a), UNCHANGED answer
    PROVE  AdmissionInv'
<1>0. TypeOK /\ task \in [Tasks -> TaskRow] /\ task[t].status = "queued" /\ End(t)
  BY DEF AdmissionInv, Checked, TypeOK, TablesTypeOK, Defer
<1>1. /\ task'[t].status = "queued" /\ task'[t].account = a
      /\ \A u \in Tasks \ {t} : task'[u] = task[u]
  BY <1>0, TableType DEF Defer, MoveTo, Status
<1>2. NoneStarts
  BY <1>0, <1>1 DEF NoneStarts
<1>3. AnswersRight
  BY DEF AnswersRight
<1> QED BY <1>0, <1>1, <1>2, <1>3, EndsClean, EndedOK, QuietStep

\* The statements of a claim but the last.
LEMMA ClaimKeepsInv ==
    ASSUME AdmissionInv, TypeOK', NEW t \in Tasks,
           \/ BeginClaim(t) \/ LockClaimAccount(t) \/ Reroute(t) \/ LockRerouteTarget(t)
           \/ LockClaimKey(t) \/ LockClaimSystem(t)
    PROVE  AdmissionInv'
<1>0. /\ TypeOK /\ tx \in [Tasks -> Tx] /\ tx[t] \in Tx /\ lock \in [Lockable -> Tasks \cup {0}]
      /\ TxOK(t) /\ Checked(t) /\ AccountsKnown(t) /\ LocksInOrder(t)
  BY DEF AdmissionInv, TxOK, TypeOK
<1>1. UNCHANGED answer
  BY DEF BeginClaim, LockClaimAccount, Reroute, LockRerouteTarget, LockClaimKey, LockClaimSystem
<1>2. task[t].status = "queued" /\ task[t].account \in Accounts
  BY <1>0 DEF BeginClaim, LockClaimAccount, Reroute, LockRerouteTarget, LockClaimKey, LockClaimSystem,
              At, Checked, ClaimPcs, AccountsKnown
<1>3. ASSUME UNCHANGED <<task, lock>>, tx[t].pc \in {"idle", "reroute_select"},
             tx'[t].pc \in {"claim_account", "reroute", "reroute_target"},
             tx[t].pc = "reroute_select" => tx'[t].pc = "reroute_target",
             tx'[t].account \in Accounts,
             \A u \in Tasks \ {t} : tx'[u] = tx[u]
      PROVE  AdmissionInv'
  <2>1. Checked(t)'
    BY <1>2, <1>3 DEF Checked, AdmitPcs, ClaimPcs
  <2>2. LocksInOrder(t)'
    BY <1>0, <1>3 DEF LocksInOrder
  <2> QED BY <1>0, <1>1, <1>3, <2>1, <2>2, PlaceOK, GoesOnKeepsInv DEF ClaimPcs
<1>4. CASE BeginClaim(t)
  <2>1. /\ tx'[t].pc \in {"claim_account", "reroute"} /\ tx'[t].account = task[t].account
        /\ \A u \in Tasks \ {t} : tx'[u] = tx[u]
    BY <1>0, <1>4 DEF BeginClaim, Tx
  <2> QED BY <1>2, <1>3, <1>4, <2>1 DEF BeginClaim, At
<1>5. ASSUME NEW a \in Accounts, Acquire(t, a), UNCHANGED task,
             \/ tx[t].pc \in {"claim_account", "reroute_target"} /\ tx'[t].pc = "claim_key"
             \/ tx[t].pc = "reroute_old" /\ tx'[t].pc = "reroute_select",
             tx'[t].account \in Accounts, \A u \in Tasks \ {t} : tx'[u] = tx[u]
      PROVE  AdmissionInv'
  <2>1. a \in Lockable
    BY <1>5, LockKinds
  <2>2. lock'[a] = t /\ \A y \in Lockable \ {a} : lock'[y] = lock[y]
    BY <1>0, <1>5, <2>1, LockTaken
  <2>3. Checked(t)'
    BY <1>2, <1>5 DEF Checked, AdmitPcs, ClaimPcs
  <2>4. LocksInOrder(t)'
    BY <1>0, <1>5, <2>2, LockKinds DEF LocksInOrder
  <2> QED BY <1>0, <1>1, <1>5, <2>1, <2>3, <2>4, PlaceOK, GoesOnKeepsInv DEF ClaimPcs
<1>6. CASE LockClaimAccount(t)
  <2> DEFINE a == tx[t].account
  <2>0. tx[t].pc = "claim_account" /\ a \in Accounts
    BY <1>0, <1>6 DEF LockClaimAccount, At, AccountsKnown, ClaimPcs
  <2>1. CASE Acquire(t, a) /\ GoTo(t, "claim_key") /\ UNCHANGED <<task, res, outbox>>
    <3>1. tx'[t].pc = "claim_key" /\ tx'[t].account = a /\ \A u \in Tasks \ {t} : tx'[u] = tx[u]
      BY <1>0, <2>1 DEF GoTo, Tx
    <3> HIDE DEF a
    <3> QED BY <1>5, <2>0, <2>1, <3>1
  <2>2. CASE Defer(t, a)
    BY <1>1, <2>0, <2>2, DeferKeepsInv DEF ClaimPcs
  <2> QED BY <1>6, <2>1, <2>2 DEF LockClaimAccount
<1>7. CASE Reroute(t)
  <2>0. UNCHANGED task /\ tx[t].account \in Accounts
    BY <1>0, <1>7 DEF Reroute, At, AccountsKnown, ClaimPcs
  <2>1. CASE At(t, "reroute") /\ Acquire(t, "reroute") /\ GoTo(t, "reroute_old")
    <3>1. /\ tx'[t].pc = "reroute_old" /\ tx'[t].account = tx[t].account
          /\ \A u \in Tasks \ {t} : tx'[u] = tx[u]
      BY <1>0, <2>1 DEF GoTo, Tx
    <3>2. lock'["reroute"] = t /\ \A y \in Lockable \ {"reroute"} : lock'[y] = lock[y]
      BY <1>0, <2>1, LockKinds, LockTaken
    <3>3. Checked(t)'
      BY <1>2, <2>0, <3>1 DEF Checked, AdmitPcs, ClaimPcs
    <3>4. LocksInOrder(t)'
      BY <1>0, <2>1, <3>1, <3>2, LockKinds DEF LocksInOrder, At
    <3> QED BY <1>0, <1>1, <2>0, <2>1, <3>1, <3>3, <3>4, LockKinds, PlaceOK, GoesOnKeepsInv DEF ClaimPcs
  <2>2. CASE At(t, "reroute_old") /\ Acquire(t, task[t].account) /\ GoTo(t, "reroute_select")
    <3> DEFINE a == task[t].account
    <3>1. /\ tx'[t].pc = "reroute_select" /\ tx'[t].account = tx[t].account
          /\ \A u \in Tasks \ {t} : tx'[u] = tx[u]
      BY <1>0, <2>2 DEF GoTo, Tx
    <3>2. a \in Accounts /\ Acquire(t, a) /\ tx[t].pc = "reroute_old"
      BY <1>2, <2>2 DEF At
    <3> HIDE DEF a
    <3> QED BY <1>5, <2>0, <3>1, <3>2
  <2>3. CASE /\ At(t, "reroute_select") /\ UNCHANGED lock
             /\ tx' = [tx EXCEPT ![t].pc = "reroute_target",
                                 ![t].found = {a \in Accounts : RerouteTarget(t, a)}]
    <3>1. /\ tx'[t].pc = "reroute_target" /\ tx'[t].account = tx[t].account
          /\ \A u \in Tasks \ {t} : tx'[u] = tx[u]
      BY <1>0, <2>3 DEF Tx
    <3> QED BY <1>3, <2>0, <2>3, <3>1 DEF At
  <2> QED BY <1>7, <2>1, <2>2, <2>3 DEF Reroute
<1>8. CASE LockRerouteTarget(t)
  <2>0. tx[t].pc = "reroute_target" /\ tx[t].found \subseteq Accounts
    BY <1>0, <1>8 DEF LockRerouteTarget, At, Tx
  <2>1. ASSUME NEW a \in Accounts, Acquire(t, a), UNCHANGED <<task, res, outbox>>,
               tx' = [tx EXCEPT ![t].pc = "claim_key", ![t].account = a]
        PROVE  AdmissionInv'
    <3>1. tx'[t].pc = "claim_key" /\ tx'[t].account = a /\ \A u \in Tasks \ {t} : tx'[u] = tx[u]
      BY <1>0, <2>1 DEF Tx
    <3> QED BY <1>5, <2>0, <2>1, <3>1
  <2>2. ASSUME NEW a \in Accounts, Defer(t, a) PROVE AdmissionInv'
    BY <1>1, <2>0, <2>2, DeferKeepsInv DEF ClaimPcs
  <2> QED BY <1>2, <1>8, <2>0, <2>1, <2>2 DEF LockRerouteTarget
<1>9. CASE LockClaimKey(t)
  <2> DEFINE k == KeyOf[t]
  <2>0. k \in Keys /\ tx[t].pc = "claim_key" /\ tx[t].account \in Accounts
    BY <1>0, <1>9, LockKinds DEF LockClaimKey, At, AccountsKnown, ClaimPcs
  <2>1. CASE Acquire(t, k) /\ GoTo(t, "claim_system") /\ UNCHANGED task /\ KeyHasSlot(k)
    <3>1. /\ tx'[t].pc = "claim_system" /\ tx'[t].account = tx[t].account
          /\ \A u \in Tasks \ {t} : tx'[u] = tx[u]
      BY <1>0, <2>1 DEF GoTo, Tx
    <3>2. k \in Lockable
      BY <2>0, LockKinds
    <3>3. lock'[k] = t /\ \A y \in Lockable \ {k} : lock'[y] = lock[y]
      BY <1>0, <2>1, <3>2, LockTaken
    <3>4. Checked(t)'
      BY <1>2, <2>0, <2>1, <3>1, <3>3, SameCounts DEF Checked, AdmitPcs, ClaimPcs
    <3>5. LocksInOrder(t)'
      BY <1>0, <2>0, <3>1, <3>3, LockKinds DEF LocksInOrder
    <3> QED BY <1>0, <1>1, <2>0, <2>1, <3>1, <3>2, <3>4, <3>5, PlaceOK, GoesOnKeepsInv DEF ClaimPcs
  <2>2. CASE Defer(t, tx[t].account)
    BY <1>1, <2>0, <2>2, DeferKeepsInv DEF ClaimPcs
  <2> QED BY <1>9, <2>1, <2>2 DEF LockClaimKey
<1>10. CASE LockClaimSystem(t)
  <2>0. tx[t].pc = "claim_system" /\ tx[t].account \in Accounts
    BY <1>0, <1>10 DEF LockClaimSystem, At, AccountsKnown, ClaimPcs
  <2>1. CASE Acquire(t, "system") /\ GoTo(t, "claim_update") /\ UNCHANGED task /\ lockSystemExecution
    <3>1. /\ tx'[t].pc = "claim_update" /\ tx'[t].account = tx[t].account
          /\ \A u \in Tasks \ {t} : tx'[u] = tx[u]
      BY <1>0, <2>1 DEF GoTo, Tx
    <3>2. lock'["system"] = t /\ \A y \in Lockable \ {"system"} : lock'[y] = lock[y]
      BY <1>0, <2>1, LockKinds, LockTaken
    <3>3. Checked(t)'
      BY <1>0, <1>2, <2>0, <2>1, <3>1, <3>2, SameCounts, LockKinds
         DEF Checked, AdmitPcs, ClaimPcs, lockSystemExecution
    <3>4. LocksInOrder(t)'
      BY <1>0, <2>0, <3>1, <3>2, LockKinds DEF LocksInOrder
    <3> QED BY <1>0, <1>1, <2>0, <2>1, <3>1, <3>3, <3>4, LockKinds, PlaceOK, GoesOnKeepsInv DEF ClaimPcs
  <2>2. CASE Defer(t, tx[t].account)
    BY <1>1, <2>0, <2>2, DeferKeepsInv DEF ClaimPcs
  <2> QED BY <1>10, <2>1, <2>2 DEF LockClaimSystem
<1> QED BY <1>4, <1>6, <1>7, <1>8, <1>9, <1>10

-----------------------------------------------------------------------------
(* The two statements that add to a count. *)

\* Adding t to a set of tasks whose count is below a limit keeps the limit.
LEMMA RoomForOne ==
    ASSUME NEW S \in SUBSET Tasks, NEW T \in SUBSET Tasks, NEW t \in Tasks,
           T \subseteq S \cup {t}, NEW n \in Nat, Cardinality(S) < n
    PROVE  Cardinality(T) <= n
<1>1. Cardinality(T) <= Cardinality(S \cup {t}) /\ Cardinality(T) \in Nat
  BY FewerTasks
<1> QED BY <1>1, OneMoreTask

\* The counted sets of the next state are sets of tasks.
LEMMA NextCountedSets ==
    /\ \A k \in Keys : KeyActive(k)' \in SUBSET Tasks /\ KeyNonTerminal(k)' \in SUBSET Tasks
    /\ SystemExecuting' \in SUBSET Tasks /\ SystemOpen' \in SUBSET Tasks
    /\ \A t \in Tasks : Existing(t)' \in SUBSET Tasks
BY DEF KeyActive, KeyNonTerminal, SystemExecuting, SystemOpen, Queued, Existing

\* Only t's row changes: t may join its key's sets and the system's, and nothing
\* else is counted anew.
LEMMA OnlyJoins ==
    ASSUME NEW t \in Tasks, \A u \in Tasks \ {t} : task'[u] = task[u]
    PROVE  /\ \A k \in Keys \ {KeyOf[t]} : /\ KeyActive(k)' = KeyActive(k)
                                           /\ KeyNonTerminal(k)' = KeyNonTerminal(k)
           /\ \A k \in Keys : /\ KeyActive(k)' \subseteq KeyActive(k) \cup {t}
                              /\ KeyNonTerminal(k)' \subseteq KeyNonTerminal(k) \cup {t}
           /\ SystemExecuting' \subseteq SystemExecuting \cup {t}
           /\ SystemOpen' \subseteq SystemOpen \cup {t}
<1>1. ASSUME NEW k \in Keys \ {KeyOf[t]}
      PROVE  KeyActive(k)' = KeyActive(k) /\ KeyNonTerminal(k)' = KeyNonTerminal(k)
  BY DEF KeyActive, KeyNonTerminal
<1>2. ASSUME NEW k \in Keys
      PROVE  /\ KeyActive(k)' \subseteq KeyActive(k) \cup {t}
             /\ KeyNonTerminal(k)' \subseteq KeyNonTerminal(k) \cup {t}
  BY DEF KeyActive, KeyNonTerminal
<1>3. SystemExecuting' \subseteq SystemExecuting \cup {t} /\ SystemOpen' \subseteq SystemOpen \cup {t}
  BY DEF SystemExecuting, SystemOpen, Queued
<1> QED BY <1>1, <1>2, <1>3

\* While t holds its key and the system row, the others' checks do not depend on it.
LEMMA OthersUntouched ==
    ASSUME AdmissionInv, NEW t \in Tasks, OthersKeepLocks(t), \A u \in Tasks \ {t} : task'[u] = task[u],
           lock[KeyOf[t]] = t, lock["system"] = t,
           NEW u \in Tasks \ {t}, tx[u].pc \in AdmitPcs => Existing(u)' = Existing(u)
    PROVE  TxOK(u)'
<1>1. TypeOK /\ TxOK(u) /\ KeyOf[u] \in Keys
  BY Limits DEF AdmissionInv, TxOK
<1>2. lock[KeyOf[u]] = u => KeyOf[u] # KeyOf[t]
  OBVIOUS
<1>3. lock[KeyOf[u]] = u => /\ KeyActive(KeyOf[u])' = KeyActive(KeyOf[u])
                            /\ KeyNonTerminal(KeyOf[u])' = KeyNonTerminal(KeyOf[u])
  BY <1>1, <1>2, OnlyJoins
<1>4. /\ KeyAdmits(KeyOf[u]) /\ lock[KeyOf[u]] = u => KeyAdmits(KeyOf[u])'
      /\ KeyHasSlot(KeyOf[u]) /\ lock[KeyOf[u]] = u => KeyHasSlot(KeyOf[u])'
  BY <1>3 DEF KeyAdmits, KeyHasSlot
<1> QED BY <1>1, <1>4, ChecksStay DEF OthersKeepLocks

\* An admission inserts its task: it found its key's quota and the queue with room,
\* and nobody with its idempotency key, under locks it still holds.
LEMMA InsertKeepsInv ==
    ASSUME AdmissionInv, TypeOK', NEW t \in Tasks, InsertTask(t)
    PROVE  AdmissionInv'
<1>0. /\ TypeOK /\ task \in [Tasks -> TaskRow] /\ answer \in [Tasks -> Answer]
      /\ TxOK(t) /\ tx[t].pc = "insert" /\ KeyOf[t] \in Keys
  BY Limits DEF AdmissionInv, TxOK, TypeOK, TablesTypeOK, InsertTask, At
<1>1. /\ task[t].status = "absent" /\ Existing(t) = {} /\ tx[t].account \in Accounts
      /\ lock[Idem[t]] = t /\ lock[KeyOf[t]] = t /\ lock["system"] = t
      /\ KeyAdmits(KeyOf[t]) /\ Cardinality(SystemOpen) < MaxExecuting + QueueHighWatermark
  BY <1>0 DEF TxOK, Checked, AccountsKnown, AdmitPcs, SystemOpen
<1>2. /\ task' = [task EXCEPT ![t].status = "queued", ![t].account = tx[t].account]
      /\ Answered(t, "admitted")
  BY <1>1 DEF InsertTask
<1>3. /\ task'[t].status = "queued" /\ task'[t].account = tx[t].account
      /\ \A u \in Tasks \ {t} : task'[u] = task[u]
  <2> DEFINE a == tx[t].account
  <2>1. a \in Accounts \cup {NoAccount} /\ task' = [task EXCEPT ![t].status = "queued", ![t].account = a]
    BY <1>1, <1>2
  <2> HIDE DEF a
  <2>2. task'[t].status = "queued" /\ task'[t].account = a /\ \A u \in Tasks \ {t} : task'[u] = task[u]
    BY <1>0, <2>1, TableType DEF Status
  <2> QED BY <2>2 DEF a
<1>4. TxOK(t)' /\ OthersKeepLocks(t)
  BY <1>0, <1>1, <1>2, <1>3, EndsClean, EndedOK DEF Answered
<1>5. ASSUME NEW u \in Tasks \ {t} PROVE TxOK(u)'
  <2>1. tx[u].pc \in AdmitPcs => Idem[u] # Idem[t]
    BY <1>1 DEF AdmissionInv, Checked
  <2>2. tx[u].pc \in AdmitPcs => Existing(u)' = Existing(u)
    BY <1>3, <2>1 DEF Existing
  <2> QED BY <1>1, <1>3, <1>4, <2>2, OthersUntouched
<1>6. \A u \in Tasks : Existing(u) \subseteq Existing(u)' /\ Cardinality(Existing(u)') <= 1
  <2> SUFFICES ASSUME NEW u \in Tasks PROVE Existing(u) \subseteq Existing(u)' /\ Cardinality(Existing(u)') <= 1
    OBVIOUS
  <2>1. Existing(u) \subseteq Existing(u)'
    BY <1>1, <1>3 DEF Existing
  <2>2. CASE KeyOf[u] = KeyOf[t] /\ Idem[u] = Idem[t]
    <3>1. Existing(u) = {}
      BY <1>1, <2>2 DEF Existing
    <3>2. Existing(u)' \subseteq Existing(u) \cup {t}
      BY <1>3 DEF Existing
    <3> QED BY <2>1, <3>1, <3>2, CountedSets, NextCountedSets, RoomForOne, FS_EmptySet
  <2>3. CASE ~(KeyOf[u] = KeyOf[t] /\ Idem[u] = Idem[t])
    <3>1. Existing(u)' = Existing(u)
      BY <1>1, <1>3, <2>3 DEF Existing
    <3> QED BY <2>1, <3>1 DEF AdmissionInv, RetriesGetTheirTask
  <2> QED BY <2>2, <2>3
<1>7. RetriesGetTheirTask'
  <2>1. \A u \in Tasks : answer'[u] = IF u = t THEN "admitted" ELSE answer[u]
    BY <1>0, <1>2 DEF Answered
  <2> QED BY <1>6, <2>1 DEF AdmissionInv, RetriesGetTheirTask
<1>8. /\ \A k \in Keys : KeyActive(k)' = KeyActive(k)
      /\ SystemExecuting' = SystemExecuting
  BY <1>1, <1>3 DEF KeyActive, SystemExecuting, Executing
<1>9. KeyWithinLimits'
  <2> SUFFICES ASSUME NEW k \in Keys
               PROVE  /\ KeyLimit[k] > 0 => Cardinality(KeyActive(k)') <= KeyLimit[k]
                      /\ Cardinality(KeyNonTerminal(k)') <= KeyQuota(k)
    BY DEF KeyWithinLimits, KeyQuota
  <2>1. KeyLimit[k] > 0 => Cardinality(KeyActive(k)') <= KeyLimit[k]
    BY <1>8 DEF AdmissionInv, KeyWithinLimits
  <2>2. CASE k = KeyOf[t]
    <3>1. Cardinality(KeyNonTerminal(k)) < KeyQuota(k)
      BY <1>1, <2>2 DEF KeyAdmits, KeyQuota
    <3>2. KeyNonTerminal(k)' \subseteq KeyNonTerminal(k) \cup {t}
      BY <1>3, OnlyJoins
    <3>3. Cardinality(KeyNonTerminal(k)') <= KeyQuota(k)
      BY <3>1, <3>2, CountedSets, NextCountedSets, Limits, RoomForOne
    <3> QED BY <2>1, <3>3
  <2>3. CASE k # KeyOf[t]
    <3>1. KeyNonTerminal(k)' = KeyNonTerminal(k)
      BY <1>3, <2>3, OnlyJoins
    <3> QED BY <2>1, <3>1 DEF AdmissionInv, KeyWithinLimits, KeyQuota
  <2> QED BY <2>2, <2>3
<1>10. SystemWithinLimits'
  <2>1. SystemOpen' \subseteq SystemOpen \cup {t}
    BY <1>3, OnlyJoins
  <2>2. MaxExecuting + QueueHighWatermark \in Nat
    BY Limits
  <2>3. Cardinality(SystemOpen') <= MaxExecuting + QueueHighWatermark
    BY <1>1, <2>1, <2>2, CountedSets, NextCountedSets, RoomForOne
  <2> QED BY <1>8, <2>3 DEF AdmissionInv, SystemWithinLimits, SystemOpen
<1> QED BY <1>4, <1>5, <1>7, <1>9, <1>10 DEF AdmissionInv, TxOK

\* A claim takes its lease: it found an execution slot of its key and of the system
\* under locks it still holds.
LEMMA LeaseKeepsInv ==
    ASSUME AdmissionInv, TypeOK', NEW t \in Tasks, TakeLease(t)
    PROVE  AdmissionInv'
<1>0. /\ TypeOK /\ task \in [Tasks -> TaskRow]
      /\ TxOK(t) /\ tx[t].pc = "claim_update" /\ KeyOf[t] \in Keys
      /\ End(t) /\ UNCHANGED answer
  BY Limits DEF AdmissionInv, TxOK, TypeOK, TablesTypeOK, TakeLease, At
<1>1. /\ task[t].status = "queued" /\ tx[t].account \in Accounts
      /\ lock[KeyOf[t]] = t /\ lock["system"] = t
      /\ KeyHasSlot(KeyOf[t]) /\ Cardinality(SystemExecuting) < MaxExecuting
  BY <1>0 DEF TxOK, Checked, AccountsKnown, ClaimPcs
<1>2. /\ task'[t].status = "reserving" /\ task'[t].account = tx[t].account
      /\ \A u \in Tasks \ {t} : task'[u] = task[u]
  <2> DEFINE a == tx[t].account
  <2>1. a \in Accounts \cup {NoAccount} /\ task' = [task EXCEPT ![t].status = "reserving", ![t].account = a]
    BY <1>1 DEF TakeLease, MoveTo
  <2> HIDE DEF a
  <2>2. task'[t].status = "reserving" /\ task'[t].account = a /\ \A u \in Tasks \ {t} : task'[u] = task[u]
    BY <1>0, <2>1, TableType DEF Status, Executing
  <2> QED BY <2>2 DEF a
<1>3. TxOK(t)' /\ OthersKeepLocks(t)
  BY <1>0, <1>1, <1>2, EndsClean, EndedOK
<1>4. \A u \in Tasks : Existing(u)' = Existing(u)
  BY <1>1, <1>2 DEF Existing
<1>5. ASSUME NEW u \in Tasks \ {t} PROVE TxOK(u)'
  BY <1>1, <1>2, <1>3, <1>4, OthersUntouched
<1>6. RetriesGetTheirTask'
  BY <1>0, <1>4 DEF AdmissionInv, RetriesGetTheirTask
<1>7. /\ \A k \in Keys : KeyNonTerminal(k)' = KeyNonTerminal(k)
      /\ SystemOpen' = SystemOpen
  BY <1>1, <1>2 DEF KeyNonTerminal, SystemOpen, SystemExecuting, Queued, Executing
<1>8. KeyWithinLimits'
  <2> SUFFICES ASSUME NEW k \in Keys
               PROVE  /\ KeyLimit[k] > 0 => Cardinality(KeyActive(k)') <= KeyLimit[k]
                      /\ Cardinality(KeyNonTerminal(k)') <= KeyQuota(k)
    BY DEF KeyWithinLimits, KeyQuota
  <2>1. Cardinality(KeyNonTerminal(k)') <= KeyQuota(k)
    BY <1>7 DEF AdmissionInv, KeyWithinLimits, KeyQuota
  <2>2. CASE k = KeyOf[t]
    <3>1. KeyLimit[k] > 0 => Cardinality(KeyActive(k)) < KeyLimit[k]
      BY <1>1, <2>2, Limits DEF KeyHasSlot
    <3>2. KeyActive(k)' \subseteq KeyActive(k) \cup {t}
      BY <1>2, OnlyJoins
    <3>3. KeyLimit[k] > 0 => Cardinality(KeyActive(k)') <= KeyLimit[k]
      BY <3>1, <3>2, CountedSets, NextCountedSets, Limits, RoomForOne
    <3> QED BY <2>1, <3>3
  <2>3. CASE k # KeyOf[t]
    <3>1. KeyActive(k)' = KeyActive(k)
      BY <1>2, <2>3, OnlyJoins
    <3> QED BY <2>1, <3>1 DEF AdmissionInv, KeyWithinLimits
  <2> QED BY <2>2, <2>3
<1>9. SystemWithinLimits'
  <2>1. SystemExecuting' \subseteq SystemExecuting \cup {t}
    BY <1>2, OnlyJoins
  <2>2. Cardinality(SystemExecuting') <= MaxExecuting
    BY <1>1, <2>1, CountedSets, NextCountedSets, Limits, RoomForOne
  <2> QED BY <1>7, <2>2 DEF AdmissionInv, SystemWithinLimits, SystemOpen
<1> QED BY <1>3, <1>5, <1>6, <1>8, <1>9 DEF AdmissionInv, TxOK

-----------------------------------------------------------------------------
(* The steps around the transactions. *)

\* A task that executes ends or yields: it has no transaction in progress.
LEMMA WorkerKeepsInv ==
    ASSUME AdmissionInv, TypeOK', NEW t \in Tasks, TaskEnds(t) \/ TaskYields(t)
    PROVE  AdmissionInv'
<1>0. /\ TypeOK /\ task \in [Tasks -> TaskRow] /\ task[t].status \in Executing
      /\ tx' = tx /\ lock' = lock /\ answer' = answer /\ TxOK(t)
  BY DEF AdmissionInv, TxOK, TypeOK, TablesTypeOK, TaskEnds, TaskYields, ctlVars
<1>1. \E s \in Status : s \in Terminal \cup {"queued"} /\ task' = [task EXCEPT ![t].status = s]
  BY DEF TaskEnds, TaskYields, Status, Terminal
<1>2. /\ task'[t].status \in Terminal \cup {"queued"} /\ task'[t].account = task[t].account
      /\ \A u \in Tasks \ {t} : task'[u] = task[u]
  <2> PICK s \in Status : s \in Terminal \cup {"queued"} /\ task' = [task EXCEPT ![t].status = s]
    BY <1>1
  <2> DEFINE r == [task[t] EXCEPT !.status = s]
  <2>1. r.status = s /\ r.account = task[t].account
    BY <1>0 DEF TaskRow
  <2>2. task' = [task EXCEPT ![t] = r]
    OBVIOUS
  <2> HIDE DEF r
  <2> QED BY <1>0, <2>1, <2>2
<1>3. NoneStarts
  BY <1>0, <1>2 DEF NoneStarts, Executing, Terminal, Unfinished
<1>4. tx[t].pc \notin AdmitPcs \cup ClaimPcs /\ task[t].account \in Accounts
  BY <1>0 DEF TxOK, Checked, AccountsKnown, Executing
<1>5. Checked(t)' /\ AccountsKnown(t)'
  BY <1>0, <1>2, <1>4 DEF Checked, AccountsKnown, AdmitPcs, ClaimPcs
<1>6. LocksInOrder(t)'
  BY <1>0 DEF TxOK, LocksInOrder
<1>7. OthersKeepLocks(t) /\ AnswersRight
  BY <1>0 DEF OthersKeepLocks, AnswersRight
<1> QED BY <1>2, <1>3, <1>5, <1>6, <1>7, QuietStep DEF TxOK

\* What the transactions do not write.
LEMMA IdleKeepsInv ==
    ASSUME AdmissionInv, TypeOK', task' = task, UNCHANGED ctlVars
    PROVE  AdmissionInv'
<1>1. /\ KeyWithinLimits' /\ SystemWithinLimits'
  BY DEF AdmissionInv, KeyWithinLimits, SystemWithinLimits, KeyActive, KeyNonTerminal, SystemExecuting, Queued
<1>2. RetriesGetTheirTask'
  BY SameCounts DEF AdmissionInv, RetriesGetTheirTask, ctlVars
<1>3. ASSUME NEW t \in Tasks PROVE Checked(t)' /\ AccountsKnown(t)' /\ LocksInOrder(t)'
  <2>1. Checked(t) /\ AccountsKnown(t) /\ LocksInOrder(t) /\ KeyOf[t] \in Keys
    BY Limits DEF AdmissionInv
  <2>2. Checked(t)'
    BY <2>1, SameCounts DEF Checked, ctlVars
  <2>3. AccountsKnown(t)' /\ LocksInOrder(t)'
    BY <2>1 DEF AccountsKnown, LocksInOrder, ctlVars
  <2> QED BY <2>2, <2>3
<1> QED BY <1>1, <1>2, <1>3 DEF AdmissionInv

\* Every step keeps the invariant.
LEMMA StepKeepsAdmissionInv ==
    ASSUME AdmissionInv, [Next]_vars
    PROVE  AdmissionInv'
<1>0. TypeOK /\ \A t \in Tasks : AccountsKnown(t)
  BY DEF AdmissionInv
<1>1. ASSUME NEW t \in Tasks, BeginAdmission(t) \/ Admit(t)
      PROVE  AdmissionInv'
  <2>1. TypeOK'
    BY <1>0, <1>1, AdmitType
  <2> QED BY <1>1, <2>1, AdmitKeepsInv, CandidateKeepsInv, InsertKeepsInv DEF Admit
<1>2. ASSUME NEW t \in Tasks, BeginClaim(t) \/ Claim(t)
      PROVE  AdmissionInv'
  <2>1. TypeOK'
    BY <1>0, <1>2, ClaimType
  <2> QED BY <1>2, <2>1, ClaimKeepsInv, LeaseKeepsInv DEF Claim
<1>3. ASSUME NEW t \in Tasks, TaskEnds(t) \/ TaskYields(t)
      PROVE  AdmissionInv'
  BY <1>0, <1>3, AroundType, WorkerKeepsInv
<1>4. CASE \/ \E a \in Accounts : AccountHealthChanges(a) \/ BalanceSynced(a)
           \/ UpdateSystemCapacity \/ UNCHANGED vars
  <2>1. TypeOK'
    BY <1>0, <1>4, AroundType
  <2>2. task' = task /\ UNCHANGED ctlVars
    BY <1>4 DEF AccountHealthChanges, BalanceSynced, UpdateSystemCapacity, vars, ctlVars
  <2> QED BY <2>1, <2>2, IdleKeepsInv
<1> QED BY <1>1, <1>2, <1>3, <1>4 DEF Next

\* It holds at the start: nothing is admitted and no transaction runs.
LEMMA InitAdmissionInv == Init => AdmissionInv
<1> SUFFICES ASSUME Init PROVE AdmissionInv
  OBVIOUS
<1>0. NewTask \in TaskRow /\ NewTask.status = "absent" /\ NewReservation \in ResRow
  BY DEF NewTask, NewReservation, TaskRow, ResRow, Status, Reason
<1>1. /\ TablesTypeOK
      /\ \A t \in Tasks : task[t].status = "absent"
  BY <1>0 DEF Init, TablesInit, TablesTypeOK, OutboxRow
<1>2. lock \in [Lockable -> Tasks \cup {0}] /\ tx \in [Tasks -> Tx] /\ answer \in [Tasks -> Answer]
  BY DEF Init, NoTx, Tx, Pc, Answer
<1>3. TypeOK
  BY <1>1, <1>2, AdmissionAssumptions DEF Init, TypeOK
<1>4. /\ \A k \in Keys : KeyActive(k) = {} /\ KeyNonTerminal(k) = {}
      /\ SystemExecuting = {} /\ SystemExecuting \cup Queued = {}
      /\ \A t \in Tasks : Existing(t) = {}
  BY <1>1 DEF KeyActive, KeyNonTerminal, SystemExecuting, Queued, Existing, Executing
<1>5. /\ \A k \in Keys : Cardinality(KeyActive(k)) = 0 /\ Cardinality(KeyNonTerminal(k)) = 0
      /\ Cardinality(SystemExecuting) = 0 /\ Cardinality(SystemExecuting \cup Queued) = 0
      /\ \A t \in Tasks : Cardinality(Existing(t)) = 0 
  BY <1>4, FS_EmptySet, Zenon
<1>6. KeyWithinLimits
  <2> SUFFICES ASSUME NEW k \in Keys
               PROVE  /\ KeyLimit[k] > 0 => Cardinality(KeyActive(k)) <= KeyLimit[k]
                      /\ Cardinality(KeyNonTerminal(k)) <= KeyQuota(k)
    BY DEF KeyWithinLimits, KeyQuota
  <2> QED BY <1>5, Limits
<1>7. SystemWithinLimits
  BY <1>5, Limits DEF SystemWithinLimits
<1>8. RetriesGetTheirTask
  <2>1. \A t \in Tasks : answer[t] # "existing" /\ answer[t] # "error"
    BY DEF Init
  <2>2. \A t \in Tasks : Cardinality(Existing(t)) <= 1
    BY <1>5
  <2> QED BY <2>1, <2>2 DEF RetriesGetTheirTask
<1>9. ASSUME NEW t \in Tasks PROVE Checked(t) /\ AccountsKnown(t) /\ LocksInOrder(t)
  <2>1. tx[t].pc = "idle" /\ t # 0 /\ \A x \in Lockable : lock[x] = 0
    BY TableAssumptions DEF Init, NoTx
  <2>2. Checked(t) /\ AccountsKnown(t)
    BY <1>1, <2>1 DEF Checked, AccountsKnown, AdmitPcs, ClaimPcs
  <2>3. LocksInOrder(t)
    BY <2>1, LockKinds DEF LocksInOrder
  <2> QED BY <2>2, <2>3
<1> QED BY <1>3, <1>6, <1>7, <1>8, <1>9 DEF AdmissionInv

-----------------------------------------------------------------------------
(* The sum of the credits that reservations hold.  The library's sum is a   *)
(* recursive function over the subsets of a set, which removes the elements *)
(* in the order of CHOOSE.  Such a function exists, is the only one, and    *)
(* the order does not matter; the induction over sets is replaced by a      *)
(* smallest counterexample.                                                 *)

\* A set of numbers has a smallest one.
LEMMA SmallestNumber ==
    ASSUME NEW N \in SUBSET Nat, N # {}
    PROVE  \E n \in N : \A m \in N : n <= m
<1>1. \E n \in N : \A m \in N : ~(<<m, n>> \in OpToRel(<, Nat))
  BY WFMin, NatLessThanWellFounded, Zenon
<1>2. PICK n \in N : \A m \in N : ~(<<m, n>> \in OpToRel(<, Nat))
  BY <1>1, Zenon
<1>3. \A m \in N : ~(m < n)
  BY <1>2 DEF OpToRel
<1> QED BY <1>3

\* A collection of sets of tasks has a smallest member.
LEMMA SmallestSet ==
    ASSUME NEW B \in SUBSET SUBSET Tasks, B # {}
    PROVE  \E s \in B : \A r \in B : Cardinality(s) <= Cardinality(r)
<1>1. \A s \in B : Cardinality(s) \in Nat
  BY FewerTasks
<1> DEFINE N == {n \in Nat : \E s \in B : Cardinality(s) = n}
<1>2. N \subseteq Nat /\ N # {}
  BY <1>1, Zenon
<1> HIDE DEF N
<1>3. PICK n \in N : \A m \in N : n <= m
  BY <1>2, SmallestNumber
<1>4. \A m \in N : n <= m
  BY <1>3
<1>5. PICK s \in B : Cardinality(s) = n
  BY <1>3 DEF N
<1>6. \A r \in B : Cardinality(r) \in N
  BY <1>1 DEF N
<1> QED BY <1>4, <1>5, <1>6

\* Removing an element makes a set of tasks smaller.
LEMMA OneFewer ==
    ASSUME NEW s \in SUBSET Tasks, NEW x \in s
    PROVE  /\ s \ {x} \in SUBSET Tasks
           /\ Cardinality(s) \in Nat /\ Cardinality(s \ {x}) \in Nat
           /\ Cardinality(s \ {x}) = Cardinality(s) - 1
<1>1. IsFiniteSet(s)
  BY FS_Subset, AdmissionAssumptions
<1> QED BY <1>1, FS_RemoveElement, FewerTasks

\* The element that the sum takes out of a set next.
Taken(s) == CHOOSE x \in s : TRUE

\* What a recursive function over the subsets of S is that adds the costs up.
AddsUp(f, S) ==
    f = [s \in SUBSET S |-> IF s = {} THEN 0 ELSE Cost[Taken(s)] + f[s \ {Taken(s)}]]

\* The sum that the library computes, and the sum over any set of tasks.
LibrarySum(S) == CHOOSE f : AddsUp(f, S)
CostSum == LibrarySum(Tasks)

\* The reserved credits of an account are that sum.
LEMMA HeldCostIsSum ==
    ASSUME NEW a
    PROVE  HeldCost(a) = LibrarySum(HeldBy(a))[HeldBy(a)]
BY DEF HeldCost, MapThenSumSet, MapThenFoldSet, LibrarySum, AddsUp, Taken

\* The element taken is one of the set.
LEMMA TakenIn ==
    ASSUME NEW s \in SUBSET Tasks, s # {}
    PROVE  Taken(s) \in s /\ Taken(s) \in Tasks /\ Cost[Taken(s)] \in Nat
<1>1. Taken(s) \in s
  BY DEF Taken
<1> QED BY <1>1, AdmissionAssumptions

\* A function that adds up the sets of at most n tasks.
AddsUpTo(f, n) ==
    /\ f \in [SUBSET Tasks -> Nat]
    /\ \A s \in SUBSET Tasks : Cardinality(s) <= n =>
         f[s] = IF s = {} THEN 0 ELSE Cost[Taken(s)] + f[s \ {Taken(s)}]

\* From sets of n tasks to sets of n + 1.
LEMMA AddsUpNext ==
    ASSUME NEW n \in Nat, NEW f, AddsUpTo(f, n)
    PROVE  \E g : AddsUpTo(g, n + 1)
<1> DEFINE val(s) == IF Cardinality(s) <= n THEN f[s]
                     ELSE IF s = {} THEN 0 ELSE Cost[Taken(s)] + f[s \ {Taken(s)}]
           g == [s \in SUBSET Tasks |-> val(s)]
<1>1. \A s \in SUBSET Tasks : f[s] \in Nat
  BY DEF AddsUpTo
<1>2. ASSUME NEW s \in SUBSET Tasks PROVE val(s) \in Nat
  <2>1. CASE s = {}
    BY <1>1, <2>1
  <2>2. CASE s # {}
    <3>1. s \ {Taken(s)} \in SUBSET Tasks /\ Cost[Taken(s)] \in Nat
      BY <2>2, TakenIn
    <3>2. f[s \ {Taken(s)}] \in Nat /\ f[s] \in Nat
      BY <1>1, <3>1
    <3> QED BY <2>2, <3>1, <3>2
  <2> QED BY <2>1, <2>2
<1>3. ASSUME NEW s \in SUBSET Tasks, Cardinality(s) <= n + 1
      PROVE  val(s) = IF s = {} THEN 0 ELSE Cost[Taken(s)] + val(s \ {Taken(s)})
  <2>1. CASE s = {}
    BY <2>1 DEF AddsUpTo
  <2>2. CASE s # {}
    <3> DEFINE x == Taken(s)
    <3>1. x \in s
      BY <2>2, TakenIn
    <3> HIDE DEF x
    <3>2. s \ {x} \in SUBSET Tasks /\ Cardinality(s \ {x}) <= n /\ Cardinality(s) \in Nat
      BY <1>3, <3>1, OneFewer
    <3>3. val(s \ {x}) = f[s \ {x}]
      BY <3>2
    <3>4. val(s) = Cost[x] + f[s \ {x}]
      BY <2>2 DEF AddsUpTo, x
    <3> HIDE DEF val
    <3> QED BY <2>2, <3>3, <3>4 DEF x
  <2> QED BY <2>1, <2>2
<1> HIDE DEF val
<1>4. g \in [SUBSET Tasks -> Nat] /\ \A s \in SUBSET Tasks : g[s] = val(s)
  BY <1>2
<1>5. ASSUME NEW s \in SUBSET Tasks, Cardinality(s) <= n + 1
      PROVE  g[s] = IF s = {} THEN 0 ELSE Cost[Taken(s)] + g[s \ {Taken(s)}]
  <2>1. s \ {Taken(s)} \in SUBSET Tasks
    OBVIOUS
  <2> QED BY <1>3, <1>4, <1>5, <2>1
<1> HIDE DEF g
<1> QED BY <1>4, <1>5 DEF AddsUpTo

\* Some function adds up all sets of tasks.
LEMMA SumExists == \E f : AddsUpTo(f, Cardinality(Tasks))
<1> DEFINE Bad == {n \in Nat : ~\E f : AddsUpTo(f, n)}
<1>1. Cardinality(Tasks) \in Nat
  BY FewerTasks
<1>2. 0 \notin Bad
  <2> DEFINE f == [s \in SUBSET Tasks |-> 0]
  <2>1. f \in [SUBSET Tasks -> Nat]
    OBVIOUS
  <2>2. ASSUME NEW s \in SUBSET Tasks, Cardinality(s) <= 0 PROVE s = {} /\ f[s] = 0
    <3>1. IsFiniteSet(s) /\ Cardinality(s) = 0
      BY <2>2, FS_Subset, AdmissionAssumptions, FewerTasks
    <3>2. s = {}
      BY <3>1, FS_EmptySet, Zenon
    <3> QED BY <3>2
  <2> HIDE DEF f
  <2>3. AddsUpTo(f, 0)
    BY <2>1, <2>2 DEF AddsUpTo
  <2> QED BY <2>3
<1>3. Bad = {}
  <2> SUFFICES ASSUME Bad # {} PROVE FALSE
    OBVIOUS
  <2>1. PICK n \in Bad : \A m \in Bad : n <= m
    BY SmallestNumber
  <2>2. n \in Nat /\ n # 0 /\ ~\E f : AddsUpTo(f, n)
    BY <1>2
  <2>3. n - 1 \in Nat /\ (n - 1) + 1 = n /\ ~(n <= n - 1)
    BY <2>2
  <2>4. \E f : AddsUpTo(f, n - 1)
    BY <2>1, <2>3
  <2>5. \E f : AddsUpTo(f, (n - 1) + 1)
    BY <2>3, <2>4, AddsUpNext
  <2> QED BY <2>2, <2>3, <2>5
<1> QED BY <1>1, <1>3

\* The sum over all sets of tasks and its equation.
LEMMA CostSumDef ==
    /\ CostSum \in [SUBSET Tasks -> Nat]
    /\ CostSum[{}] = 0
    /\ \A s \in SUBSET Tasks : s # {} => CostSum[s] = Cost[Taken(s)] + CostSum[s \ {Taken(s)}]
<1>1. PICK f : AddsUpTo(f, Cardinality(Tasks))
  BY SumExists
<1>2. AddsUp(f, Tasks)
  <2>1. f \in [SUBSET Tasks -> Nat] /\ \A s \in SUBSET Tasks : Cardinality(s) <= Cardinality(Tasks)
    BY <1>1, FewerTasks DEF AddsUpTo
  <2> QED BY <1>1, <2>1 DEF AddsUpTo, AddsUp
<1>3. AddsUp(CostSum, Tasks)
  BY <1>2, Zenon DEF CostSum, LibrarySum
<1>4. CostSum[{}] = 0
  BY <1>3 DEF AddsUp
<1>5. ASSUME NEW s \in SUBSET Tasks, s # {}
      PROVE  CostSum[s] = Cost[Taken(s)] + CostSum[s \ {Taken(s)}]
  BY <1>3, <1>5 DEF AddsUp
<1>6. \A s \in SUBSET Tasks : CostSum[s] \in Nat
  <2> DEFINE Bad == {s \in SUBSET Tasks : CostSum[s] \notin Nat}
  <2> SUFFICES ASSUME Bad # {} PROVE FALSE
    OBVIOUS
  <2>1. PICK s \in Bad : \A r \in Bad : Cardinality(s) <= Cardinality(r)
    BY SmallestSet
  <2>2. s \in SUBSET Tasks /\ CostSum[s] \notin Nat /\ s # {}
    BY <1>4
  <2>3. PICK x : x = Taken(s)
    OBVIOUS
  <2>4. x \in s /\ Cost[x] \in Nat
    BY <2>2, <2>3, TakenIn
  <2>5. s \ {x} \in SUBSET Tasks /\ ~(Cardinality(s) <= Cardinality(s \ {x}))
    BY <2>2, <2>4, OneFewer
  <2>6. CostSum[s \ {x}] \in Nat
    BY <2>1, <2>5
  <2> QED BY <1>5, <2>2, <2>3, <2>4, <2>6
<1>7. CostSum = [s \in SUBSET Tasks |-> IF s = {} THEN 0 ELSE Cost[Taken(s)] + CostSum[s \ {Taken(s)}]]
  BY <1>3, Zenon DEF AddsUp
<1>8. CostSum \in [SUBSET Tasks -> Nat]
  <2> DEFINE val(s) == IF s = {} THEN 0 ELSE Cost[Taken(s)] + CostSum[s \ {Taken(s)}]
  <2>1. CostSum = [s \in SUBSET Tasks |-> val(s)]
    BY <1>7
  <2> HIDE DEF val
  <2> QED BY <1>6, <2>1
<1> QED BY <1>4, <1>5, <1>8

\* The library's sum over a set of tasks is the same number.
LEMMA LibrarySumIs ==
    ASSUME NEW S \in SUBSET Tasks
    PROVE  LibrarySum(S)[S] = CostSum[S]
<1> DEFINE g == [s \in SUBSET S |-> CostSum[s]]
<1>1. AddsUp(g, S)
  <2>1. ASSUME NEW s \in SUBSET S
        PROVE  g[s] = IF s = {} THEN 0 ELSE Cost[Taken(s)] + g[s \ {Taken(s)}]
    <3>1. s \in SUBSET Tasks /\ s \ {Taken(s)} \in SUBSET S
      OBVIOUS
    <3>2. g[s] = CostSum[s] /\ g[s \ {Taken(s)}] = CostSum[s \ {Taken(s)}]
      BY <3>1
    <3> HIDE DEF g
    <3> QED BY <3>1, <3>2, CostSumDef
  <2>2. g = [s \in SUBSET S |-> g[s]]
    OBVIOUS
  <2> HIDE DEF g
  <2> QED BY <2>1, <2>2 DEF AddsUp
<1>2. AddsUp(LibrarySum(S), S)
  BY <1>1, Zenon DEF LibrarySum
<1> DEFINE f == LibrarySum(S)
<1>3. ASSUME NEW s \in SUBSET S
      PROVE  f[s] = IF s = {} THEN 0 ELSE Cost[Taken(s)] + f[s \ {Taken(s)}]
  BY <1>2 DEF AddsUp
<1> HIDE DEF f
<1> DEFINE Bad == {s \in SUBSET S : f[s] # CostSum[s]}
<1>4. Bad = {}
  <2> SUFFICES ASSUME Bad # {} PROVE FALSE
    OBVIOUS
  <2>0. Bad \in SUBSET SUBSET Tasks
    OBVIOUS
  <2>1. PICK s \in Bad : \A r \in Bad : Cardinality(s) <= Cardinality(r)
    BY <2>0, SmallestSet
  <2>2. s \in SUBSET S /\ s \in SUBSET Tasks /\ f[s] # CostSum[s] /\ s # {}
    BY <1>3, CostSumDef
  <2>3. PICK x : x = Taken(s)
    OBVIOUS
  <2>4. x \in s
    BY <2>2, <2>3, TakenIn
  <2>5. s \ {x} \in SUBSET S /\ ~(Cardinality(s) <= Cardinality(s \ {x}))
    BY <2>2, <2>4, OneFewer
  <2>6. f[s \ {x}] = CostSum[s \ {x}]
    BY <2>1, <2>5
  <2> QED BY <1>3, <2>2, <2>3, <2>6, CostSumDef
<1>5. f[S] = CostSum[S]
  BY <1>4
<1> QED BY <1>5 DEF f

\* Any element may be taken out first.
LEMMA CostSumRemove ==
    ASSUME NEW S \in SUBSET Tasks, NEW t \in S
    PROVE  CostSum[S] = Cost[t] + CostSum[S \ {t}]
<1> DEFINE Bad == {s \in SUBSET Tasks : \E x \in s : CostSum[s] # Cost[x] + CostSum[s \ {x}]}
<1>1. Bad = {}
  <2> SUFFICES ASSUME Bad # {} PROVE FALSE
    OBVIOUS
  <2>1. PICK s \in Bad : \A r \in Bad : Cardinality(s) <= Cardinality(r)
    BY SmallestSet
  <2>2. PICK x \in s : CostSum[s] # Cost[x] + CostSum[s \ {x}]
    OBVIOUS
  <2>3. PICK y : y = Taken(s)
    OBVIOUS
  <2>4. /\ s \in SUBSET Tasks /\ y \in s /\ y # x
        /\ CostSum[s] = Cost[y] + CostSum[s \ {y}]
    BY <2>2, <2>3, TakenIn, CostSumDef
  <2>5. /\ s \ {y} \in SUBSET Tasks /\ ~(Cardinality(s) <= Cardinality(s \ {y})) /\ x \in s \ {y}
        /\ s \ {x} \in SUBSET Tasks /\ ~(Cardinality(s) <= Cardinality(s \ {x})) /\ y \in s \ {x}
    BY <2>4, OneFewer
  <2> HIDE DEF Bad
  <2>6. s \ {y} \notin Bad /\ s \ {x} \notin Bad
    BY <2>1, <2>5
  <2>7. CostSum[s \ {y}] = Cost[x] + CostSum[(s \ {y}) \ {x}]
    BY <2>5, <2>6 DEF Bad
  <2>8. CostSum[s \ {x}] = Cost[y] + CostSum[(s \ {x}) \ {y}]
    BY <2>5, <2>6 DEF Bad
  <2>9. (s \ {y}) \ {x} = (s \ {x}) \ {y} /\ (s \ {x}) \ {y} \in SUBSET Tasks
    BY <2>5
  <2>10. Cost[x] \in Nat /\ Cost[y] \in Nat /\ CostSum[(s \ {x}) \ {y}] \in Nat
    BY <2>4, <2>9, AdmissionAssumptions, CostSumDef
  <2> DEFINE rest == CostSum[(s \ {x}) \ {y}]
  <2>11. CostSum[s \ {y}] = Cost[x] + rest /\ CostSum[s \ {x}] = Cost[y] + rest /\ rest \in Nat
    BY <2>7, <2>8, <2>9, <2>10
  <2> HIDE DEF rest
  <2> QED BY <2>2, <2>4, <2>10, <2>11
<1> QED BY <1>1

\* A larger set has no smaller sum.
LEMMA CostSumGrows ==
    ASSUME NEW S \in SUBSET Tasks, NEW T \in SUBSET S
    PROVE  CostSum[T] <= CostSum[S]
<1> DEFINE Bad == {s \in SUBSET Tasks : T \subseteq s /\ ~(CostSum[T] <= CostSum[s])}
<1>0. \A s \in SUBSET Tasks : CostSum[s] \in Nat
  BY CostSumDef
<1>1. Bad = {}
  <2> SUFFICES ASSUME Bad # {} PROVE FALSE
    OBVIOUS
  <2>1. PICK s \in Bad : \A r \in Bad : Cardinality(s) <= Cardinality(r)
    BY SmallestSet
  <2>2. s \in SUBSET Tasks /\ T \subseteq s /\ ~(CostSum[T] <= CostSum[s]) /\ s # T
    BY <1>0
  <2>3. PICK x \in s : x \notin T
    BY <2>2
  <2>4. s \ {x} \in SUBSET Tasks /\ T \subseteq s \ {x} /\ ~(Cardinality(s) <= Cardinality(s \ {x}))
    BY <2>2, <2>3, OneFewer
  <2>5. CostSum[T] <= CostSum[s \ {x}]
    BY <2>1, <2>4
  <2>6. CostSum[s] = Cost[x] + CostSum[s \ {x}] /\ Cost[x] \in Nat
    BY <2>2, CostSumRemove, AdmissionAssumptions
  <2> QED BY <1>0, <2>2, <2>4, <2>5, <2>6
<1> QED BY <1>1

\* The reserved credits of an account: a number, which falls with the reservations
\* and grows by at most the cost of a task that joins.
LEMMA HeldCostIs == \A a : HeldBy(a) \in SUBSET Tasks /\ HeldCost(a) = CostSum[HeldBy(a)]
<1>1. \A a : HeldBy(a) \in SUBSET Tasks
  BY DEF HeldBy
<1> QED BY <1>1, HeldCostIsSum, LibrarySumIs

\* A sum is a natural number, falls with its set and grows by a task's cost.
LEMMA CostSumBounds ==
    ASSUME NEW S \in SUBSET Tasks, NEW T \in SUBSET Tasks, NEW t \in Tasks, T \subseteq S \cup {t}
    PROVE  /\ CostSum[S] \in Nat /\ CostSum[T] \in Nat /\ Cost[t] \in Nat
           /\ CostSum[T] <= CostSum[S] + Cost[t]
           /\ t \notin T => CostSum[T] <= CostSum[S]
<1>1. CostSum[S] \in Nat /\ CostSum[T] \in Nat /\ Cost[t] \in Nat
  BY CostSumDef, AdmissionAssumptions
<1>2. ASSUME T \subseteq S PROVE CostSum[T] <= CostSum[S]
  BY <1>2, CostSumGrows
<1>3. CASE t \in T
  <2>1. CostSum[T] = Cost[t] + CostSum[T \ {t}]
    BY <1>3, CostSumRemove
  <2>2. T \ {t} \in SUBSET S /\ T \ {t} \in SUBSET Tasks
    OBVIOUS
  <2>3. CostSum[T \ {t}] <= CostSum[S] /\ CostSum[T \ {t}] \in Nat
    BY <2>2, CostSumGrows, CostSumDef
  <2> QED BY <1>1, <1>3, <2>1, <2>3
<1> QED BY <1>1, <1>2, <1>3

\* The same of the next state.
LEMMA HeldCostNext == \A a : HeldBy(a)' \in SUBSET Tasks /\ HeldCost(a)' = CostSum[HeldBy(a)']
<1>1. \A a : HeldBy(a)' \in SUBSET Tasks
  BY DEF HeldBy
<1>2. \A a : HeldCost(a)' = LibrarySum(HeldBy(a)')[HeldBy(a)']
  BY DEF HeldCost, MapThenSumSet, MapThenFoldSet, LibrarySum, AddsUp, Taken
<1> QED BY <1>1, <1>2, LibrarySumIs

-----------------------------------------------------------------------------
(* Room and credits stay until the admission commits. *)

\* A step of t's transaction spares the accounts that others have locked: their
\* reservations do not grow and their credits stay.
Spares(t) ==
    \A a \in Accounts : lock[a] # 0 /\ lock[a] # t =>
        HeldBy(a)' \subseteq HeldBy(a) /\ balance'[a] = balance[a]

\* What is left for an admission that holds its account's lock.
HasRoom(t, a) ==
    /\ Cardinality(HeldBy(a)) < AccountCapacity(t, a)
    /\ HeldCost(a) + Cost[t] <= balance[a]

\* Capacities are numbers.
LEMMA CapacityType ==
    ASSUME NEW t \in Tasks, NEW a \in Accounts
    PROVE  AccountCapacity(t, a) \in Int
BY TableAssumptions DEF AccountCapacity

\* Fewer reservations and the same credits leave as much room.
LEMMA RoomStays ==
    ASSUME TypeOK, NEW t \in Tasks, NEW a \in Accounts, HasRoom(t, a),
           HeldBy(a)' \subseteq HeldBy(a), balance'[a] = balance[a]
    PROVE  HasRoom(t, a)'
<1>1. HeldBy(a) \in SUBSET Tasks /\ HeldBy(a)' \in SUBSET Tasks
  BY HeldCostIs, HeldCostNext
<1>2. /\ Cardinality(HeldBy(a)) \in Nat /\ Cardinality(HeldBy(a)') \in Nat
      /\ Cardinality(HeldBy(a)') <= Cardinality(HeldBy(a))
  BY <1>1, FewerTasks
<1>3. /\ CostSum[HeldBy(a)] \in Nat /\ CostSum[HeldBy(a)'] \in Nat
      /\ CostSum[HeldBy(a)'] <= CostSum[HeldBy(a)]
  BY <1>1, CostSumDef, CostSumGrows
<1>4. Cost[t] \in Nat /\ balance[a] \in Nat /\ AccountCapacity(t, a) \in Int
  BY CapacityType, AdmissionAssumptions DEF TypeOK
<1>5. Cardinality(HeldBy(a)') < AccountCapacity(t, a)
  BY <1>2, <1>4 DEF HasRoom
<1>6. HeldCost(a)' + Cost[t] <= balance'[a]
  <2>1. HeldCost(a) = CostSum[HeldBy(a)] /\ HeldCost(a)' = CostSum[HeldBy(a)']
    BY HeldCostIs, HeldCostNext
  <2> QED BY <1>3, <1>4, <2>1 DEF HasRoom
<1>7. AccountCapacity(t, a)' = AccountCapacity(t, a)
  BY DEF AccountCapacity
<1> QED BY <1>5, <1>6, <1>7 DEF HasRoom

\* What RoomKept says, by the place of the transaction.
LEMMA RoomKeptIs ==
    ASSUME NEW t \in Tasks
    PROVE  RoomKept(t) <=>
             /\ tx[t].pc \in {"key", "system", "insert"} =>
                  lock[tx[t].account] = t /\ HasRoom(t, tx[t].account)
             /\ tx[t].pc \in {"claim_key", "claim_system", "claim_update"} => lock[tx[t].account] = t
             /\ tx[t].pc \in {"reroute_select", "reroute_target"} => lock[task[t].account] = t
BY DEF RoomKept, HasRoom

\* A transaction that is spared keeps what it has found.
LEMMA SparedKeepsRoom ==
    ASSUME TypeOK, NEW u \in Tasks, RoomKept(u), TxOK(u), tx'[u] = tx[u], task'[u] = task[u],
           \A x \in Lockable : lock'[x] = u <=> lock[x] = u,
           \A a \in Accounts : lock[a] = u =>
              HeldBy(a)' \subseteq HeldBy(a) /\ balance'[a] = balance[a]
    PROVE  RoomKept(u)'
<1> DEFINE a == tx[u].account
           b == task[u].account
           pc == tx[u].pc
<1>1. /\ pc \in {"key", "system", "insert", "claim_key", "claim_system", "claim_update"} => a \in Accounts
      /\ pc \in {"reroute_select", "reroute_target"} => b \in Accounts
      /\ Accounts \subseteq Lockable
  BY LockKinds DEF TxOK, Checked, AccountsKnown, AdmitPcs, ClaimPcs
<1>2. /\ pc \in {"key", "system", "insert"} => lock[a] = u /\ HasRoom(u, a)
      /\ pc \in {"claim_key", "claim_system", "claim_update"} => lock[a] = u
      /\ pc \in {"reroute_select", "reroute_target"} => lock[b] = u
  BY RoomKeptIs
<1>3. tx'[u].account = a /\ task'[u].account = b /\ tx'[u].pc = pc
  OBVIOUS
<1> HIDE DEF a, b, pc
<1>4. pc \in {"key", "system", "insert"} => HasRoom(u, a)'
  <2> SUFFICES ASSUME pc \in {"key", "system", "insert"} PROVE HasRoom(u, a)'
    OBVIOUS
  <2>1. PICK c \in Accounts : c = a
    BY <1>1
  <2>2. HasRoom(u, c) /\ lock[c] = u
    BY <1>2, <2>1
  <2>3. HasRoom(u, c)'
    BY <2>2, RoomStays
  <2> QED BY <1>3, <2>1, <2>3 DEF a
<1>5. RoomKept(u)' <=>
        /\ tx'[u].pc \in {"key", "system", "insert"} =>
             lock'[tx'[u].account] = u /\ HasRoom(u, tx[u].account)'
        /\ tx'[u].pc \in {"claim_key", "claim_system", "claim_update"} => lock'[tx'[u].account] = u
        /\ tx'[u].pc \in {"reroute_select", "reroute_target"} => lock'[task'[u].account] = u
  BY DEF RoomKept, HasRoom
<1> QED BY <1>1, <1>2, <1>3, <1>4, <1>5 DEF a

\* A step without writes to reservations and balances spares everybody.
LEMMA NoWriteSpares ==
    ASSUME UNCHANGED <<res, balance>>, NEW t
    PROVE  Spares(t) /\ \A a : HeldBy(a)' = HeldBy(a)
BY DEF Spares, HeldBy

\* A reservation moves to an account, or is made there: only that account gains.
LEMMA MoveSpares ==
    ASSUME TypeOK, NEW t \in Tasks, NEW a, a \in Accounts => lock[a] \in {0, t}, UNCHANGED balance,
           \/ res' = [res EXCEPT ![t].account = a]
           \/ res' = [res EXCEPT ![t].state = "held", ![t].account = a]
    PROVE  Spares(t) /\ \A b \in Accounts : HeldBy(b)' \subseteq HeldBy(b) \cup {t}
<1>1. res \in [Tasks -> ResRow]
  BY DEF TypeOK, TablesTypeOK
<1>2. \A u \in Tasks \ {t} : res'[u] = res[u]
  BY <1>1
<1>3. res'[t].account = a
  <2>1. res[t] \in ResRow
    BY <1>1
  <2> DEFINE r1 == [res[t] EXCEPT !.account = a]
             r2 == [res[t] EXCEPT !.state = "held", !.account = a]
  <2>2. r1.account = a /\ r2.account = a
    BY <2>1 DEF ResRow
  <2>3. res'[t] = r1 \/ res'[t] = r2
    BY <1>1
  <2> HIDE DEF r1, r2
  <2> QED BY <2>2, <2>3
<1>4. ASSUME NEW b \in Accounts, b # a PROVE HeldBy(b)' \subseteq HeldBy(b)
  BY <1>2, <1>3, <1>4 DEF HeldBy
<1>5. \A b \in Accounts : HeldBy(b)' \subseteq HeldBy(b) \cup {t}
  BY <1>2 DEF HeldBy
<1> QED BY <1>4, <1>5 DEF Spares

\* The locks and places of the others stay when t takes a lock or none.
LEMMA OthersKeep ==
    ASSUME TypeOK, NEW t \in Tasks, \A u \in Tasks \ {t} : tx'[u] = tx[u],
           lock' = lock \/ \E x \in Lockable : Acquire(t, x)
    PROVE  OthersKeepLocks(t)
<1>1. t # 0 /\ 0 \notin Tasks
  BY TableAssumptions
<1> QED BY <1>1 DEF OthersKeepLocks, Acquire, TypeOK

\* A transaction that has ended waits for no account.
LEMMA EndedHasNoRoom ==
    ASSUME NEW t \in Tasks, tx'[t].pc \in {"idle", "select", "candidate", "claim_account", "reroute", "reroute_old"}
    PROVE  RoomKept(t)'
BY DEF RoomKept

\* What one step of t's transaction leaves of the room that all have found.
LEMMA RoomOfAll ==
    ASSUME RoomInv, NEW t \in Tasks, OthersKeepLocks(t), Spares(t),
           \A u \in Tasks \ {t} : task'[u] = task[u], RoomKept(t)'
    PROVE  \A u \in Tasks : RoomKept(u)'
<1> SUFFICES ASSUME NEW u \in Tasks \ {t} PROVE RoomKept(u)'
  OBVIOUS
<1>1. TypeOK /\ RoomKept(u) /\ TxOK(u) /\ u # 0
  BY TableAssumptions DEF RoomInv, AdmissionInv, TxOK
<1>2. \A a \in Accounts : lock[a] = u => HeldBy(a)' \subseteq HeldBy(a) /\ balance'[a] = balance[a]
  BY <1>1 DEF Spares
<1>3. tx'[u] = tx[u] /\ (\A x \in Lockable : lock'[x] = u <=> lock[x] = u) /\ task'[u] = task[u]
  BY DEF OthersKeepLocks
<1> QED BY <1>1, <1>2, <1>3, SparedKeepsRoom

\* An answer without a write.
LEMMA AnsweredKeepsRoom ==
    ASSUME RoomInv, NEW t \in Tasks, NEW how, Answered(t, how), UNCHANGED <<task, res, balance>>
    PROVE  \A u \in Tasks : RoomKept(u)'
<1>1. TypeOK /\ End(t)
  BY DEF RoomInv, AdmissionInv, Answered
<1>2. RoomKept(t)' /\ OthersKeepLocks(t)
  BY <1>1, EndsClean, EndedHasNoRoom
<1> QED BY <1>2, NoWriteSpares, RoomOfAll

\* A step that goes on without a write.
LEMMA GoesOnKeepsRoom ==
    ASSUME RoomInv, NEW t \in Tasks, \A u \in Tasks \ {t} : tx'[u] = tx[u],
           lock' = lock \/ \E x \in Lockable : Acquire(t, x), UNCHANGED <<task, res, balance>>,
           RoomKept(t)'
    PROVE  \A u \in Tasks : RoomKept(u)'
<1>1. TypeOK
  BY DEF RoomInv, AdmissionInv
<1>2. \A u \in Tasks \ {t} : task'[u] = task[u]
  OBVIOUS
<1> QED BY <1>1, <1>2, NoWriteSpares, OthersKeep, RoomOfAll

\* What an account's counts find, they find under the lock too.
LEMMA SameRoom ==
    ASSUME UNCHANGED <<res, balance>>, NEW t, NEW a
    PROVE  HasRoom(t, a)' <=> HasRoom(t, a)
<1>1. HeldBy(a)' = HeldBy(a)
  BY DEF HeldBy
<1>2. HeldCost(a)' = HeldCost(a)
  BY <1>1, HeldCostIs, HeldCostNext
<1> QED BY <1>1, <1>2 DEF HasRoom, AccountCapacity

\* The check under the account's lock.
LEMMA FitsHasRoom ==
    ASSUME TypeOK, NEW t \in Tasks, NEW a \in Accounts, Fits(t, a)
    PROVE  HasRoom(t, a)
<1>1. HeldCost(a) \in Nat /\ balance[a] \in Nat /\ Cost[t] \in Nat /\ Protected[a] \in Nat
  BY HeldCostIs, CostSumDef, AdmissionAssumptions DEF TypeOK
<1> QED BY <1>1 DEF Fits, Spendable, HasRoom

\* An admission passes a candidate over, excludes it or begins again.
LEMMA CandidateKeepsRoom ==
    ASSUME RoomInv, NEW t \in Tasks, PassCandidate(t) \/ ExcludeCandidate(t) \/ AdmissionDeadlocked(t)
    PROVE  \A u \in Tasks : RoomKept(u)'
<1>0. /\ TypeOK /\ tx \in [Tasks -> Tx] /\ tx[t] \in Tx /\ lock \in [Lockable -> Tasks \cup {0}]
      /\ AccountsKnown(t) /\ t # 0 /\ 0 \notin Tasks
  BY TableAssumptions DEF RoomInv, AdmissionInv, TypeOK
<1>1. UNCHANGED <<task, res, balance>>
  BY DEF PassCandidate, ExcludeCandidate, AdmissionDeadlocked, sysVars
<1>2. CASE PassCandidate(t)
  <2>1. CASE Answered(t, "refused")
    BY <1>1, <2>1, AnsweredKeepsRoom
  <2>2. ASSUME NEW b, NEW rest, Acquire(t, tx[t].account),
               tx' = [tx EXCEPT ![t].account = b, ![t].found = rest]
        PROVE  \A u \in Tasks : RoomKept(u)'
    <3>1. tx[t].pc = "candidate" /\ tx[t].account \in Lockable
      BY <1>0, <1>2, LockKinds DEF PassCandidate, At, AccountsKnown, AdmitPcs
    <3>2. tx'[t].pc = "candidate" /\ \A u \in Tasks \ {t} : tx'[u] = tx[u]
      BY <1>0, <2>2, <3>1 DEF Tx
    <3>3. RoomKept(t)'
      BY <3>2, EndedHasNoRoom
    <3> QED BY <1>1, <2>2, <3>1, <3>2, <3>3, GoesOnKeepsRoom
  <2> QED BY <1>2, <2>1, <2>2 DEF PassCandidate
<1>3. CASE ExcludeCandidate(t)
  <2>1. tx'[t].pc = "select" /\ \A u \in Tasks \ {t} : tx'[u] = tx[u]
    BY <1>0, <1>3 DEF ExcludeCandidate, Tx
  <2>2. OthersKeepLocks(t)
    BY <1>0, <1>3, <2>1 DEF ExcludeCandidate, OthersKeepLocks
  <2>3. RoomKept(t)'
    BY <2>1, EndedHasNoRoom
  <2> QED BY <1>0, <1>1, <2>2, <2>3, NoWriteSpares, RoomOfAll
<1>4. CASE AdmissionDeadlocked(t)
  <2>1. End(t)
    BY <1>4 DEF AdmissionDeadlocked
  <2>2. RoomKept(t)' /\ OthersKeepLocks(t)
    BY <1>0, <2>1, EndsClean, EndedHasNoRoom
  <2> QED BY <1>0, <1>1, <2>2, NoWriteSpares, RoomOfAll
<1> QED BY <1>2, <1>3, <1>4

\* The statements of an admission but the last.
LEMMA AdmitKeepsRoom ==
    ASSUME RoomInv, NEW t \in Tasks,
           BeginAdmission(t) \/ SelectCandidate(t) \/ LockCandidate(t) \/ LockKey(t) \/ lockSystemAdmission(t)
    PROVE  \A u \in Tasks : RoomKept(u)'
<1>0. /\ TypeOK /\ tx \in [Tasks -> Tx] /\ tx[t] \in Tx /\ lock \in [Lockable -> Tasks \cup {0}]
      /\ RoomKept(t) /\ AccountsKnown(t)
  BY DEF RoomInv, AdmissionInv, TypeOK
<1>1. UNCHANGED <<task, res, balance>>
  BY DEF BeginAdmission, SelectCandidate, LockCandidate, LockKey, lockSystemAdmission, sysVars
<1>2. ASSUME NEW how, Answered(t, how) PROVE \A u \in Tasks : RoomKept(u)'
  BY <1>1, <1>2, AnsweredKeepsRoom
<1>3. CASE BeginAdmission(t)
  <2>1. CASE Acquire(t, Idem[t]) /\ GoTo(t, "select")
    <3>1. tx'[t].pc = "select" /\ \A u \in Tasks \ {t} : tx'[u] = tx[u]
      BY <1>0, <2>1 DEF GoTo, Tx
    <3>2. RoomKept(t)'
      BY <3>1, EndedHasNoRoom
    <3>3. Idem[t] \in Lockable
      BY LockKinds
    <3> QED BY <1>1, <2>1, <3>1, <3>2, <3>3, GoesOnKeepsRoom
  <2> QED BY <1>2, <1>3, <2>1 DEF BeginAdmission
<1>4. CASE SelectCandidate(t)
  <2>1. ASSUME UNCHANGED lock, NEW a \in Accounts, NEW found,
               tx' = [tx EXCEPT ![t].pc = "candidate", ![t].account = a, ![t].found = found]
        PROVE  \A u \in Tasks : RoomKept(u)'
    <3>1. tx'[t].pc = "candidate" /\ \A u \in Tasks \ {t} : tx'[u] = tx[u]
      BY <1>0, <2>1 DEF Tx
    <3>2. RoomKept(t)'
      BY <3>1, EndedHasNoRoom
    <3> QED BY <1>1, <2>1, <3>1, <3>2, GoesOnKeepsRoom
  <2>2. CASE Candidates(t) = {}
    BY <1>2, <1>4, <2>2 DEF SelectCandidate
  <2>3. CASE Candidates(t) # {}
    <3>1. UNCHANGED lock
      BY <1>4, <2>3 DEF SelectCandidate
    <3>2. PICK a \in Candidates(t) :
             tx' = [tx EXCEPT ![t].pc = "candidate", ![t].account = a, ![t].found = Candidates(t)]
      BY <1>4, <2>3 DEF SelectCandidate
    <3>3. a \in Accounts
      BY DEF Candidates
    <3> QED BY <2>1, <3>1, <3>2, <3>3
  <2> QED BY <2>2, <2>3
<1>5. CASE LockCandidate(t)
  <2>0. PICK a \in Accounts : a = tx[t].account
    BY <1>0, <1>5 DEF LockCandidate, At, AccountsKnown, AdmitPcs
  <2>1. CASE Acquire(t, a) /\ GoTo(t, "key") /\ Fits(t, a)
    <3>1. tx'[t].pc = "key" /\ tx'[t].account = a /\ \A u \in Tasks \ {t} : tx'[u] = tx[u]
      BY <1>0, <2>0, <2>1 DEF GoTo, Tx
    <3>2. a \in Lockable
      BY LockKinds
    <3>3. lock'[a] = t /\ HasRoom(t, a)'
      BY <1>0, <1>1, <2>1, <3>2, LockTaken, FitsHasRoom, SameRoom
    <3>4. RoomKept(t)'
      BY <3>1, <3>3 DEF RoomKept, HasRoom
    <3> QED BY <1>1, <2>1, <3>1, <3>2, <3>4, GoesOnKeepsRoom
  <2> QED BY <1>5, <2>0, <2>1 DEF LockCandidate
<1>6. ASSUME NEW x \in Lockable \ Accounts, Acquire(t, x), NEW pc \in {"system", "insert"}, GoTo(t, pc),
             tx[t].pc \in {"key", "system"}
      PROVE  \A u \in Tasks : RoomKept(u)'
  <2>0. PICK a \in Accounts : a = tx[t].account
    BY <1>0, <1>6 DEF AccountsKnown, AdmitPcs
  <2>1. tx'[t].pc = pc /\ tx'[t].account = a /\ \A u \in Tasks \ {t} : tx'[u] = tx[u]
    BY <1>0, <1>6, <2>0 DEF GoTo, Tx
  <2>2. lock[a] = t /\ HasRoom(t, a)
    BY <1>0, <1>6, <2>0, RoomKeptIs
  <2>3. lock'[a] = t /\ HasRoom(t, a)'
    BY <1>0, <1>1, <1>6, <2>2, LockKinds, LockTaken, SameRoom
  <2>4. RoomKept(t)'
    BY <1>6, <2>1, <2>3 DEF RoomKept, HasRoom
  <2> QED BY <1>1, <1>6, <2>1, <2>4, GoesOnKeepsRoom
<1>7. CASE LockKey(t)
  <2>1. KeyOf[t] \in Lockable \ Accounts
    BY LockKinds
  <2> QED BY <1>2, <1>6, <1>7, <2>1 DEF LockKey, At
<1>8. CASE lockSystemAdmission(t)
  <2>1. "system" \in Lockable \ Accounts
    BY LockKinds
  <2> QED BY <1>2, <1>6, <1>8, <2>1 DEF lockSystemAdmission, At
<1> QED BY <1>3, <1>4, <1>5, <1>7, <1>8

\* The insert writes to the account that the admission has locked.
LEMMA InsertKeepsRoom ==
    ASSUME RoomInv, NEW t \in Tasks, InsertTask(t)
    PROVE  /\ \A u \in Tasks : RoomKept(u)'
           /\ tx[t].account \in Accounts /\ HasRoom(t, tx[t].account)
           /\ task'[t].account = tx[t].account
           /\ \A b \in Accounts : HeldBy(b)' \subseteq HeldBy(b) \cup {t}
           /\ UNCHANGED balance
           /\ \A u \in Tasks \ {t} : answer'[u] = answer[u]
<1>0. /\ TypeOK /\ task \in [Tasks -> TaskRow] /\ answer \in [Tasks -> Answer]
      /\ RoomKept(t) /\ AccountsKnown(t) /\ Checked(t) /\ tx[t].pc = "insert"
  BY DEF RoomInv, AdmissionInv, TypeOK, TablesTypeOK, InsertTask, At
<1>1. PICK a \in Accounts : a = tx[t].account
  BY <1>0 DEF AccountsKnown, AdmitPcs
<1>2. /\ task' = [task EXCEPT ![t].status = "queued", ![t].account = a]
      /\ res' = [res EXCEPT ![t].state = "held", ![t].account = a]
      /\ Answered(t, "admitted") /\ End(t) /\ UNCHANGED balance
  BY <1>0, <1>1 DEF InsertTask, Checked, AdmitPcs, Answered
<1>3. lock[a] = t /\ HasRoom(t, a)
  BY <1>0, <1>1, RoomKeptIs
<1>4. Spares(t) /\ \A b \in Accounts : HeldBy(b)' \subseteq HeldBy(b) \cup {t}
  BY <1>0, <1>2, <1>3, MoveSpares
<1>5. task'[t].account = a /\ \A u \in Tasks \ {t} : task'[u] = task[u]
  BY <1>0, <1>2, TableType DEF Status
<1>6. RoomKept(t)' /\ OthersKeepLocks(t)
  BY <1>0, <1>2, EndsClean, EndedHasNoRoom
<1>7. \A u \in Tasks \ {t} : answer'[u] = answer[u]
  BY <1>0, <1>2 DEF Answered
<1>8. \A u \in Tasks : RoomKept(u)'
  BY <1>4, <1>5, <1>6, RoomOfAll
<1> QED BY <1>1, <1>2, <1>3, <1>4, <1>5, <1>7, <1>8

\* A task is moved or put off on an account that is free or its own.
LEMMA MovedKeepsRoom ==
    ASSUME RoomInv, NEW t \in Tasks, NEW a \in Accounts, lock[a] \in {0, t}, NEW s \in Status,
           MoveTo(t, a, s), End(t), UNCHANGED balance
    PROVE  \A u \in Tasks : RoomKept(u)'
<1>0. TypeOK /\ task \in [Tasks -> TaskRow]
  BY DEF RoomInv, AdmissionInv, TypeOK, TablesTypeOK
<1>1. Spares(t)
  BY <1>0, MoveSpares DEF MoveTo
<1>2. \A u \in Tasks \ {t} : task'[u] = task[u]
  BY <1>0, TableType DEF MoveTo
<1>3. RoomKept(t)' /\ OthersKeepLocks(t)
  BY <1>0, EndsClean, EndedHasNoRoom
<1> QED BY <1>1, <1>2, <1>3, RoomOfAll

\* The statements of a claim.
LEMMA ClaimKeepsRoom ==
    ASSUME RoomInv, NEW t \in Tasks, BeginClaim(t) \/ Claim(t)
    PROVE  \A u \in Tasks : RoomKept(u)'
<1>0. /\ TypeOK /\ tx \in [Tasks -> Tx] /\ tx[t] \in Tx /\ lock \in [Lockable -> Tasks \cup {0}]
      /\ RoomKept(t) /\ AccountsKnown(t) /\ Checked(t)
  BY DEF RoomInv, AdmissionInv, TypeOK
<1>1. UNCHANGED balance
  BY DEF BeginClaim, Claim, LockClaimAccount, Reroute, LockRerouteTarget, LockClaimKey,
         LockClaimSystem, TakeLease, sysVars
<1>2. ASSUME NEW a \in Accounts, lock[a] \in {0, t}, Defer(t, a) PROVE \A u \in Tasks : RoomKept(u)'
  BY <1>1, <1>2, MovedKeepsRoom DEF Defer, Status
<1>3. CASE BeginClaim(t)
  <2>1. tx'[t].pc \in {"claim_account", "reroute"} /\ \A u \in Tasks \ {t} : tx'[u] = tx[u]
    BY <1>0, <1>3 DEF BeginClaim, Tx
  <2>2. RoomKept(t)'
    BY <2>1, EndedHasNoRoom
  <2> QED BY <1>1, <1>3, <2>1, <2>2, GoesOnKeepsRoom DEF BeginClaim
<1>4. ASSUME NEW a \in Accounts, Acquire(t, a), UNCHANGED <<task, res>>,
             tx'[t].pc = "claim_key" /\ tx'[t].account = a, \A u \in Tasks \ {t} : tx'[u] = tx[u]
      PROVE  \A u \in Tasks : RoomKept(u)'
  <2>1. a \in Lockable /\ lock'[a] = t
    BY <1>0, <1>4, LockKinds, LockTaken
  <2>2. RoomKept(t)'
    BY <1>4, <2>1 DEF RoomKept
  <2> QED BY <1>1, <1>4, <2>1, <2>2, GoesOnKeepsRoom
<1>5. CASE LockClaimAccount(t)
  <2>0. PICK a \in Accounts : a = tx[t].account
    BY <1>0, <1>5 DEF LockClaimAccount, At, AccountsKnown, ClaimPcs
  <2>1. CASE Acquire(t, a) /\ GoTo(t, "claim_key") /\ UNCHANGED <<task, res>>
    <3>1. tx'[t].pc = "claim_key" /\ tx'[t].account = a /\ \A u \in Tasks \ {t} : tx'[u] = tx[u]
      BY <1>0, <2>0, <2>1 DEF GoTo, Tx
    <3> QED BY <1>4, <2>1, <3>1
  <2> QED BY <1>2, <1>5, <2>0, <2>1 DEF LockClaimAccount
<1>6. CASE Reroute(t)
  <2>0. UNCHANGED <<task, res>>
    BY <1>6 DEF Reroute
  <2>1. CASE At(t, "reroute") /\ Acquire(t, "reroute") /\ GoTo(t, "reroute_old")
    <3>1. tx'[t].pc = "reroute_old" /\ \A u \in Tasks \ {t} : tx'[u] = tx[u]
      BY <1>0, <2>1 DEF GoTo, Tx
    <3>2. RoomKept(t)' /\ "reroute" \in Lockable
      BY <3>1, LockKinds, EndedHasNoRoom
    <3> QED BY <1>1, <2>0, <2>1, <3>1, <3>2, GoesOnKeepsRoom
  <2>2. CASE At(t, "reroute_old") /\ Acquire(t, task[t].account) /\ GoTo(t, "reroute_select")
    <3>1. tx'[t].pc = "reroute_select" /\ \A u \in Tasks \ {t} : tx'[u] = tx[u]
      BY <1>0, <2>2 DEF GoTo, Tx
    <3>2. PICK a \in Accounts : a = task[t].account
      BY <1>0, <2>2 DEF At, Checked, AccountsKnown, ClaimPcs
    <3>3. a \in Lockable /\ Acquire(t, a)
      BY <2>2, <3>2, LockKinds
    <3>4. lock'[a] = t
      BY <1>0, <3>3, LockTaken
    <3>5. RoomKept(t)'
      BY <2>0, <3>1, <3>2, <3>4 DEF RoomKept
    <3> QED BY <1>1, <2>0, <3>1, <3>3, <3>5, GoesOnKeepsRoom
  <2>3. CASE /\ At(t, "reroute_select") /\ UNCHANGED lock
             /\ tx' = [tx EXCEPT ![t].pc = "reroute_target",
                                 ![t].found = {a \in Accounts : RerouteTarget(t, a)}]
    <3>1. tx'[t].pc = "reroute_target" /\ \A u \in Tasks \ {t} : tx'[u] = tx[u]
      BY <1>0, <2>3 DEF Tx
    <3>2. lock'[task'[t].account] = t
      BY <1>0, <2>0, <2>3 DEF RoomKept, At
    <3>3. RoomKept(t)'
      BY <3>1, <3>2 DEF RoomKept
    <3> QED BY <1>1, <2>0, <2>3, <3>1, <3>3, GoesOnKeepsRoom
  <2> QED BY <1>6, <2>1, <2>2, <2>3 DEF Reroute
<1>7. CASE LockRerouteTarget(t)
  <2>0. tx[t].pc = "reroute_target" /\ tx[t].found \subseteq Accounts
    BY <1>0, <1>7 DEF LockRerouteTarget, At, Tx
  <2>1. ASSUME NEW a \in Accounts, Acquire(t, a), UNCHANGED <<task, res, outbox>>,
               tx' = [tx EXCEPT ![t].pc = "claim_key", ![t].account = a]
        PROVE  \A u \in Tasks : RoomKept(u)'
    <3>1. tx'[t].pc = "claim_key" /\ tx'[t].account = a /\ \A u \in Tasks \ {t} : tx'[u] = tx[u]
      BY <1>0, <2>1 DEF Tx
    <3> QED BY <1>4, <2>1, <3>1
  <2>2. PICK b \in Accounts : b = task[t].account
    BY <1>0, <2>0 DEF Checked, AccountsKnown, ClaimPcs
  <2>3. lock[b] = t
    BY <1>0, <2>0, <2>2 DEF RoomKept
  <2>4. Defer(t, b) => \A u \in Tasks : RoomKept(u)'
    BY <1>2, <2>3
  <2> QED BY <1>2, <1>7, <2>0, <2>1, <2>2, <2>4 DEF LockRerouteTarget
<1>8. ASSUME tx[t].pc \in {"claim_key", "claim_system", "claim_update"}
      PROVE  \E a \in Accounts : a = tx[t].account /\ lock[a] = t
  BY <1>0, <1>8 DEF AccountsKnown, ClaimPcs, RoomKept
<1>9. ASSUME NEW x \in Lockable \ Accounts, Acquire(t, x), NEW pc \in {"claim_system", "claim_update"},
             GoTo(t, pc), UNCHANGED <<task, res>>, tx[t].pc \in {"claim_key", "claim_system"}
      PROVE  \A u \in Tasks : RoomKept(u)'
  <2>0. PICK a \in Accounts : a = tx[t].account /\ lock[a] = t
    BY <1>8, <1>9
  <2>1. tx'[t].pc = pc /\ tx'[t].account = a /\ \A u \in Tasks \ {t} : tx'[u] = tx[u]
    BY <1>0, <1>9, <2>0 DEF GoTo, Tx
  <2>2. lock'[a] = t
    BY <1>0, <1>9, <2>0, LockKinds, LockTaken
  <2>3. RoomKept(t)'
    BY <1>9, <2>1, <2>2 DEF RoomKept
  <2> QED BY <1>1, <1>9, <2>1, <2>3, GoesOnKeepsRoom
<1>10. CASE LockClaimKey(t)
  <2>0. KeyOf[t] \in Lockable \ Accounts /\ tx[t].pc = "claim_key"
    BY <1>10, LockKinds DEF LockClaimKey, At
  <2>1. PICK a \in Accounts : a = tx[t].account /\ lock[a] = t
    BY <1>8, <2>0
  <2> QED BY <1>2, <1>9, <1>10, <2>0, <2>1 DEF LockClaimKey
<1>11. CASE LockClaimSystem(t)
  <2>0. "system" \in Lockable \ Accounts /\ tx[t].pc = "claim_system"
    BY <1>11, LockKinds DEF LockClaimSystem, At
  <2>1. PICK a \in Accounts : a = tx[t].account /\ lock[a] = t
    BY <1>8, <2>0
  <2> QED BY <1>2, <1>9, <1>11, <2>0, <2>1 DEF LockClaimSystem
<1>12. CASE TakeLease(t)
  <2>1. PICK a \in Accounts : a = tx[t].account /\ lock[a] = t
    BY <1>8, <1>12 DEF TakeLease, At
  <2> QED BY <1>1, <1>12, <2>1, MovedKeepsRoom DEF TakeLease, Status, Executing
<1> QED BY <1>3, <1>5, <1>6, <1>7, <1>10, <1>11, <1>12 DEF Claim

\* A task that executes has no transaction; ending it frees credits, and charging it
\* waits for the account's lock.
LEMMA WorkerKeepsRoom ==
    ASSUME RoomInv, NEW t \in Tasks, TaskEnds(t) \/ TaskYields(t)
    PROVE  \A u \in Tasks : RoomKept(u)'
<1>0. /\ TypeOK /\ task \in [Tasks -> TaskRow] /\ res \in [Tasks -> ResRow]
      /\ balance \in [Accounts -> Nat] /\ task[t].status \in Executing
      /\ tx' = tx /\ lock' = lock /\ TxOK(t)
  BY DEF RoomInv, AdmissionInv, TxOK, TypeOK, TablesTypeOK, TaskEnds, TaskYields, ctlVars
<1>1. tx[t].pc \notin AdmitPcs \cup ClaimPcs
  BY <1>0 DEF TxOK, Checked, Executing
<1>2. RoomKept(t)'
  BY <1>0, <1>1 DEF RoomKept, AdmitPcs, ClaimPcs
<1>3. \A u \in Tasks \ {t} : task'[u] = task[u]
  BY <1>0 DEF TaskEnds, TaskYields
<1>4. \A b : HeldBy(b)' \subseteq HeldBy(b)
  <2>1. CASE res' = [res EXCEPT ![t].state = "consumed"]
    <3>1. \A u \in Tasks \ {t} : res'[u] = res[u]
      BY <1>0, <2>1
    <3>2. res'[t].state = "consumed"
      BY <1>0, <2>1 DEF ResRow
    <3> QED BY <3>1, <3>2 DEF HeldBy
  <2>2. CASE res' = Release(t, "unsubmitted")
    <3>1. \A u \in Tasks \ {t} : res'[u] = res[u]
      BY <1>0, <2>2 DEF Release
    <3>2. res'[t].state # "held"
      BY <1>0, <2>2 DEF Release, ResRow
    <3> QED BY <3>1, <3>2 DEF HeldBy
  <2>3. CASE res' = res
    BY <2>3 DEF HeldBy
  <2> QED BY <2>1, <2>2, <2>3 DEF TaskEnds, TaskYields
<1>5. \A b \in Accounts : lock[b] # 0 => balance'[b] = balance[b]
  BY <1>0 DEF TaskEnds, TaskYields, sysVars
<1>6. Spares(t) /\ OthersKeepLocks(t)
  BY <1>0, <1>4, <1>5 DEF Spares, OthersKeepLocks
<1> QED BY <1>2, <1>3, <1>6, RoomOfAll

\* Health and balances are written under the account's lock, too.
LEMMA AroundKeepsRoom ==
    ASSUME RoomInv, task' = task, res' = res, UNCHANGED ctlVars,
           \A a \in Accounts : lock[a] # 0 => balance'[a] = balance[a]
    PROVE  \A u \in Tasks : RoomKept(u)'
<1> SUFFICES ASSUME NEW u \in Tasks PROVE RoomKept(u)'
  OBVIOUS
<1>1. TypeOK /\ RoomKept(u) /\ TxOK(u) /\ u # 0 /\ tx' = tx /\ lock' = lock
  BY TableAssumptions DEF RoomInv, AdmissionInv, TxOK, ctlVars
<1>2. \A a \in Accounts : HeldBy(a)' \subseteq HeldBy(a)
  BY DEF HeldBy
<1> QED BY <1>1, <1>2, SparedKeepsRoom

\* Every step keeps the room that admissions have found.
LEMMA StepKeepsRoom ==
    ASSUME RoomInv, [Next]_vars
    PROVE  RoomInv'
<1>1. AdmissionInv'
  BY StepKeepsAdmissionInv DEF RoomInv
<1>2. \A u \in Tasks : RoomKept(u)'
  <2>1. ASSUME NEW t \in Tasks, BeginAdmission(t) \/ Admit(t) PROVE \A u \in Tasks : RoomKept(u)'
    BY <2>1, AdmitKeepsRoom, CandidateKeepsRoom, InsertKeepsRoom DEF Admit
  <2>2. ASSUME NEW t \in Tasks, BeginClaim(t) \/ Claim(t) PROVE \A u \in Tasks : RoomKept(u)'
    BY <2>2, ClaimKeepsRoom
  <2>3. ASSUME NEW t \in Tasks, TaskEnds(t) \/ TaskYields(t) PROVE \A u \in Tasks : RoomKept(u)'
    BY <2>3, WorkerKeepsRoom
  <2>4. CASE \/ \E a \in Accounts : AccountHealthChanges(a) \/ BalanceSynced(a)
             \/ UpdateSystemCapacity \/ UNCHANGED vars
    <3>1. balance \in [Accounts -> Nat]
      BY DEF RoomInv, AdmissionInv, TypeOK
    <3>2. /\ task' = task /\ res' = res /\ UNCHANGED ctlVars
          /\ \A a \in Accounts : lock[a] # 0 => balance'[a] = balance[a]
      BY <2>4, <3>1 DEF AccountHealthChanges, BalanceSynced, UpdateSystemCapacity, vars, ctlVars, sysVars
    <3> QED BY <3>2, AroundKeepsRoom
  <2> QED BY <2>1, <2>2, <2>3, <2>4 DEF Next
<1> QED BY <1>1, <1>2 DEF RoomInv

\* Only the last statement of an admission answers that the task is admitted.
LEMMA AdmittedByInsert ==
    ASSUME TypeOK, [Next]_vars, NEW t \in Tasks, answer'[t] = "admitted", answer[t] # "admitted"
    PROVE  InsertTask(t)
<1>0. answer \in [Tasks -> Answer]
  BY DEF TypeOK
<1>1. answer' # answer
  OBVIOUS
<1>2. ASSUME NEW u \in Tasks, NEW how, Answered(u, how) PROVE u = t /\ how = "admitted"
  BY <1>0, <1>2 DEF Answered
<1>3. ASSUME NEW u \in Tasks, BeginAdmission(u) PROVE FALSE
  BY <1>1, <1>2, <1>3 DEF BeginAdmission
<1>4. ASSUME NEW u \in Tasks, LockCandidate(u) \/ LockKey(u) \/ lockSystemAdmission(u) PROVE FALSE
  BY <1>1, <1>2, <1>4 DEF LockCandidate, LockKey, lockSystemAdmission
<1>5. ASSUME NEW u \in Tasks, SelectCandidate(u) PROVE FALSE
  <2>1. CASE Candidates(u) = {}
    BY <1>2, <1>5, <2>1 DEF SelectCandidate
  <2>2. CASE Candidates(u) # {}
    BY <1>1, <1>5, <2>2 DEF SelectCandidate
  <2> QED BY <2>1, <2>2
<1>6. ASSUME NEW u \in Tasks, PassCandidate(u) PROVE FALSE
  BY <1>1, <1>2, <1>6 DEF PassCandidate
<1>7. ASSUME NEW u \in Tasks, ExcludeCandidate(u) \/ AdmissionDeadlocked(u) PROVE FALSE
  BY <1>1, <1>7 DEF ExcludeCandidate, AdmissionDeadlocked
<1>8. ASSUME NEW u \in Tasks, InsertTask(u) PROVE u = t
  BY <1>2, <1>8 DEF InsertTask
<1>9. ASSUME NEW u \in Tasks, BeginClaim(u) \/ Claim(u) PROVE FALSE
  BY <1>1, <1>9 DEF BeginClaim, Claim, LockClaimAccount, Reroute, LockRerouteTarget, LockClaimKey,
                    LockClaimSystem, TakeLease
<1>10. ASSUME NEW u \in Tasks, TaskEnds(u) \/ TaskYields(u) PROVE FALSE
  BY <1>1, <1>10 DEF TaskEnds, TaskYields, ctlVars
<1>11. ~(\/ \E a \in Accounts : AccountHealthChanges(a) \/ BalanceSynced(a)
        \/ UpdateSystemCapacity \/ UNCHANGED vars)
  BY <1>1 DEF AccountHealthChanges, BalanceSynced, UpdateSystemCapacity, vars, ctlVars
<1> QED BY <1>3, <1>4, <1>5, <1>6, <1>7, <1>8, <1>9, <1>10, <1>11 DEF Next, Admit

\* The account that an admission wrote to, in the state it left behind.
FitsNow(t, a) ==
    /\ Cardinality(HeldBy(a)') <= AccountCapacity(t, a)
    /\ HeldCost(a)' <= balance'[a]

\* The admitted task fits.
LEMMA AdmittedFits ==
    ASSUME RoomInv, [Next]_vars, NEW t \in Tasks, answer'[t] = "admitted", answer[t] # "admitted",
           NEW a \in Accounts, task'[t].account = a
    PROVE  FitsNow(t, a)
<1>1. TypeOK
  BY DEF RoomInv, AdmissionInv
<1>2. InsertTask(t)
  BY <1>1, AdmittedByInsert
<1>3. HasRoom(t, a) /\ HeldBy(a)' \subseteq HeldBy(a) \cup {t} /\ balance' = balance
  BY <1>2, InsertKeepsRoom
<1>4. HeldBy(a) \in SUBSET Tasks /\ HeldBy(a)' \in SUBSET Tasks
  BY HeldCostIs, HeldCostNext
<1>5. AccountCapacity(t, a) \in Nat
  <2>1. Cardinality(HeldBy(a)) \in Nat /\ AccountCapacity(t, a) \in Int
    BY <1>4, FewerTasks, CapacityType
  <2> QED BY <1>3, <2>1 DEF HasRoom
<1>6. Cardinality(HeldBy(a)') <= AccountCapacity(t, a)
  BY <1>3, <1>4, <1>5, RoomForOne DEF HasRoom
<1>7. /\ CostSum[HeldBy(a)] \in Nat /\ CostSum[HeldBy(a)'] \in Nat /\ Cost[t] \in Nat
      /\ CostSum[HeldBy(a)'] <= CostSum[HeldBy(a)] + Cost[t]
  BY <1>3, <1>4, CostSumBounds
<1>8. HeldCost(a)' <= balance'[a]
  <2>1. HeldCost(a) = CostSum[HeldBy(a)] /\ HeldCost(a)' = CostSum[HeldBy(a)'] /\ balance[a] \in Nat
    BY <1>1, HeldCostIs, HeldCostNext DEF TypeOK
  <2> QED BY <1>3, <1>7, <2>1 DEF HasRoom
<1> QED BY <1>6, <1>8 DEF FitsNow

-----------------------------------------------------------------------------
(* No circle of waiting transactions. *)

\* Which place of a transaction waits for what.
LEMMA AwaitedIs ==
    ASSUME NEW t \in Tasks, NEW x \in Awaited(t)
    PROVE  \/ tx[t].pc \in {"candidate", "claim_account"} /\ x = tx[t].account
           \/ tx[t].pc = "reroute_old" /\ x = task[t].account
           \/ tx[t].pc = "reroute" /\ x = "reroute"
           \/ tx[t].pc \in {"key", "claim_key"} /\ x = KeyOf[t]
           \/ tx[t].pc \in {"system", "claim_system"} /\ x = "system"
BY DEF Awaited, At

\* The kind of lock a transaction waits for, by its place.
LEMMA AwaitedKind ==
    ASSUME AdmissionInv, NEW t \in Tasks, NEW x \in Awaited(t)
    PROVE  \/ x = "system" /\ tx[t].pc \in {"system", "claim_system"}
           \/ x \in Keys /\ tx[t].pc \in {"key", "claim_key"}
           \/ x \in Accounts /\ tx[t].pc \in {"candidate", "claim_account", "reroute_old"}
           \/ x = "reroute" /\ tx[t].pc = "reroute"
<1>1. KeyOf[t] \in Keys /\ Checked(t) /\ AccountsKnown(t)
  BY Limits DEF AdmissionInv
<1>2. tx[t].pc \in {"candidate", "claim_account"} => tx[t].account \in Accounts
  BY <1>1 DEF AccountsKnown, AdmitPcs, ClaimPcs
<1>3. tx[t].pc = "reroute_old" => task[t].account \in Accounts
  BY <1>1 DEF Checked, AccountsKnown, ClaimPcs
<1> QED BY <1>1, <1>2, <1>3, AwaitedIs

\* In a circle nobody waits for the system row, whose holder waits for nothing, so
\* nobody waits for a key, so whoever holds an account that is waited for is an
\* admission with a candidate it passed over; those admissions are a circle.
LEMMA NoCircle == AdmissionInv => DeadlockFree
<1> SUFFICES ASSUME AdmissionInv, NEW S \in SUBSET Tasks, Circle(S)
             PROVE  \E C \in SUBSET {t \in S : At(t, "candidate")} : Circle(C)
  BY DEF DeadlockFree
<1> DEFINE C == {t \in S : At(t, "candidate")}
<1>0. S # {} /\ \A t \in S : t \in Tasks /\ LocksInOrder(t) /\ \E x \in Awaited(t) : lock[x] \in S
  BY DEF AdmissionInv, Circle
<1>1. \A t \in S : tx[t].pc \notin {"insert", "claim_update", "reroute_select", "reroute_target"}
  BY <1>0, AwaitedKind
<1>2. \A t \in S : tx[t].pc \notin {"system", "claim_system"}
  <2> SUFFICES ASSUME NEW t \in S, tx[t].pc \in {"system", "claim_system"} PROVE FALSE
    OBVIOUS
  <2>1. lock["system"] \in S
    BY <1>0, AwaitedKind
  <2> QED BY <1>0, <1>1, <2>1 DEF LocksInOrder
<1>3. \A t \in S : tx[t].pc \notin {"key", "claim_key"}
  <2> SUFFICES ASSUME NEW t \in S, tx[t].pc \in {"key", "claim_key"} PROVE FALSE
    OBVIOUS
  <2>1. PICK k \in Keys : lock[k] \in S
    BY <1>0, AwaitedKind
  <2> QED BY <1>0, <1>1, <1>2, <2>1 DEF LocksInOrder
<1>4. ASSUME NEW t \in S, tx[t].pc \in {"candidate", "claim_account", "reroute_old"}
      PROVE  \E x \in Awaited(t) : lock[x] \in C
  <2>1. PICK x \in Awaited(t) : lock[x] \in S
    BY <1>0
  <2>2. x \in Accounts
    BY <1>0, <1>4, <2>1, AwaitedKind
  <2>3. tx[lock[x]].pc = "candidate"
    BY <1>0, <1>1, <1>2, <1>3, <2>1, <2>2 DEF LocksInOrder
  <2> QED BY <2>1, <2>3 DEF At
<1>5. C # {}
  <2>1. PICK t \in S : TRUE
    BY <1>0
  <2>2. CASE tx[t].pc = "reroute"
    <3>1. lock["reroute"] \in S
      BY <1>0, <2>2, AwaitedKind
    <3>2. tx[lock["reroute"]].pc = "reroute_old"
      BY <1>0, <1>1, <1>2, <1>3, <3>1 DEF LocksInOrder
    <3> QED BY <1>4, <3>1, <3>2
  <2>3. CASE tx[t].pc # "reroute"
    <3>1. tx[t].pc \in {"candidate", "claim_account", "reroute_old"}
      BY <1>0, <1>2, <1>3, <2>3, AwaitedKind
    <3> QED BY <1>4, <3>1
  <2> QED BY <2>2, <2>3
<1>6. \A t \in C : \E x \in Awaited(t) : lock[x] \in C
  BY <1>4 DEF At
<1>7. Circle(C)
  BY <1>5, <1>6 DEF Circle
<1> QED BY <1>7

-----------------------------------------------------------------------------
(* The theorems. *)

\* In every behaviour of the admission and claim transactions, whatever a
\* transaction has checked under a lock stays true until it commits, and locks are
\* taken in one order.
THEOREM AdmissionInvariant == Spec => []AdmissionInv
<1>1. Init => AdmissionInv
  BY InitAdmissionInv
<1>2. AdmissionInv /\ [Next]_vars => AdmissionInv'
  BY StepKeepsAdmissionInv
<1> QED BY <1>1, <1>2, PTL DEF Spec

\* The tables, balances, locks and transactions keep their types; no balance is
\* driven below zero by a charge (GREATEST(0, ...) in CompleteTaskOwned).
THEOREM AdmissionTypes == Spec => []TypeOK
<1>1. AdmissionInv => TypeOK
  BY DEF AdmissionInv
<1> QED BY <1>1, AdmissionInvariant, PTL

\* No API key ever exceeds its execution limit or its quota of unfinished tasks,
\* for any number of concurrent admissions and claims (routing.go, execution.go).
THEOREM KeysStayWithinLimits == Spec => []KeyWithinLimits
<1>1. AdmissionInv => KeyWithinLimits
  BY DEF AdmissionInv
<1> QED BY <1>1, AdmissionInvariant, PTL

\* The global execution limit always holds, and so does the bound on all
\* unfinished tasks (lockSystemAdmission and lockSystemExecution).
THEOREM SystemStaysWithinLimits == Spec => []SystemWithinLimits
<1>1. AdmissionInv => SystemWithinLimits
  BY DEF AdmissionInv
<1> QED BY <1>1, AdmissionInvariant, PTL

\* Concurrent requests with one idempotency key create one task and all get it;
\* the unique constraint is never what stops the second (the advisory lock).
THEOREM RetriesAgree == Spec => []RetriesGetTheirTask
<1>1. AdmissionInv => RetriesGetTheirTask
  BY DEF AdmissionInv
<1> QED BY <1>1, AdmissionInvariant, PTL

\* However many admissions, claims and reroutings wait for each other, a circle of
\* them contains one of admissions alone, which hold a candidate they passed over
\* and wait for the next; all other locks are taken in one order (routing.go:293).
THEOREM NoDeadlock == Spec => []DeadlockFree
BY NoCircle, AdmissionInvariant, PTL

\* What an admission has found on its account under the account's lock is still
\* there when it commits (LockCandidate to InsertTask).
THEOREM RoomInvariant == Spec => []RoomInv
<1>1. Init => RoomInv
  <2> SUFFICES ASSUME Init PROVE RoomInv
    OBVIOUS
  <2>1. \A t \in Tasks : tx[t].pc = "idle"
    BY DEF Init, NoTx
  <2> QED BY <2>1, InitAdmissionInv DEF RoomInv, RoomKept
<1>2. RoomInv /\ [Next]_vars => RoomInv'
  BY StepKeepsRoom
<1> QED BY <1>1, <1>2, PTL DEF Spec

\* No admission over-reserves: for any requests, accounts, costs and capacities, and
\* however admissions, reroutings, settlements and balance updates interleave, the
\* account of a task that has just been admitted holds no more reservations than its
\* capacity and no more reserved credits than its balance (routing.go:223-257).
THEOREM AdmissionsFit == Spec => AdmissionFits
<1>1. RoomInv /\ [Next]_vars =>
        [\A t \in Tasks : answer'[t] = "admitted" /\ answer[t] # "admitted" =>
           \A a \in Accounts : task'[t].account = a =>
              /\ Cardinality(HeldBy(a)') <= AccountCapacity(t, a)
              /\ HeldCost(a)' <= balance'[a]]_vars
  <2> SUFFICES ASSUME RoomInv, [Next]_vars, NEW t \in Tasks, answer'[t] = "admitted",
                      answer[t] # "admitted", NEW a \in Accounts, task'[t].account = a
               PROVE  FitsNow(t, a)
    BY DEF FitsNow
  <2> QED BY AdmittedFits
<1> QED BY <1>1, RoomInvariant, PTL DEF Spec, AdmissionFits

=============================================================================
