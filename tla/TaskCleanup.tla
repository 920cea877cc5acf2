----------------------------- MODULE TaskCleanup ------------------------------
(* The clean-up of uncertain submissions on the task page: a scan collects     *)
(* them page by page, a dialog lists them, and once confirmed they are failed  *)
(* batch by batch. The service goes on in between: more submissions become     *)
(* uncertain, and others are settled one by one.                               *)
EXTENDS Naturals, FiniteSets, Sequences, Slices

CONSTANTS CleanupTasks,              \* in the order the service lists them
          TASK_CLEANUP_BATCH_SIZE    \* of requests and of the scan's pages

ASSUME CleanupAssumption == /\ CleanupTasks \subseteq Nat /\ IsFiniteSet(CleanupTasks)
                            /\ TASK_CLEANUP_BATCH_SIZE \in Nat \ {0}

VARIABLES taskStatus,
          cleanupScan,      \* scanUncertainTasks under way
          cleanupOpen,
          cleanupTasks,     \* what the dialog lists
          cleanup           \* the mutation, with what it will report

cleanupVars == <<taskStatus, cleanupScan, cleanupOpen, cleanupTasks, cleanup>>

NoCleanup == [pending |-> FALSE, ids |-> {}, batches |-> <<>>, resolved |-> 0, skipped |-> 0]
NotScanning == [on |-> FALSE, page |-> 0, counted |-> FALSE, total |-> 0, found |-> {}]
MaxScanPage == Cardinality(CleanupTasks) + 2

CleanupScans == [on : BOOLEAN, page : 0..MaxScanPage, counted : BOOLEAN, total : 0..Cardinality(CleanupTasks),
                 found : SUBSET CleanupTasks]

CleanupTypeOK ==
    /\ taskStatus \in [CleanupTasks -> {"active", "uncertain", "ended"}]
    /\ cleanupScan \in CleanupScans
    /\ cleanupOpen \in BOOLEAN
    /\ cleanupTasks \subseteq CleanupTasks
    /\ cleanup \in [pending : BOOLEAN, ids : SUBSET CleanupTasks, batches : Seq(SUBSET CleanupTasks),
                   resolved : Nat, skipped : Nat]
    /\ \A i \in DOMAIN cleanup.batches : Cardinality(cleanup.batches[i]) \in 1..TASK_CLEANUP_BATCH_SIZE

UncertainNow == {t \in CleanupTasks : taskStatus[t] = "uncertain"}

CleanupInit ==
    /\ taskStatus = [t \in CleanupTasks |-> "active"]
    /\ cleanupScan = NotScanning
    /\ cleanupOpen = FALSE
    /\ cleanupTasks = {}
    /\ cleanup = NoCleanup

-----------------------------------------------------------------------------
(* scanUncertainTasks *)

StartCleanupScan ==
    /\ ~cleanupOpen
    /\ ~cleanupScan.on
    /\ cleanupScan' = [NotScanning EXCEPT !.on = TRUE, !.page = 1]
    /\ UNCHANGED <<taskStatus, cleanupOpen, cleanupTasks, cleanup>>

\* The service counts the tasks and then reads the rows, in two statements.
CleanupScanCount ==
    /\ cleanupScan.on
    /\ ~cleanupScan.counted
    /\ cleanupScan' = [cleanupScan EXCEPT !.counted = TRUE, !.total = Cardinality(UncertainNow)]
    /\ UNCHANGED <<taskStatus, cleanupOpen, cleanupTasks, cleanup>>

\* LIMIT and OFFSET over the tasks that are uncertain now.
UncertainPage(n) == Slice(UncertainNow, n, TASK_CLEANUP_BATCH_SIZE)

CleanupScanPage ==
    LET rows == UncertainPage(cleanupScan.page)
        found == cleanupScan.found \cup rows
    IN  /\ cleanupScan.on
        /\ cleanupScan.counted
        /\ IF rows = {} \/ Cardinality(found) >= cleanupScan.total
           THEN /\ cleanupScan' = NotScanning
                /\ IF found = {} THEN UNCHANGED <<cleanupTasks, cleanupOpen>>
                   ELSE cleanupTasks' = found /\ cleanupOpen' = TRUE
           ELSE /\ cleanupScan' = [cleanupScan EXCEPT !.page = @ + 1, !.counted = FALSE, !.total = 0,
                                                    !.found = found]
                /\ UNCHANGED <<cleanupTasks, cleanupOpen>>
        /\ UNCHANGED <<taskStatus, cleanup>>

CleanupScanFails ==
    /\ cleanupScan.on
    /\ cleanupScan' = NotScanning
    /\ UNCHANGED <<taskStatus, cleanupOpen, cleanupTasks, cleanup>>

-----------------------------------------------------------------------------
(* The dialog and the mutation *)

CloseCleanup ==
    /\ cleanupOpen
    /\ ~cleanup.pending
    /\ cleanupOpen' = FALSE
    /\ UNCHANGED <<taskStatus, cleanupScan, cleanupTasks, cleanup>>

taskIDChunks(ids) == Slices(ids, TASK_CLEANUP_BATCH_SIZE)

ConfirmCleanup ==
    /\ cleanupOpen
    /\ ~cleanup.pending
    /\ cleanupTasks # {}
    /\ cleanup' = [NoCleanup EXCEPT !.pending = TRUE, !.ids = cleanupTasks,
                                    !.batches = taskIDChunks(cleanupTasks)]
    /\ UNCHANGED <<taskStatus, cleanupScan, cleanupOpen, cleanupTasks>>

\* adminFailSubmissionUncertainTasks: what is not uncertain any more is skipped.
FailUncertain(ids) ==
    taskStatus' = [t \in CleanupTasks |-> IF t \in ids \cap UncertainNow THEN "ended" ELSE taskStatus[t]]

Mutant_BatchByStatus ==
    LET batch == Head(cleanup.batches)
        ended == batch \cap UncertainNow
    IN  /\ cleanup.batches # <<>>
        /\ FailUncertain(UncertainNow)
        /\ cleanup' = [cleanup EXCEPT !.batches = Tail(@), !.resolved = @ + Cardinality(ended),
                                      !.skipped = @ + Cardinality(batch \ ended)]
        /\ UNCHANGED <<cleanupScan, cleanupOpen, cleanupTasks>>

BatchAnswered ==
    LET batch == Head(cleanup.batches)
        ended == batch \cap UncertainNow
    IN  /\ cleanup.batches # <<>>
        /\ FailUncertain(batch)
        /\ cleanup' = [cleanup EXCEPT !.batches = Tail(@), !.resolved = @ + Cardinality(ended),
                                      !.skipped = @ + Cardinality(batch \ ended)]
        /\ UNCHANGED <<cleanupScan, cleanupOpen, cleanupTasks>>

\* The request failed, or its answer was lost; the next batch is sent all the same.
BatchFails ==
    LET batch == Head(cleanup.batches)
    IN  /\ cleanup.batches # <<>>
        /\ \/ FailUncertain(batch)
           \/ UNCHANGED taskStatus
        /\ cleanup' = [cleanup EXCEPT !.batches = Tail(@), !.skipped = @ + Cardinality(batch)]
        /\ UNCHANGED <<cleanupScan, cleanupOpen, cleanupTasks>>

CleanupDone ==
    /\ cleanup.pending
    /\ cleanup.batches = <<>>
    /\ cleanup' = NoCleanup
    /\ cleanupOpen' = FALSE
    /\ cleanupTasks' = {}
    /\ UNCHANGED <<taskStatus, cleanupScan>>

-----------------------------------------------------------------------------
(* The service: submissions become uncertain, dialogs settle single tasks *)

SubmissionUncertain(t) ==
    /\ taskStatus[t] = "active"
    /\ taskStatus' = [taskStatus EXCEPT ![t] = "uncertain"]
    /\ UNCHANGED <<cleanupScan, cleanupOpen, cleanupTasks, cleanup>>

SettledElsewhere(t) ==
    /\ taskStatus[t] = "uncertain"
    /\ taskStatus' = [taskStatus EXCEPT ![t] = "ended"]
    /\ UNCHANGED <<cleanupScan, cleanupOpen, cleanupTasks, cleanup>>

CleanupNext ==
    \/ StartCleanupScan
    \/ CleanupScanCount
    \/ CleanupScanPage
    \/ CleanupScanFails
    \/ CloseCleanup
    \/ ConfirmCleanup
    \/ BatchAnswered
    \/ BatchFails
    \/ CleanupDone
    \/ \E t \in CleanupTasks : SubmissionUncertain(t)
    \/ \E t \in CleanupTasks : SettledElsewhere(t)

CleanupSpec == CleanupInit /\ [][CleanupNext]_cleanupVars

-----------------------------------------------------------------------------
(* Properties *)

\* The clean-up fails only tasks that its dialog listed when it was confirmed,
\* although more become uncertain while its batches are sent.
CleansOnlyListed ==
    [][\A t \in CleanupTasks :
         cleanup.pending /\ cleanup.batches # cleanup'.batches /\ taskStatus[t] # taskStatus'[t]
             => t \in cleanup.ids]_cleanupVars

-----------------------------------------------------------------------------
(* Why it holds, as an inductive invariant *)

BatchesListed == \A i \in DOMAIN cleanup.batches : cleanup.batches[i] \subseteq cleanup.ids

CleanupInv ==
    /\ CleanupTypeOK
    /\ BatchesListed
    /\ cleanup.batches # <<>> => cleanup.pending
    /\ cleanupScan.on => cleanupScan.page > 0

=============================================================================
