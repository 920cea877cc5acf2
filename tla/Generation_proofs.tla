--------------------------- MODULE Generation_proofs --------------------------
(***************************************************************************)
(* Proofs about the pages that make and follow generations: the clean-up   *)
(* of uncertain submissions, the task page, the rules of a video request,  *)
(* the documentation page, and all pages together. What is proved of the   *)
(* two tables of video models rests on facts about their rows which TLC    *)
(* evaluates (TablesOfferable, TablesAgree, TemplateRows).                 *)
(***************************************************************************)
EXTENDS MCGeneration, Playground_proofs, FormPages_proofs, Slices_proofs

-----------------------------------------------------------------------------
(* The clean-up of uncertain submissions. *)

\* The tasks that are uncertain, as a finite list no longer than the list of tasks.
LEMMA UncertainList ==
    /\ MaxScanPage \in Nat /\ 2 <= MaxScanPage /\ TASK_CLEANUP_BATCH_SIZE \in Nat \ {0}
    /\ UncertainNow \in SUBSET Nat /\ IsFiniteSet(UncertainNow)
    /\ Cardinality(UncertainNow) \in Nat /\ Cardinality(UncertainNow) + 2 <= MaxScanPage
    /\ \A S \in SUBSET CleanupTasks : S \in SUBSET Nat /\ IsFiniteSet(S) /\ Cardinality(S) \in Nat
<1>1. /\ IsFiniteSet(CleanupTasks) /\ CleanupTasks \subseteq Nat /\ Cardinality(CleanupTasks) \in Nat
      /\ TASK_CLEANUP_BATCH_SIZE \in Nat \ {0}
  BY CleanupAssumption, FS_CardinalityType
<1>2. \A S \in SUBSET CleanupTasks : S \in SUBSET Nat /\ IsFiniteSet(S) /\ Cardinality(S) \in Nat
                                     /\ Cardinality(S) <= Cardinality(CleanupTasks)
  BY <1>1, FS_Subset, FS_CardinalityType
<1>3. UncertainNow \in SUBSET CleanupTasks
  BY DEF UncertainNow
<1> QED BY <1>1, <1>2, <1>3 DEF MaxScanPage

\* The next page is no further than the list is long, since this one was not empty.
LEMMA NextPageInBounds ==
    ASSUME NEW n \in Nat, n > 0, UncertainPage(n) # {}
    PROVE  n + 1 \in 0..MaxScanPage
<1> DEFINE len == Cardinality(UncertainNow)
           batch == TASK_CLEANUP_BATCH_SIZE
<1>0. batch \in Nat \ {0} /\ len \in Nat /\ len + 2 <= MaxScanPage /\ MaxScanPage \in Nat
  BY UncertainList
<1>1. PICK x \in UncertainNow : (n - 1) * batch <= Rank(x, UncertainNow)
  BY DEF UncertainPage, Slice
<1>2. Rank(x, UncertainNow) \in 0..(len - 1)
  BY UncertainList, Ranks
<1> HIDE DEF len, batch
<1>3. n - 1 <= (n - 1) * batch
  <2>1. batch = 1 + (batch - 1) /\ batch - 1 \in Nat /\ n - 1 \in Nat
    BY <1>0
  <2>2. (n - 1) * (batch - 1) \in Nat /\ (n - 1) * batch = (n - 1) + (n - 1) * (batch - 1)
    BY <2>1
  <2> QED BY <2>1, <2>2
<1>4. n - 1 < len
  BY <1>0, <1>1, <1>2, <1>3
<1> QED BY <1>0, <1>4

\* A batch is sent: its tasks are among the listed ones, and so are those of the rest.
LEMMA BatchIsListed ==
    ASSUME CleanupInv, cleanup.batches # <<>>
    PROVE  /\ Head(cleanup.batches) \subseteq cleanup.ids /\ Head(cleanup.batches) \in SUBSET CleanupTasks
           /\ Tail(cleanup.batches) \in Seq(SUBSET CleanupTasks)
           /\ \A i \in DOMAIN Tail(cleanup.batches) :
                i + 1 \in DOMAIN cleanup.batches /\ Tail(cleanup.batches)[i] = cleanup.batches[i + 1]
<1> DEFINE sent == cleanup.batches
<1>1. /\ sent \in Seq(SUBSET CleanupTasks) /\ sent # <<>> /\ cleanup.ids \in SUBSET CleanupTasks
      /\ \A i \in DOMAIN sent : sent[i] \subseteq cleanup.ids
  BY DEF CleanupInv, CleanupTypeOK, BatchesListed
<1> HIDE DEF sent
<1>2. /\ Head(sent) \subseteq cleanup.ids /\ Head(sent) \in SUBSET CleanupTasks
      /\ Tail(sent) \in Seq(SUBSET CleanupTasks)
      /\ \A i \in DOMAIN Tail(sent) : i + 1 \in DOMAIN sent /\ Tail(sent)[i] = sent[i + 1]
  BY <1>1
<1> QED BY <1>2 DEF sent

\* The batches go on, whatever the answer was.
LEMMA NextBatchKeepsInv ==
    ASSUME CleanupInv, cleanup.batches # <<>>, NEW m \in Nat, NEW n \in Nat,
           cleanup' = [cleanup EXCEPT !.batches = Tail(@), !.resolved = m, !.skipped = n],
           taskStatus' \in [CleanupTasks -> {"active", "uncertain", "ended"}],
           UNCHANGED <<cleanupScan, cleanupOpen, cleanupTasks>>
    PROVE  CleanupInv'
<1> DEFINE rest == Tail(cleanup.batches)
           Cleanups == [pending : BOOLEAN, ids : SUBSET CleanupTasks, batches : Seq(SUBSET CleanupTasks),
                        resolved : Nat, skipped : Nat]
<1>0. CleanupTypeOK /\ BatchesListed /\ cleanup.pending /\ cleanup \in Cleanups
  BY DEF CleanupInv, CleanupTypeOK
<1>1. rest \in Seq(SUBSET CleanupTasks) /\ \A i \in DOMAIN rest : i + 1 \in DOMAIN cleanup.batches /\ rest[i] = cleanup.batches[i + 1]
  BY BatchIsListed
<1>2. cleanup' = [cleanup EXCEPT !.batches = rest, !.resolved = m, !.skipped = n]
  OBVIOUS
<1> HIDE DEF rest
<1>3. cleanup' \in Cleanups /\ cleanup'.ids = cleanup.ids /\ cleanup'.batches = rest
  BY <1>0, <1>1, <1>2
<1>4. cleanup'.pending
  <2>1. cleanup'.pending = cleanup.pending
    BY <1>0, <1>2
  <2> QED BY <1>0, <2>1
<1>5. \A i \in DOMAIN rest : Cardinality(rest[i]) \in 1..TASK_CLEANUP_BATCH_SIZE /\ rest[i] \subseteq cleanup.ids
  BY <1>0, <1>1 DEF CleanupTypeOK, BatchesListed
<1>6. CleanupTypeOK'
  BY <1>0, <1>3, <1>5 DEF CleanupTypeOK
<1>7. BatchesListed'
  BY <1>3, <1>5 DEF BatchesListed
<1>8. (cleanupScan.on => cleanupScan.page > 0)'
  BY DEF CleanupInv
<1> QED BY <1>4, <1>6, <1>7, <1>8 DEF CleanupInv

\* A batch is answered, or fails.
LEMMA CleanupBatchKeepsInv ==
    ASSUME CleanupInv, BatchAnswered \/ BatchFails
    PROVE  CleanupInv'
<1> DEFINE batch == Head(cleanup.batches)
           ended == batch \cap UncertainNow
<1>0. /\ CleanupTypeOK /\ cleanup.batches # <<>> /\ UNCHANGED <<cleanupScan, cleanupOpen, cleanupTasks>>
      /\ cleanup.resolved \in Nat /\ cleanup.skipped \in Nat
  BY DEF CleanupInv, CleanupTypeOK, BatchAnswered, BatchFails
<1>1. batch \in SUBSET CleanupTasks /\ ended \in SUBSET CleanupTasks /\ batch \ ended \in SUBSET CleanupTasks
  BY <1>0, BatchIsListed
<1>2. Cardinality(batch) \in Nat /\ Cardinality(ended) \in Nat /\ Cardinality(batch \ ended) \in Nat
  BY <1>1, UncertainList
<1>3. taskStatus' \in [CleanupTasks -> {"active", "uncertain", "ended"}]
  BY <1>0 DEF BatchAnswered, BatchFails, FailUncertain, CleanupTypeOK
<1>4. CASE BatchAnswered
  <2>1. cleanup' = [cleanup EXCEPT !.batches = Tail(@), !.resolved = cleanup.resolved + Cardinality(ended),
                                   !.skipped = cleanup.skipped + Cardinality(batch \ ended)]
    BY <1>4 DEF BatchAnswered
  <2>2. cleanup.resolved + Cardinality(ended) \in Nat /\ cleanup.skipped + Cardinality(batch \ ended) \in Nat
    BY <1>0, <1>2
  <2> HIDE DEF batch, ended
  <2> QED BY <1>0, <1>3, <2>1, <2>2, NextBatchKeepsInv
<1>5. CASE BatchFails
  <2>1. cleanup' = [cleanup EXCEPT !.batches = Tail(@), !.resolved = cleanup.resolved,
                                   !.skipped = cleanup.skipped + Cardinality(batch)]
    BY <1>0, <1>5 DEF BatchFails, CleanupTypeOK
  <2>2. cleanup.skipped + Cardinality(batch) \in Nat
    BY <1>0, <1>2
  <2> HIDE DEF batch, ended
  <2> QED BY <1>0, <1>3, <2>1, <2>2, NextBatchKeepsInv
<1> QED BY <1>4, <1>5

\* The scan, which ends before it is past the list.
LEMMA CleanupScanKeepsInv ==
    ASSUME CleanupInv, StartCleanupScan \/ CleanupScanCount \/ CleanupScanPage \/ CleanupScanFails
    PROVE  CleanupInv'
<1>0. /\ CleanupTypeOK /\ BatchesListed /\ (cleanup.batches # <<>> => cleanup.pending)
      /\ UNCHANGED <<taskStatus, cleanup>> /\ cleanupScan \in CleanupScans
  BY DEF CleanupInv, CleanupTypeOK, StartCleanupScan, CleanupScanCount, CleanupScanPage, CleanupScanFails
<1>1. BatchesListed' /\ (cleanup.batches # <<>> => cleanup.pending)'
  BY <1>0 DEF BatchesListed
<1>2. MaxScanPage \in Nat /\ 2 <= MaxScanPage /\ Cardinality(CleanupTasks) \in Nat
  BY UncertainList, CleanupAssumption, FS_CardinalityType
<1>3. NotScanning \in CleanupScans /\ ~NotScanning.on
  BY <1>2 DEF NotScanning, CleanupScans
<1>4. CASE StartCleanupScan
  <2>1. /\ cleanupScan' = [on |-> TRUE, page |-> 1, counted |-> FALSE, total |-> 0, found |-> {}]
        /\ UNCHANGED <<cleanupOpen, cleanupTasks>>
    BY <1>4 DEF StartCleanupScan, NotScanning
  <2>2. cleanupScan' \in CleanupScans /\ cleanupScan'.page = 1
    BY <1>2, <2>1 DEF CleanupScans
  <2>3. CleanupTypeOK'
    BY <1>0, <2>1, <2>2 DEF CleanupTypeOK
  <2> QED BY <1>1, <2>2, <2>3 DEF CleanupInv
<1>5. CASE CleanupScanFails
  <2>1. cleanupScan' = NotScanning /\ UNCHANGED <<cleanupOpen, cleanupTasks>>
    BY <1>5 DEF CleanupScanFails
  <2>2. CleanupTypeOK'
    BY <1>0, <1>3, <2>1 DEF CleanupTypeOK
  <2> QED BY <1>1, <1>3, <2>1, <2>2 DEF CleanupInv
<1>6. CASE CleanupScanPage
  <2> DEFINE page == UncertainPage(cleanupScan.page)
             found == cleanupScan.found \cup page
  <2>1. found \in SUBSET CleanupTasks
    BY <1>0 DEF UncertainPage, Slice, UncertainNow, CleanupScans
  <2>2. cleanupScan.on /\ cleanupScan.page \in Nat /\ cleanupScan.page > 0
    BY <1>0, <1>2, <1>6 DEF CleanupInv, CleanupScanPage, CleanupScans
  <2>3. CASE cleanupScan' = NotScanning
    <3>1. cleanupTasks' \subseteq CleanupTasks
      BY <1>0, <1>6, <2>1 DEF CleanupScanPage, CleanupTypeOK
    <3>2. cleanupOpen' \in BOOLEAN
      BY <1>0, <1>6 DEF CleanupScanPage, CleanupTypeOK
    <3>3. CleanupTypeOK'
      BY <1>0, <1>3, <2>3, <3>1, <3>2 DEF CleanupTypeOK
    <3> QED BY <1>1, <1>3, <2>3, <3>3 DEF CleanupInv
  <2>4. CASE page # {} /\ cleanupScan' = [cleanupScan EXCEPT !.page = @ + 1, !.counted = FALSE, !.total = 0,
                                                              !.found = found]
             /\ UNCHANGED <<cleanupTasks, cleanupOpen>>
    <3>1. cleanupScan.page + 1 \in 0..MaxScanPage
      BY <2>2, <2>4, NextPageInBounds
    <3> HIDE DEF found
    <3>2. cleanupScan' \in CleanupScans /\ cleanupScan'.page = cleanupScan.page + 1
      <4>1. cleanupScan' = [on |-> cleanupScan.on, page |-> cleanupScan.page + 1, counted |-> FALSE,
                            total |-> 0, found |-> found]
        BY <1>0, <2>4 DEF CleanupScans
      <4>2. cleanupScan.on \in BOOLEAN /\ 0 \in 0..Cardinality(CleanupTasks)
        BY <1>0, <1>2 DEF CleanupScans
      <4> QED BY <2>1, <3>1, <4>1, <4>2 DEF CleanupScans
    <3>3. CleanupTypeOK'
      BY <1>0, <2>4, <3>2 DEF CleanupTypeOK
    <3> QED BY <1>1, <2>2, <3>2, <3>3 DEF CleanupInv
  <2> QED BY <1>6, <2>3, <2>4 DEF CleanupScanPage
<1>7. CASE CleanupScanCount
  <2> DEFINE total == Cardinality(UncertainNow)
  <2>1. /\ cleanupScan' = [cleanupScan EXCEPT !.counted = TRUE, !.total = total]
        /\ UNCHANGED <<cleanupOpen, cleanupTasks>>
    BY <1>7 DEF CleanupScanCount
  <2>2. total \in 0..Cardinality(CleanupTasks)
    <3>1. total <= Cardinality(CleanupTasks) /\ IsFiniteSet(UncertainNow)
      BY CleanupAssumption, FS_Subset DEF UncertainNow
    <3>2. total \in Nat
      BY <3>1, FS_CardinalityType
    <3> QED BY <1>2, <3>1, <3>2
  <2> HIDE DEF total
  <2>3. cleanupScan' \in CleanupScans /\ cleanupScan'.page = cleanupScan.page /\ cleanupScan'.on = cleanupScan.on
    BY <1>0, <2>1, <2>2 DEF CleanupScans
  <2>4. CleanupTypeOK'
    BY <1>0, <2>1, <2>3 DEF CleanupTypeOK
  <2> QED BY <1>1, <2>3, <2>4 DEF CleanupInv
<1> QED BY <1>4, <1>5, <1>6, <1>7

\* The dialog opens a clean-up, is closed, or ends with it.
LEMMA CleanupDialogKeepsInv ==
    ASSUME CleanupInv, ConfirmCleanup \/ CloseCleanup \/ CleanupDone
    PROVE  CleanupInv'
<1> DEFINE Cleanups == [pending : BOOLEAN, ids : SUBSET CleanupTasks, batches : Seq(SUBSET CleanupTasks),
                        resolved : Nat, skipped : Nat]
<1>0. /\ CleanupTypeOK /\ BatchesListed /\ UNCHANGED <<taskStatus, cleanupScan>>
      /\ (cleanupScan.on => cleanupScan.page > 0)'
  BY DEF CleanupInv, ConfirmCleanup, CloseCleanup, CleanupDone
<1>1. CASE ConfirmCleanup
  <2> DEFINE cut == taskIDChunks(cleanupTasks)
  <2>1. cleanupTasks \in SUBSET CleanupTasks /\ UNCHANGED <<cleanupOpen, cleanupTasks>>
    BY <1>0, <1>1 DEF CleanupTypeOK, ConfirmCleanup
  <2>2. cut \in Seq(SUBSET cleanupTasks) /\ \A i \in DOMAIN cut : Cardinality(cut[i]) \in 1..TASK_CLEANUP_BATCH_SIZE
    BY <2>1, UncertainList, SliceSizes DEF taskIDChunks
  <2>3. cleanup' = [pending |-> TRUE, ids |-> cleanupTasks, batches |-> cut, resolved |-> 0, skipped |-> 0]
    BY <1>1 DEF ConfirmCleanup, NoCleanup
  <2> HIDE DEF cut
  <2>4. cut \in Seq(SUBSET CleanupTasks) /\ \A i \in DOMAIN cut : cut[i] \subseteq cleanupTasks
    <3>1. Len(cut) \in Nat /\ cut \in [1..Len(cut) -> SUBSET cleanupTasks] /\ DOMAIN cut = 1..Len(cut)
      BY <2>2
    <3>2. \A i \in 1..Len(cut) : cut[i] \in SUBSET cleanupTasks /\ cut[i] \in SUBSET CleanupTasks
      BY <2>1, <3>1
    <3>3. cut \in [1..Len(cut) -> SUBSET CleanupTasks]
      BY <3>1, <3>2
    <3> QED BY <3>1, <3>2, <3>3
  <2>5. cleanup' \in Cleanups /\ cleanup'.ids = cleanupTasks /\ cleanup'.batches = cut
    BY <2>1, <2>3, <2>4
  <2>6. cleanup'.pending
    BY <2>3
  <2>7. CleanupTypeOK'
    BY <1>0, <2>1, <2>2, <2>5 DEF CleanupTypeOK
  <2>8. BatchesListed'
    BY <2>4, <2>5 DEF BatchesListed
  <2> QED BY <1>0, <2>6, <2>7, <2>8 DEF CleanupInv
<1>2. CASE CloseCleanup
  <2>1. UNCHANGED <<cleanupTasks, cleanup>> /\ cleanupOpen' \in BOOLEAN
    BY <1>2 DEF CloseCleanup
  <2>2. CleanupTypeOK' /\ BatchesListed'
    BY <1>0, <2>1 DEF CleanupTypeOK, BatchesListed
  <2> QED BY <1>0, <2>1, <2>2 DEF CleanupInv
<1>3. CASE CleanupDone
  <2>1. cleanup' = NoCleanup /\ cleanupOpen' \in BOOLEAN /\ cleanupTasks' = {}
    BY <1>3 DEF CleanupDone
  <2>2. cleanup' \in Cleanups /\ cleanup'.batches = <<>>
    BY <2>1 DEF NoCleanup
  <2>3. CleanupTypeOK' /\ BatchesListed'
    BY <1>0, <2>1, <2>2 DEF CleanupTypeOK, BatchesListed
  <2> QED BY <1>0, <2>2, <2>3 DEF CleanupInv
<1> QED BY <1>1, <1>2, <1>3

\* The scan stays within the list and the batches within the dialog, in every state
\* of the clean-up.
THEOREM CleanupInvariant == CleanupSpec => []CleanupInv
<1>1. CleanupInit => CleanupInv
  <2> SUFFICES ASSUME CleanupInit PROVE CleanupInv
    OBVIOUS
  <2>1. /\ cleanupScan \in CleanupScans /\ ~cleanupScan.on
        /\ cleanup \in [pending : BOOLEAN, ids : SUBSET CleanupTasks, batches : Seq(SUBSET CleanupTasks),
                        resolved : Nat, skipped : Nat]
        /\ cleanup.batches = <<>>
    <3>1. Cardinality(CleanupTasks) \in Nat
      BY CleanupAssumption, FS_CardinalityType
    <3> QED BY UncertainList, <3>1 DEF CleanupInit, NotScanning, NoCleanup, CleanupScans
  <2>2. CleanupTypeOK
    <3>1. taskStatus \in [CleanupTasks -> {"active", "uncertain", "ended"}]
      BY DEF CleanupInit
    <3>2. cleanupOpen \in BOOLEAN /\ cleanupTasks \subseteq CleanupTasks
      BY DEF CleanupInit
    <3> QED BY <2>1, <3>1, <3>2 DEF CleanupTypeOK
  <2> QED BY <2>1, <2>2 DEF CleanupInv, BatchesListed
<1>2. ASSUME CleanupInv, [CleanupNext]_cleanupVars PROVE CleanupInv'
  <2>1. CASE StartCleanupScan \/ CleanupScanCount \/ CleanupScanPage \/ CleanupScanFails
    BY <1>2, <2>1, CleanupScanKeepsInv
  <2>2. CASE ConfirmCleanup \/ CloseCleanup \/ CleanupDone
    BY <1>2, <2>2, CleanupDialogKeepsInv
  <2>3. CASE BatchAnswered \/ BatchFails
    BY <1>2, <2>3, CleanupBatchKeepsInv
  <2>4. CASE UNCHANGED cleanupVars \/ \E t \in CleanupTasks : SubmissionUncertain(t) \/ SettledElsewhere(t)
    <3>1. UNCHANGED <<cleanupScan, cleanupOpen, cleanupTasks, cleanup>>
      BY <2>4 DEF cleanupVars, SubmissionUncertain, SettledElsewhere
    <3>2. taskStatus' \in [CleanupTasks -> {"active", "uncertain", "ended"}]
      BY <1>2, <2>4 DEF CleanupInv, CleanupTypeOK, cleanupVars, SubmissionUncertain, SettledElsewhere
    <3>3. CleanupTypeOK' /\ BatchesListed'
      BY <1>2, <3>1, <3>2 DEF CleanupInv, CleanupTypeOK, BatchesListed
    <3> QED BY <1>2, <3>1, <3>3 DEF CleanupInv
  <2> QED BY <1>2, <2>1, <2>2, <2>3, <2>4 DEF CleanupNext
<1> QED BY <1>1, <1>2, PTL DEF CleanupSpec

\* The clean-up fails only tasks its dialog listed when it was confirmed.
THEOREM CleansTheListed == CleanupSpec => CleansOnlyListed
<1>1. ASSUME CleanupInv, [CleanupNext]_cleanupVars, NEW t \in CleanupTasks,
             cleanup.pending, cleanup.batches # cleanup'.batches, taskStatus[t] # taskStatus'[t]
      PROVE  t \in cleanup.ids
  <2>0. taskStatus \in [CleanupTasks -> {"active", "uncertain", "ended"}]
    BY <1>1 DEF CleanupInv, CleanupTypeOK
  <2>1. BatchAnswered \/ BatchFails
    BY <1>1 DEF CleanupNext, cleanupVars, StartCleanupScan, CleanupScanCount, CleanupScanPage, CleanupScanFails,
                CloseCleanup, ConfirmCleanup, CleanupDone, SubmissionUncertain, SettledElsewhere
  <2>2. t \in Head(cleanup.batches) /\ cleanup.batches # <<>>
    BY <1>1, <2>0, <2>1 DEF BatchAnswered, BatchFails, FailUncertain
  <2> QED BY <1>1, <2>2, BatchIsListed
<1>2. CleanupInv /\ [CleanupNext]_cleanupVars =>
        [\A t \in CleanupTasks :
           cleanup.pending /\ cleanup.batches # cleanup'.batches /\ taskStatus[t] # taskStatus'[t]
             => t \in cleanup.ids]_cleanupVars
  BY <1>1
<1> QED BY <1>2, CleanupInvariant, PTL DEF CleanupSpec, CleansOnlyListed

-----------------------------------------------------------------------------
(* The task page. *)

\* A dialog that is closed fetches nothing.
LEMMA ClosedDialog ==
    ASSUME TaskPageInv, CloseDialog,
           status' \in [ListedTasks -> Statuses], statusFilter' \in Filters,
           ownRows' \in BOOLEAN, listFetching' \in BOOLEAN, UNCHANGED <<rows, detail, calls>>
    PROVE  TaskPageInv'
BY DEF TaskPageInv, TaskPageTypeOK, CloseDialog, Idle

\* The list is fetched or polled, and fails.
LEMMA ListSteps ==
    ASSUME TaskPageInv, OpenPage \/ PollList \/ ListFails \/ UNCHANGED taskPageVars
    PROVE  TaskPageInv'
<1>1. UNCHANGED <<status, statusFilter, rows, ownRows, dialog>>
  BY DEF OpenPage, PollList, ListFails, taskPageVars, listing
<1>2. listFetching' \in BOOLEAN
  BY DEF OpenPage, PollList, ListFails, taskPageVars, listing, TaskPageInv, TaskPageTypeOK
<1> QED BY <1>1, <1>2 DEF dialog, TaskPageInv, TaskPageTypeOK

LEMMA ListArrives ==
    ASSUME TaskPageInv, ListAnswered
    PROVE  TaskPageInv'
<1>1. /\ listFetching' = FALSE /\ ownRows' = TRUE
      /\ UNCHANGED <<status, statusFilter, selectedID, detail, calls>>
      /\ rows' = [t \in {u \in ListedTasks : Matches(u, statusFilter)} |-> status[t]]
  BY DEF ListAnswered
<1>2. DOMAIN rows' \subseteq ListedTasks /\ \A t \in DOMAIN rows' : rows'[t] \in Statuses
  BY <1>1 DEF TaskPageInv, TaskPageTypeOK
<1>3. UNCHANGED <<detailFetching, settle>> \/ (detailFetching' = "idle" /\ settle' = Idle)
  BY DEF ListAnswered
<1>4. settle' \in [kind : {"none", "release", "confirm"}, at : {"idle", "pending", "success", "error"}]
  BY <1>3 DEF TaskPageInv, TaskPageTypeOK, Idle
<1>5. /\ detailFetching' \in {"idle", "fetching", "error"}
      /\ detailFetching' = "fetching" => selectedID' \in ListedTasks
  BY <1>1, <1>3 DEF TaskPageInv, TaskPageTypeOK
<1>6. ownRows' \in BOOLEAN /\ listFetching' \in BOOLEAN
  BY <1>1
<1>7. TaskPageTypeOK'
  BY <1>1, <1>2, <1>4, <1>5, <1>6 DEF TaskPageInv, TaskPageTypeOK
<1> QED BY <1>5, <1>7 DEF TaskPageInv

\* The dialog of a task is opened, polled and answered; it fetches that task.
LEMMA DialogSteps ==
    ASSUME TaskPageInv, NEW t \in ListedTasks,
           SelectTask(t) \/ PollDetail(t) \/ DetailAnswered \/ DetailFails
    PROVE  TaskPageInv'
<1>0. TaskPageTypeOK
  BY DEF TaskPageInv
<1>1. UNCHANGED <<status, listing, settle, calls>>
  BY DEF SelectTask, PollDetail, DetailAnswered, DetailFails
<1>2. selectedID' \in ListedTasks \cup {NoTaskID} /\ (detailFetching' = "fetching" => selectedID' \in ListedTasks)
  BY <1>0 DEF SelectTask, PollDetail, DetailAnswered, DetailFails, Shows, TaskPageTypeOK, TaskPageInv
<1>3. detailFetching' \in {"idle", "fetching", "error"}
  BY <1>0 DEF SelectTask, PollDetail, DetailAnswered, DetailFails, TaskPageTypeOK
<1>4. detail' \in [task : ListedTasks, status : Statuses] \cup {NoDetail}
  <2>1. CASE SelectTask(t)
    BY <1>0, <2>1 DEF SelectTask, TaskPageTypeOK
  <2>2. CASE DetailAnswered
    BY <1>0, <2>2 DEF DetailAnswered, TaskPageTypeOK, TaskPageInv
  <2>3. CASE PollDetail(t) \/ DetailFails
    BY <1>0, <2>3 DEF PollDetail, DetailFails, TaskPageTypeOK
  <2> QED BY <2>1, <2>2, <2>3
<1> QED BY <1>0, <1>1, <1>2, <1>3, <1>4 DEF TaskPageInv, TaskPageTypeOK, listing

\* An uncertain task is settled by hand.
LEMMA SettleSteps ==
    ASSUME TaskPageInv, NEW kindOf \in {"release", "confirm"}, NEW t \in ListedTasks, Settle(kindOf, t)
    PROVE  TaskPageInv'
<1>1. settle' = [kind |-> kindOf, at |-> "pending"] /\ calls' = calls \cup {[kind |-> kindOf, task |-> t]}
  BY DEF Settle
<1>2. UNCHANGED <<status, listing, selectedID, detail, detailFetching>>
  BY DEF Settle
<1> QED BY <1>1, <1>2 DEF TaskPageInv, TaskPageTypeOK, listing

LEMMA SettleEnds ==
    ASSUME TaskPageInv, NEW c \in calls, SettleSucceeds(c) \/ SettleFails(c)
    PROVE  TaskPageInv'
<1>0. TaskPageTypeOK /\ c.task \in ListedTasks /\ c.kind \in {"release", "confirm"}
  BY DEF TaskPageInv, TaskPageTypeOK
<1>1. calls' \subseteq [kind : {"release", "confirm"}, task : ListedTasks]
  BY <1>0 DEF SettleSucceeds, SettleFails, TaskPageTypeOK
<1>2. status' \in [ListedTasks -> Statuses]
  BY <1>0 DEF SettleSucceeds, SettleFails, SettleAtService, TaskPageTypeOK, Statuses
<1>3. settle' \in [kind : {"none", "release", "confirm"}, at : {"idle", "pending", "success", "error"}]
  BY <1>0 DEF SettleSucceeds, SettleFails, Finish, TaskPageTypeOK
<1>4. UNCHANGED <<statusFilter, rows, ownRows, selectedID, detail>>
  BY DEF SettleSucceeds, SettleFails, listing
<1>5. listFetching' \in BOOLEAN
  BY <1>0 DEF SettleSucceeds, SettleFails, listing, TaskPageTypeOK
<1>6. detailFetching' = detailFetching \/ (detailFetching' = "fetching" /\ selectedID = c.task)
  BY DEF SettleSucceeds, SettleFails, Shows
<1> QED BY <1>0, <1>1, <1>2, <1>3, <1>4, <1>5, <1>6 DEF TaskPageInv, TaskPageTypeOK

LEMMA TaskPageStep == TaskPageInv /\ [TaskPageNext]_taskPageVars => TaskPageInv'
<1> SUFFICES ASSUME TaskPageInv, [TaskPageNext]_taskPageVars PROVE TaskPageInv'
  OBVIOUS
<1>0. TaskPageTypeOK
  BY DEF TaskPageInv
<1>1. ASSUME NEW f \in Filters, setFilter(f) PROVE TaskPageInv'
  BY <1>0, <1>1, ClosedDialog DEF setFilter, TaskPageTypeOK
<1>2. CASE CloseDetail
  BY <1>0, <1>2, ClosedDialog DEF CloseDetail, listing, TaskPageTypeOK
<1>3. ASSUME NEW resolved \in SUBSET ListedTasks, CleanupReturns(resolved) PROVE TaskPageInv'
  <2>1. status' \in [ListedTasks -> Statuses]
    BY <1>0, <1>3 DEF CleanupReturns, TaskPageTypeOK, Statuses
  <2> QED BY <1>0, <1>3, <2>1, ClosedDialog DEF CleanupReturns, TaskPageTypeOK
<1>4. ASSUME NEW t \in ListedTasks, TaskStep(t) PROVE TaskPageInv'
  <2>1. status' \in [ListedTasks -> Statuses]
    BY <1>0, <1>4 DEF TaskStep, TaskPageTypeOK, Statuses
  <2> QED BY <1>0, <1>4, <2>1 DEF TaskStep, listing, dialog, TaskPageInv, TaskPageTypeOK
<1>5. CASE DetailAnswered \/ DetailFails
  <2>1. selectedID \in ListedTasks
    BY <1>5 DEF DetailAnswered, DetailFails, TaskPageInv
  <2> QED BY <1>5, <2>1, DialogSteps
<1> QED
  BY <1>1, <1>2, <1>3, <1>4, <1>5, ListSteps, ListArrives, DialogSteps, SettleSteps, SettleEnds DEF TaskPageNext

\* The task page refers to tasks of its list only, and fetches the details of a
\* task only for a dialog, whatever settles, polls and clean-ups are answered when.
THEOREM TaskPageInvariant == TaskPageSpec => []TaskPageInv
<1>1. ASSUME TaskPageInit PROVE TaskPageInv
  <2>1. status \in [ListedTasks -> Statuses]
    BY <1>1 DEF TaskPageInit, Statuses
  <2>2. DOMAIN rows = {} /\ detailFetching = "idle"
    BY <1>1 DEF TaskPageInit
  <2>3. settle \in [kind : {"none", "release", "confirm"}, at : {"idle", "pending", "success", "error"}]
    BY <1>1 DEF TaskPageInit, Idle
  <2> QED BY <1>1, <2>1, <2>2, <2>3 DEF TaskPageInit, TaskPageInv, TaskPageTypeOK, Filters
<1> QED BY <1>1, TaskPageStep, PTL DEF TaskPageSpec

-----------------------------------------------------------------------------
(* The rules of a video request. *)

\* The limits of a row are numbers.
LEMMA RowLimits ==
    ASSUME NEW m \in DOMAIN videoModelDocs
    PROVE  /\ maxVideoReferences(videoModelDocs[m]) \in Nat
           /\ maxAudioReferences(videoModelDocs[m]) \in Nat
           /\ \A withVideo \in BOOLEAN : maxImageReferences(videoModelDocs[m], withVideo) \in Nat
<1> DEFINE doc == videoModelDocs[m]
<1>1. \A r \in Roles, withVideo \in BOOLEAN : maxReferences(doc, r, withVideo) \in Nat
  BY TablesOfferable, Zenon DEF Offerable
<1> HIDE DEF doc
<1>2. maxReferences(doc, "videos", FALSE) = maxVideoReferences(doc)
  BY DEF maxReferences
<1>3. maxReferences(doc, "audio", FALSE) = maxAudioReferences(doc)
  BY DEF maxReferences
<1>4. \A withVideo \in BOOLEAN : maxReferences(doc, "images", withVideo) = maxImageReferences(doc, withVideo)
  BY DEF maxReferences
<1>5. "videos" \in Roles /\ "audio" \in Roles /\ "images" \in Roles /\ FALSE \in BOOLEAN
  BY DEF Roles
<1>6. maxVideoReferences(doc) \in Nat /\ maxAudioReferences(doc) \in Nat
  BY <1>1, <1>2, <1>3, <1>5, Zenon
<1>7. \A withVideo \in BOOLEAN : maxImageReferences(doc, withVideo) \in Nat
  BY <1>1, <1>4, <1>5, Zenon
<1> QED BY <1>6, <1>7 DEF doc

\* The limits of the frames, one by one.
LEMMA FrameLimits ==
    ASSUME NEW doc
    PROVE  /\ maxReferences(doc, "start", FALSE) = IF doc.startEnd THEN 1 ELSE 0
           /\ maxReferences(doc, "end", FALSE) = IF supportsVideoEndFrame(doc) THEN 1 ELSE 0
BY DEF maxReferences

\* What the form lets pass fits the row of the page, but for reference videos
\* that were chosen for a model that takes more.
FilesFit(m, f) ==
    LET doc == videoModelDocs[m]
    IN  /\ f["images"] \in Nat /\ f["start"] \in Nat /\ f["end"] \in Nat /\ f["videos"] \in Nat /\ f["audio"] \in Nat
        /\ f["images"] <= IF f["videos"] > 0 /\ doc.imagesWithVideo # Undefined THEN doc.imagesWithVideo ELSE doc.images
        /\ f["start"] > 0 => doc.startEnd
        /\ f["end"] > 0 => supportsVideoEndFrame(doc)
        /\ f["videos"] <= maxVideoReferences(doc) \/ f["videos"] \in VideosKept(m)
        /\ f["audio"] <= maxAudioReferences(doc)
        /\ doc.requiresStart => f["start"] > 0
        /\ f["images"] > 0 \/ f["videos"] > 0 => f["start"] = 0 /\ f["end"] = 0
        /\ f["audio"] > 0 => f["images"] > 0 \/ f["videos"] > 0

LEMMA SubmissionsFit ==
    ASSUME NEW m \in DOMAIN videoModelDocs, NEW f \in Submissions(m)
    PROVE  FilesFit(m, f)
<1> DEFINE doc == videoModelDocs[m]
           upTo(limit) == {0, Least(1, limit), limit}
<1>0. /\ maxVideoReferences(doc) \in Nat /\ maxAudioReferences(doc) \in Nat
      /\ \A withVideo \in BOOLEAN : maxImageReferences(doc, withVideo) \in Nat
  BY RowLimits
<1>1. \A limit \in Nat : \A n \in upTo(limit) : n \in Nat /\ n <= limit
  BY DEF Least
<1>2. CASE f = NoFiles /\ ~doc.requiresStart
  <2>1. f["images"] = 0 /\ f["start"] = 0 /\ f["end"] = 0 /\ f["videos"] = 0 /\ f["audio"] = 0
    BY <1>2 DEF NoFiles, Roles
  <2>2. doc.images \in Nat
    <3>1. RowsAgree(m)
      BY TablesAgree
    <3> QED BY <3>1 DEF RowsAgree
  <2> HIDE DEF doc
  <2> QED BY <1>0, <1>2, <2>1, <2>2 DEF FilesFit, doc
<1>3. CASE f \in ChosenFiles(m) /\ FormAccepts(doc, f, TRUE)
  <2>1. PICK v \in upTo(maxVideoReferences(doc)) \cup VideosKept(m) :
          f \in [images : upTo(maxImageReferences(doc, v > 0)), start : upTo(maxReferences(doc, "start", FALSE)),
                 end : upTo(maxReferences(doc, "end", FALSE)), videos : {v}, audio : upTo(maxAudioReferences(doc))]
    BY <1>3, Zenon DEF ChosenFiles
  <2> DEFINE i == f.images
             s == f.start
             e == f.end
             a == f.audio
  <2>2. /\ i \in upTo(maxImageReferences(doc, v > 0)) /\ s \in upTo(maxReferences(doc, "start", FALSE))
        /\ e \in upTo(maxReferences(doc, "end", FALSE)) /\ a \in upTo(maxAudioReferences(doc)) /\ f.videos = v
    <3> DEFINE I == upTo(maxImageReferences(doc, v > 0))
               S == upTo(maxReferences(doc, "start", FALSE))
               E == upTo(maxReferences(doc, "end", FALSE))
               A == upTo(maxAudioReferences(doc))
    <3>1. f \in [images : I, start : S, end : E, videos : {v}, audio : A]
      BY <2>1
    <3> HIDE DEF I, S, E, A
    <3>2. f.images \in I /\ f.start \in S /\ f.end \in E /\ f.audio \in A /\ f.videos = v
      BY <3>1
    <3> QED BY <3>2, Zenon DEF I, S, E, A
  <2> HIDE DEF upTo
  <2>3. v \in Nat /\ (v <= maxVideoReferences(doc) \/ v \in VideosKept(m))
    <3>1. ASSUME v \in VideosKept(m) PROVE v \in Nat
      <4>1. v = 0 \/ \E n \in DOMAIN videoModelDocs : v = maxVideoReferences(videoModelDocs[n])
        BY <3>1, Zenon DEF VideosKept
      <4> QED BY <4>1, RowLimits
    <3> QED BY <1>0, <1>1, <2>1, <3>1
  <2>4. (v > 0) \in BOOLEAN
    BY <2>3
  <2>5. i \in Nat /\ i <= IF v > 0 /\ doc.imagesWithVideo # Undefined THEN doc.imagesWithVideo ELSE doc.images
    <3>1. i \in Nat /\ i <= maxImageReferences(doc, v > 0)
      BY <1>0, <1>1, <2>2, <2>4, Zenon
    <3> QED BY <3>1, Zenon DEF maxImageReferences
  <2>6. /\ s \in Nat /\ s <= IF doc.startEnd THEN 1 ELSE 0
        /\ e \in Nat /\ e <= IF supportsVideoEndFrame(doc) THEN 1 ELSE 0
    <3> HIDE DEF doc
    <3>1. maxReferences(doc, "start", FALSE) \in Nat /\ maxReferences(doc, "end", FALSE) \in Nat
      <4>1. maxReferences(doc, "start", FALSE) = IF doc.startEnd THEN 1 ELSE 0
        BY FrameLimits
      <4>2. maxReferences(doc, "end", FALSE) = IF supportsVideoEndFrame(doc) THEN 1 ELSE 0
        BY FrameLimits
      <4>3. (IF doc.startEnd THEN 1 ELSE 0) \in Nat /\ (IF supportsVideoEndFrame(doc) THEN 1 ELSE 0) \in Nat
        OBVIOUS
      <4> QED BY <4>1, <4>2, <4>3, Zenon
    <3>2. s \in Nat /\ s <= maxReferences(doc, "start", FALSE) /\ e \in Nat /\ e <= maxReferences(doc, "end", FALSE)
      BY <1>1, <2>2, <3>1, Zenon
    <3> QED BY <3>2, FrameLimits
  <2>7. a \in Nat /\ a <= maxAudioReferences(doc)
    BY <1>0, <1>1, <2>2, Zenon
  <2>8. f["images"] = i /\ f["start"] = s /\ f["end"] = e /\ f["videos"] = v /\ f["audio"] = a
    BY <2>2
  <2> HIDE DEF i, s, e, a
  <2> HIDE DEF doc
  <2>9. /\ doc.requiresStart => s > 0
        /\ i > 0 \/ v > 0 => ~(s > 0) /\ ~(e > 0)
        /\ a > 0 => i > 0 \/ v > 0
    BY <1>3, <2>8 DEF FormAccepts
  <2> QED BY <2>3, <2>5, <2>6, <2>7, <2>8, <2>9 DEF FilesFit, doc
<1> QED BY <1>2, <1>3 DEF Submissions

\* The checks of the service, one by one.
LEMMA FrameChecksAre ==
    ASSUME NEW spec, NEW f
    PROVE  /\ FrameChecks(spec, f) \subseteq {"frames", "end frame", "end without start", "start required"}
           /\ "frames" \in FrameChecks(spec, f) => f["start"] + f["end"] > 0 /\ ~spec.startEnd
           /\ "end frame" \in FrameChecks(spec, f) => f["end"] > 0 /\ ~spec.endFrame
           /\ "end without start" \in FrameChecks(spec, f) => f["end"] > 0 /\ f["start"] = 0
           /\ "start required" \in FrameChecks(spec, f) => spec.requiresStart /\ f["start"] = 0
BY DEF FrameChecks

LEMMA ReferenceChecksAre ==
    ASSUME NEW spec, NEW f
    PROVE  /\ ReferenceChecks(spec, f) \subseteq {"images", "mixed", "videos", "audio", "combined", "audio alone"}
           /\ "images" \in ReferenceChecks(spec, f) =>
                f["images"] > IF f["videos"] > 0 /\ spec.imagesWithVideo > 0 THEN spec.imagesWithVideo ELSE spec.images
           /\ "mixed" \in ReferenceChecks(spec, f) => f["images"] + f["videos"] > 0 /\ f["start"] + f["end"] > 0
           /\ "videos" \in ReferenceChecks(spec, f) => f["videos"] > spec.videos
           /\ "audio" \in ReferenceChecks(spec, f) => f["audio"] > spec.audios
           /\ "combined" \in ReferenceChecks(spec, f) =>
                spec.items > 0 /\ f["images"] + f["videos"] + f["audio"] > spec.items
           /\ "audio alone" \in ReferenceChecks(spec, f) => f["audio"] > 0 /\ f["images"] = 0 /\ f["videos"] = 0
BY DEF ReferenceChecks

LEMMA OptionChecksAre ==
    ASSUME NEW spec, NEW r
    PROVE  /\ normalizeVideoOptions(spec, r) \subseteq
                {"sound", "size", "duration", "video duration", "resolution", "video resolution", "size resolution", "veo"}
           /\ "sound" \in normalizeVideoOptions(spec, r) =>
                \/ r.audio # "unset" /\ ~spec.generateAudio
                \/ spec.alwaysAudio /\ r.audio = "off"
           /\ "size" \in normalizeVideoOptions(spec, r) => ~SizeAllowed(spec, r.size)
           /\ "duration" \in normalizeVideoOptions(spec, r) => r.duration \notin spec.durations
           /\ "video duration" \in normalizeVideoOptions(spec, r) =>
                /\ r.files["videos"] > 0
                /\ r.duration * 100 < spec.minVideo \/ (spec.maxVideo > 0 /\ r.duration * 100 > spec.maxVideo)
           /\ "resolution" \in normalizeVideoOptions(spec, r) => r.resolution \notin spec.resolutions
           /\ "video resolution" \in normalizeVideoOptions(spec, r) =>
                r.files["videos"] > 0 /\ spec.videoResolutions # {} /\ r.resolution \notin spec.videoResolutions
           /\ "size resolution" \in normalizeVideoOptions(spec, r) => TierOf(spec, r.size) \notin {"", r.resolution}
           /\ "veo" \in normalizeVideoOptions(spec, r) =>
                r.model.name = "veo-3.1" /\ r.files["images"] > 0 /\ (r.size # "1280x720" \/ r.duration # 8)
BY DEF normalizeVideoOptions

\* Where the tables agree on the files, the service leaves only two of its checks
\* to fail.
LEMMA FilesAgree ==
    ASSUME NEW m \in DOMAIN videoModelDocs, NEW f, FilesFit(m, f)
    PROVE  /\ FrameChecks(GetForProvider(m), f) \subseteq {"end without start"}
           /\ ReferenceChecks(GetForProvider(m), f) \subseteq
                {"combined"} \cup {c \in {"videos"} : f["videos"] \in VideosKept(m)}
<1> DEFINE doc == videoModelDocs[m]
           spec == GetForProvider(m)
           frames == FrameChecks(spec, f)
           checks == ReferenceChecks(spec, f)
           i == f["images"]
           s == f["start"]
           e == f["end"]
           v == f["videos"]
           a == f["audio"]
<1>0. RowsAgree(m)
  BY TablesAgree
<1>1. /\ doc.images \in Nat /\ spec.images \in Nat /\ spec.imagesWithVideo \in Nat /\ spec.videos \in Nat
      /\ spec.audios \in Nat /\ spec.items \in Nat /\ doc.images <= spec.images
  BY <1>0 DEF RowsAgree
<1>2. /\ doc.imagesWithVideo = Undefined => spec.imagesWithVideo = 0
      /\ doc.imagesWithVideo # Undefined => doc.imagesWithVideo <= Least(spec.images, spec.imagesWithVideo)
      /\ maxVideoReferences(doc) <= spec.videos /\ maxAudioReferences(doc) <= spec.audios
      /\ doc.startEnd => spec.startEnd
      /\ supportsVideoEndFrame(doc) => spec.endFrame
      /\ spec.requiresStart => doc.requiresStart
  BY <1>0 DEF RowsAgree
<1>3. maxVideoReferences(doc) \in Nat /\ maxAudioReferences(doc) \in Nat
  BY RowLimits
<1>4. supportsVideoEndFrame(doc) => doc.startEnd
  BY DEF supportsVideoEndFrame
<1>5. /\ i \in Nat /\ s \in Nat /\ e \in Nat /\ v \in Nat /\ a \in Nat
      /\ i <= IF v > 0 /\ doc.imagesWithVideo # Undefined THEN doc.imagesWithVideo ELSE doc.images
      /\ s > 0 => doc.startEnd
      /\ e > 0 => supportsVideoEndFrame(doc)
      /\ v <= maxVideoReferences(doc) \/ v \in VideosKept(m)
      /\ a <= maxAudioReferences(doc)
      /\ doc.requiresStart => s > 0
      /\ i > 0 \/ v > 0 => s = 0 /\ e = 0
      /\ a > 0 => i > 0 \/ v > 0
  BY DEF FilesFit
<1> HIDE DEF doc, spec, i, s, e, v, a
<1>6. doc.imagesWithVideo # Undefined => doc.imagesWithVideo \in Nat
  <2>1. maxImageReferences(doc, TRUE) \in Nat
    BY RowLimits, Zenon DEF doc
  <2> QED BY <2>1, Zenon DEF maxImageReferences
<1>7. /\ frames \subseteq {"frames", "end frame", "end without start", "start required"}
      /\ "frames" \in frames => s + e > 0 /\ ~spec.startEnd
      /\ "end frame" \in frames => e > 0 /\ ~spec.endFrame
      /\ "start required" \in frames => spec.requiresStart /\ s = 0
  BY FrameChecksAre, Zenon DEF s, e
<1>8. /\ checks \subseteq {"images", "mixed", "videos", "audio", "combined", "audio alone"}
      /\ "images" \in checks =>
           i > IF v > 0 /\ spec.imagesWithVideo > 0 THEN spec.imagesWithVideo ELSE spec.images
      /\ "mixed" \in checks => i + v > 0 /\ s + e > 0
      /\ "videos" \in checks => v > spec.videos
      /\ "audio" \in checks => a > spec.audios
      /\ "audio alone" \in checks => a > 0 /\ i = 0 /\ v = 0
  BY ReferenceChecksAre, Zenon DEF i, s, e, v, a
<1> HIDE DEF frames, checks
<1>9. frames \subseteq {"end without start"}
  <2>1. ~(s + e > 0 /\ ~spec.startEnd)
    BY <1>2, <1>4, <1>5
  <2>2. ~(e > 0 /\ ~spec.endFrame)
    BY <1>2, <1>5
  <2>3. ~(spec.requiresStart /\ s = 0)
    BY <1>2, <1>5
  <2>4. \A c \in frames : c = "end without start"
    BY <1>7, <2>1, <2>2, <2>3, Zenon
  <2> QED BY <2>4, Zenon
<1>10. checks \subseteq {"combined"} \cup {c \in {"videos"} : v \in VideosKept(m)}
  <2>1. ~(i > IF v > 0 /\ spec.imagesWithVideo > 0 THEN spec.imagesWithVideo ELSE spec.images)
    <3>1. CASE v > 0 /\ doc.imagesWithVideo # Undefined
      BY <1>1, <1>2, <1>5, <1>6, <3>1 DEF Least
    <3>2. CASE ~(v > 0 /\ doc.imagesWithVideo # Undefined)
      BY <1>1, <1>2, <1>5, <3>2
    <3> QED BY <3>1, <3>2
  <2>2. ~(i + v > 0 /\ s + e > 0)
    BY <1>5
  <2>3. v > spec.videos => v \in VideosKept(m)
    BY <1>1, <1>2, <1>3, <1>5
  <2>4. ~(a > spec.audios)
    BY <1>1, <1>2, <1>3, <1>5
  <2>5. ~(a > 0 /\ i = 0 /\ v = 0)
    BY <1>5
  <2>6. \A c \in checks : c = "combined" \/ (c = "videos" /\ v \in VideosKept(m))
    BY <1>8, <2>1, <2>2, <2>3, <2>4, <2>5, Zenon
  <2> QED BY <2>6, Zenon
<1> QED BY <1>9, <1>10, Zenon DEF spec, frames, checks, v

\* Where the tables agree on the other values, three more checks are left, and
\* those of the resolution for Hailuo 2.3.
LEMMA OptionsAgree ==
    ASSUME NEW m \in DOMAIN videoModelDocs, NEW r,
           r.size \in SizesOf(videoModelDocs[m]), r.duration \in videoModelDocs[m].durations,
           r.resolution \in videoResolutionsForSize(videoModelDocs[m], r.size),
           r.audio = "unset" \/ videoModelDocs[m].generateAudio,
           r.audio = "off" => ~videoModelDocs[m].alwaysAudio
    PROVE  normalizeVideoOptions(GetForProvider(m), r) \subseteq
             {"video duration", "video resolution", "veo"}
             \cup {c \in {"resolution", "size resolution"} : m = Leo("hailuo-2.3")}
<1> DEFINE doc == videoModelDocs[m]
           spec == GetForProvider(m)
           checks == normalizeVideoOptions(spec, r)
           hailuo == Leo("hailuo-2.3")
<1>0. RowsAgree(m)
  BY TablesAgree
<1>1. /\ doc.durations \subseteq spec.durations
      /\ \A s \in SizesOf(doc) : SizeAllowed(spec, s)
      /\ m # hailuo =>
           \A s \in SizesOf(doc) : \A t \in videoResolutionsForSize(doc, s) :
              t \in spec.resolutions /\ TierOf(spec, s) \in {"", t}
      /\ doc.generateAudio => spec.generateAudio
      /\ spec.alwaysAudio => doc.alwaysAudio
  BY <1>0, Zenon DEF RowsAgree
<1>2. /\ checks \subseteq
            {"sound", "size", "duration", "video duration", "resolution", "video resolution", "size resolution", "veo"}
      /\ "sound" \in checks =>
           \/ r.audio # "unset" /\ ~spec.generateAudio
           \/ spec.alwaysAudio /\ r.audio = "off"
      /\ "size" \in checks => ~SizeAllowed(spec, r.size)
      /\ "duration" \in checks => r.duration \notin spec.durations
      /\ "resolution" \in checks => r.resolution \notin spec.resolutions
      /\ "size resolution" \in checks => TierOf(spec, r.size) \notin {"", r.resolution}
  BY OptionChecksAre, Zenon
<1>3. /\ r.size \in SizesOf(doc) /\ r.duration \in doc.durations /\ r.resolution \in videoResolutionsForSize(doc, r.size)
      /\ r.audio = "unset" \/ doc.generateAudio
      /\ r.audio = "off" => ~doc.alwaysAudio
  OBVIOUS
<1> HIDE DEF doc, spec, checks, hailuo
<1>4. "sound" \notin checks /\ "size" \notin checks /\ "duration" \notin checks
  BY <1>1, <1>2, <1>3, Zenon
<1>5. m # hailuo => "resolution" \notin checks /\ "size resolution" \notin checks
  BY <1>1, <1>2, <1>3, Zenon
<1>6. \A c \in checks : c \in {"video duration", "video resolution", "veo"}
                          \cup {d \in {"resolution", "size resolution"} : m = hailuo}
  BY <1>2, <1>4, <1>5, Zenon
<1> QED BY <1>6, Zenon DEF spec, checks, hailuo

\* The service accepts the length of every prompt the form lets pass.
LEMMA PromptFits ==
    ASSUME NEW m \in DOMAIN videoModelDocs, NEW n \in {1, videoModelDocs[m].promptMax}
    PROVE  ~(PromptLimit(m) > 0 /\ n > PromptLimit(m))
<1> DEFINE longest == videoModelDocs[m].promptMax
           limit == PromptLimit(m)
<1>1. RowsAgree(m)
  BY TablesAgree
<1>2. longest \in Nat \ {0} /\ (limit > 0 => longest <= limit)
  BY <1>1, Zenon DEF RowsAgree
<1>3. n \in {1, longest}
  OBVIOUS
<1>4. limit \in Nat
  BY DEF PromptLimit
<1> HIDE DEF longest, limit
<1>5. ~(limit > 0 /\ n > limit)
  BY <1>2, <1>3, <1>4
<1> QED BY <1>5 DEF limit

\* Whatever the form sends, the service refuses only for what the form leaves to it.
LEMMA FormRequestAgrees ==
    ASSUME NEW m \in DOMAIN videoModelDocs, NEW f \in Submissions(m), NEW s \in SizesOf(videoModelDocs[m]),
           NEW d \in videoModelDocs[m].durations, NEW t \in videoResolutionsForSize(videoModelDocs[m], s),
           NEW sound \in {"on", "off"}, NEW n \in {1, videoModelDocs[m].promptMax}
    PROVE  Refusals(FormRequest(m, f, d, s, t, sound, n)) \subseteq LeftToService(FormRequest(m, f, d, s, t, sound, n))
<1> DEFINE doc == videoModelDocs[m]
           r == FormRequest(m, f, d, s, t, sound, n)
<1>1. /\ r.model = m /\ r.prompt = n /\ r.duration = d /\ r.size = s /\ r.resolution = t /\ r.files = f
      /\ r.audio = IF ~doc.generateAudio THEN "unset" ELSE IF doc.alwaysAudio THEN "on" ELSE sound
  BY DEF FormRequest
<1> HIDE DEF r
<1>2. /\ FrameChecks(GetForProvider(m), f) \subseteq {"end without start"}
      /\ ReferenceChecks(GetForProvider(m), f) \subseteq
           {"combined"} \cup {c \in {"videos"} : f["videos"] \in VideosKept(m)}
  BY SubmissionsFit, FilesAgree
<1>3. normalizeVideoOptions(GetForProvider(m), r) \subseteq
        {"video duration", "video resolution", "veo"}
        \cup {c \in {"resolution", "size resolution"} : m = Leo("hailuo-2.3")}
  <2>1. r.audio = "unset" \/ doc.generateAudio
    BY <1>1, Zenon
  <2>2. r.audio = "off" => ~doc.alwaysAudio
    BY <1>1
  <2> QED BY <1>1, <2>1, <2>2, OptionsAgree
<1>4. {c \in {"prompt"} : PromptLimit(m) > 0 /\ n > PromptLimit(m)} = {}
  BY PromptFits, Zenon
<1>5. Refusals(r) = FrameChecks(GetForProvider(m), f) \cup ReferenceChecks(GetForProvider(m), f)
                    \cup normalizeVideoOptions(GetForProvider(m), r)
                    \cup {c \in {"prompt"} : PromptLimit(m) > 0 /\ n > PromptLimit(m)}
  BY <1>1, Zenon DEF Refusals
<1>6. LeftToService(r) = {"combined", "end without start", "video duration", "video resolution", "veo"}
                         \cup {c \in {"videos"} : f["videos"] \in VideosKept(m)}
                         \cup {c \in {"resolution", "size resolution"} : m = Leo("hailuo-2.3")}
  BY <1>1, Zenon DEF LeftToService
<1>7. Refusals(r) \subseteq LeftToService(r)
  BY <1>2, <1>3, <1>4, <1>5, <1>6, Zenon
<1> QED BY <1>7 DEF r

\* The service knows every field of the form's JSON body but one.
LEMMA FormFieldsKnown ==
    ASSUME NEW m \in DOMAIN videoModelDocs, NEW f, NEW s, NEW d, NEW t, NEW sound, NEW n
    PROVE  UnknownFields(FormRequest(m, f, d, s, t, sound, n)) \subseteq {"reference_strength"}
<1> DEFINE r == FormRequest(m, f, d, s, t, sound, n)
<1>1. \/ r.fields = OptionFields \cup {"reference_strength"} \cup {"generate_audio"}
      \/ r.fields = OptionFields \cup {"reference_strength"} \cup {}
  BY DEF FormRequest
<1> HIDE DEF r
<1>2. r.fields \ publicVideoJSONRequest \subseteq {"reference_strength"}
  BY <1>1, Zenon DEF publicVideoJSONRequest
<1>3. UnknownFields(r) \subseteq {"reference_strength"}
  BY <1>2 DEF UnknownFields
<1> QED BY <1>3 DEF r

\* The two tables of video models agree on every request that the form can send,
\* for any Creative Fabrica models whose rows agree: the service refuses it only
\* for reference_strength in a JSON body, for one of the five reasons the form
\* leaves to the service, or for reference videos chosen for another model, or
\* for the resolution of Hailuo 2.3.
THEOREM FormsAgreeWithService == RequestSpec => []FormAgreesWithService
<1>1. RequestInit => FormAgreesWithService
  BY DEF RequestInit, FormAgreesWithService
<1>2. FormAgreesWithService /\ [RequestNext]_requestVars => FormAgreesWithService'
  <2> SUFFICES ASSUME FormAgreesWithService, [RequestNext]_requestVars PROVE FormAgreesWithService'
    OBVIOUS
  <2>1. ASSUME NEW m \in DOMAIN videoModelDocs, SendVideoForm(m) PROVE FormAgreesWithService'
    <3> DEFINE doc == videoModelDocs[m]
    <3>1. PICK f \in Submissions(m), s \in SizesOf(doc), d \in Extremes(doc.durations) \cup {doc.defaultDuration},
               sound \in {"on", "off"}, n \in {1, doc.promptMax} :
             \E t \in videoResolutionsForSize(doc, s) : request' = <<FormRequest(m, f, d, s, t, sound, n)>>
      BY <2>1, Zenon DEF SendVideoForm
    <3>2. PICK t \in videoResolutionsForSize(doc, s) : request' = <<FormRequest(m, f, d, s, t, sound, n)>>
      BY <3>1
    <3>3. d \in doc.durations
      <4>1. doc.defaultDuration \in doc.durations
        BY TablesOfferable, Zenon DEF Offerable
      <4> QED BY <3>1, <4>1, Zenon DEF Extremes
    <3> DEFINE r == FormRequest(m, f, d, s, t, sound, n)
    <3>4. Refusals(r) \subseteq LeftToService(r)
      BY <3>3, FormRequestAgrees, Zenon
    <3>5. UnknownFields(r) \subseteq {"reference_strength"}
      BY FormFieldsKnown, Zenon
    <3> HIDE DEF r
    <3>6. request' = <<r>>
      BY <3>2, Zenon DEF r
    <3>7. request'[1] = r
      BY <3>6
    <3> QED BY <3>4, <3>5, <3>7, Zenon DEF FormAgreesWithService
  <2>2. CASE videoGeneration \/ createVideoTask
    <3>1. answer # "none" /\ UNCHANGED request
      BY <2>2 DEF videoGeneration, createVideoTask
    <3> QED BY <3>1, Zenon DEF FormAgreesWithService
  <2>3. CASE NextRequest
    BY <2>3, Zenon DEF NextRequest, FormAgreesWithService
  <2>4. CASE UNCHANGED requestVars
    BY <2>4 DEF requestVars, FormAgreesWithService
  <2> QED BY <2>1, <2>2, <2>3, <2>4 DEF RequestNext
<1> QED BY <1>1, <1>2, PTL DEF RequestSpec

-----------------------------------------------------------------------------
(* The documentation page. *)

\* The first platform of a set in the order of the page is one of the set.
LEMMA FirstOfBelongs ==
    ASSUME NEW S \in SUBSET (DOMAIN DocsRegistry), S # {}
    PROVE  FirstOf(S) \in S
<1> DEFINE places == {i \in DOMAIN DocsOrder : DocsOrder[i] \in S}
<1>1. DOMAIN DocsOrder = 1..3
  BY DEF DocsOrder
<1>2. places # {}
  <2>1. PICK p \in S : p \in Range(DocsOrder)
    BY DocsAssumption
  <2> QED BY <2>1 DEF Range
<1>3. places \in SUBSET Nat
  BY <1>1
<1>4. PICK i \in places : \A j \in places : i <= j
  BY <1>2, <1>3, FirstPosition, Zenon
<1> DEFINE First(n) == DocsOrder[n] \in S /\ \A j \in DOMAIN DocsOrder : DocsOrder[j] \in S => n <= j
<1>5. i \in DOMAIN DocsOrder /\ First(i)
  BY <1>4
<1>6. First(CHOOSE n \in DOMAIN DocsOrder : First(n))
  BY <1>5, Zenon
<1> QED BY <1>6 DEF FirstOf

\* A section shows a model of its platform, or none where the platform has none.
LEMMA SectionShowsModel ==
    ASSUME NEW p \in DOMAIN DocsRegistry, NEW m \in DocsMedia, ShowSection(p, m)
    PROVE  /\ docsProvider' \in DOMAIN DocsRegistry /\ docsMedia' \in DocsMedia /\ docsMode' \in VideoModes
           /\ docsModel' = NoModel \/ docsModel' \in Range(DocsRegistry[docsProvider'][docsMedia'])
<1>1. docsProvider' = p /\ docsMedia' = m /\ docsMode' = "text"
  BY DEF ShowSection
<1>2. docsModel' = IF DocsRegistry[p][m] # <<>> THEN DocsRegistry[p][m][1] ELSE NoModel
  BY DEF ShowSection, ShowModel, providerSupports
<1>3. DocsRegistry[p][m] # <<>> => DocsRegistry[p][m][1] \in Range(DocsRegistry[p][m])
  <2>1. DocsRegistry[p][m] # <<>> => 1 \in DOMAIN DocsRegistry[p][m]
    BY DocsAssumption
  <2> QED BY <2>1 DEF Range
<1> QED BY <1>1, <1>2, <1>3 DEF VideoModes

\* What the page shows, and the platforms it knows of.
DocsShows ==
    /\ docsEnabled = <<>> \/ docsEnabled[1] \in DocsEnabled
    /\ docsProvider \in DOMAIN DocsRegistry
    /\ docsMedia \in DocsMedia
    /\ docsModel = NoModel \/ docsModel \in Range(DocsRegistry[docsProvider][docsMedia])
    /\ docsMode \in VideoModes

LEMMA DocsShowsInit == DocsInit => DocsShows
<1> SUFFICES ASSUME DocsInit PROVE DocsShows
  OBVIOUS
<1>1. /\ docsEnabled = <<>> /\ docsProvider \in {"leonardo", "adobe"} /\ docsMedia = "image" /\ docsMode = "text"
      /\ docsModel = DocsRegistry[docsProvider]["image"][1]
  BY DEF DocsInit
<1>2. docsProvider \in DOMAIN DocsRegistry
  <2>1. DocsOrder[1] = "leonardo" /\ DocsOrder[2] = "adobe" /\ 1 \in DOMAIN DocsOrder /\ 2 \in DOMAIN DocsOrder
    BY DEF DocsOrder
  <2>2. {"leonardo", "adobe"} \subseteq Range(DocsOrder)
    BY <2>1, Zenon DEF Range
  <2> QED BY <1>1, <2>2, DocsAssumption
<1>3. "image" \in DocsMedia /\ "text" \in VideoModes
  BY DEF DocsMedia, VideoModes
<1>4. 1 \in DOMAIN DocsRegistry[docsProvider]["image"]
  BY <1>1, <1>2, <1>3, DocsAssumption
<1>5. docsModel \in Range(DocsRegistry[docsProvider]["image"])
  BY <1>1, <1>4 DEF Range
<1> QED BY <1>1, <1>2, <1>3, <1>5 DEF DocsShows

LEMMA DocsShowsStep == DocsShows /\ [DocsNext]_docsVars => DocsShows'
<1> SUFFICES ASSUME DocsShows, [DocsNext]_docsVars PROVE DocsShows'
  OBVIOUS
<1>0. /\ docsProvider \in DOMAIN DocsRegistry /\ docsMedia \in DocsMedia
      /\ docsEnabled # <<>> => docsEnabled[1] \in DocsEnabled /\ docsEnabled[1] \subseteq DOMAIN DocsRegistry
  BY DocsAssumption DEF DocsShows
<1>1. ASSUME NEW e \in DocsEnabled, ProvidersLoaded(e) PROVE DocsShows'
  <2> DEFINE others == IF e = {} THEN DOMAIN DocsRegistry ELSE e
             p == IF docsProvider \in e THEN docsProvider ELSE FirstOf(others)
  <2>1. others \in SUBSET (DOMAIN DocsRegistry) /\ others # {}
    BY <1>0, <1>1, DocsAssumption
  <2>2. p \in DOMAIN DocsRegistry
    <3> HIDE DEF others
    <3> QED BY <1>0, <2>1, FirstOfBelongs
  <2>3. /\ docsEnabled' = <<e>>
        /\ IF p = docsProvider THEN UNCHANGED <<docsProvider, docsMedia, sectionVars>> ELSE ShowSection(p, docsMedia)
    BY <1>1 DEF ProvidersLoaded
  <2>4. docsEnabled'[1] \in DocsEnabled
    BY <1>1, <2>3
  <2> HIDE DEF p
  <2>5. CASE p = docsProvider
    BY <2>3, <2>4, <2>5 DEF sectionVars, DocsShows
  <2>6. CASE p # docsProvider
    BY <1>0, <2>2, <2>3, <2>4, <2>6, SectionShowsModel DEF DocsShows
  <2> QED BY <2>5, <2>6
<1>2. ASSUME NEW m \in DocsMedia, switchMedia(m) PROVE DocsShows'
  <2> DEFINE able == {p \in docsEnabled[1] : providerSupports(p, m)}
             stays == docsEnabled = <<>> \/ providerSupports(docsProvider, m) \/ able = {}
             p == IF stays THEN docsProvider ELSE FirstOf(able)
  <2>1. p \in DOMAIN DocsRegistry
    <3>1. ~stays => able \in SUBSET (DOMAIN DocsRegistry) /\ able # {}
      BY <1>0
    <3>2. \A S \in SUBSET (DOMAIN DocsRegistry) : S # {} => FirstOf(S) \in DOMAIN DocsRegistry
      BY FirstOfBelongs
    <3> HIDE DEF able, stays
    <3> QED BY <1>0, <3>1, <3>2
  <2>2. ShowSection(p, m) /\ UNCHANGED docsEnabled
    BY <1>2 DEF switchMedia
  <2> HIDE DEF p
  <2> QED BY <2>1, <2>2, SectionShowsModel DEF DocsShows
<1>3. ASSUME NEW p \in DOMAIN DocsRegistry, switchDocsProvider(p) PROVE DocsShows'
  BY <1>0, <1>3, SectionShowsModel DEF switchDocsProvider, DocsShows
<1>4. ASSUME NEW m, selectDocsModel(m) PROVE DocsShows'
  <2>1. /\ docsModel' = m /\ m \in Range(DocsRegistry[docsProvider][docsMedia])
        /\ UNCHANGED <<docsEnabled, docsProvider, docsMedia>>
    BY <1>4 DEF selectDocsModel, ShowModel
  <2>2. docsMode' = docsMode \/ docsMode' = "frame" \/ docsMode' = "text"
    BY <1>4 DEF selectDocsModel
  <2>3. docsMode' \in VideoModes
    BY <2>2 DEF VideoModes, DocsShows
  <2> QED BY <2>1, <2>3 DEF DocsShows
<1>5. ASSUME NEW m \in VideoModes, setDocsMode(m) PROVE DocsShows'
  BY <1>5 DEF setDocsMode, DocsShows
<1>6. CASE UNCHANGED <<docsEnabled, docsProvider, docsMedia, docsModel, docsMode>>
  BY <1>6 DEF DocsShows
<1>7. ASSUME NEW x, setCalcDuration(x) \/ setCalcSize(x) \/ setCalcResolution(x) \/ setCalcOption(x)
      PROVE  UNCHANGED <<docsEnabled, docsProvider, docsMedia, docsModel, docsMode>>
  BY <1>7 DEF setCalcDuration, setCalcSize, setCalcResolution, setCalcOption, SetInput
<1>8. ASSUME NEW s, NEW q, NEW n, setImageInput(s, q, n)
      PROVE  UNCHANGED <<docsEnabled, docsProvider, docsMedia, docsModel, docsMode>>
  BY <1>8 DEF setImageInput, SetInput
<1>9. CASE SubmitEstimate \/ EstimateAnswered \/ EstimateFails \/ UNCHANGED docsVars
  BY <1>6, <1>9 DEF SubmitEstimate, EstimateAnswered, EstimateFails, docsVars
<1> QED BY <1>1, <1>2, <1>3, <1>4, <1>5, <1>6, <1>7, <1>8, <1>9, Zenon DEF DocsNext

\* The kinds of reference, one by one.
LEMMA ModesAre ==
    ASSUME NEW doc
    PROVE  /\ supportsVideoMode(doc, "text") <=> ~doc.requiresStart
           /\ supportsVideoMode(doc, "image") <=> doc.images > 0
           /\ supportsVideoMode(doc, "frame") <=> doc.startEnd
           /\ supportsVideoMode(doc, "video") <=> maxVideoReferences(doc) > 0
           /\ supportsVideoMode(doc, "audio") <=> maxAudioReferences(doc) > 0
BY DEF supportsVideoMode

\* A section opens with a kind of reference its model takes.
LEMMA SectionModeSupported ==
    ASSUME NEW p \in DOMAIN DocsRegistry, NEW m \in DocsMedia, ShowSection(p, m)
    PROVE  ModeSupported'
<1> SUFFICES ASSUME m = "video", DocsRegistry[p][m] # <<>>
             PROVE  supportsVideoMode(videoModelDocs[docsModel'], docsMode')
  BY DEF ShowSection, ShowModel, providerSupports, ModeSupported
<1>1. docsModel' = DocsRegistry[p]["video"][1] /\ docsMode' = "text"
  BY DEF ShowSection, ShowModel, providerSupports
<1>2. ~videoModelDocs[DocsRegistry[p]["video"][1]].requiresStart
  BY DocsVideosAssumption, Zenon
<1> QED BY <1>1, <1>2, ModesAre, Zenon

LEMMA ModeStep == DocsShows /\ ModeSupported /\ [DocsNext]_docsVars => ModeSupported'
<1> SUFFICES ASSUME DocsShows, ModeSupported, [DocsNext]_docsVars PROVE ModeSupported'
  OBVIOUS
<1>1. CASE UNCHANGED <<docsMedia, docsModel, docsMode>>
  BY <1>1 DEF ModeSupported
<1>2. ASSUME NEW e \in DocsEnabled, ProvidersLoaded(e) PROVE ModeSupported'
  <2>1. UNCHANGED <<docsMedia, docsModel, docsMode>> \/ \E p : ShowSection(p, docsMedia)
    BY <1>2 DEF ProvidersLoaded, sectionVars
  <2>2. ASSUME NEW p, ShowSection(p, docsMedia) PROVE ModeSupported'
    <3>1. p \in DOMAIN DocsRegistry
      BY <2>2, DocsShowsStep DEF ShowSection, DocsShows
    <3> QED BY <2>2, <3>1, SectionModeSupported DEF DocsShows
  <2> QED BY <1>1, <2>1, <2>2
<1>3. ASSUME NEW m \in DocsMedia, switchMedia(m) PROVE ModeSupported'
  <2>1. PICK p : ShowSection(p, m)
    BY <1>3 DEF switchMedia
  <2>2. p \in DOMAIN DocsRegistry
    BY <2>1, DocsShowsStep DEF ShowSection, DocsShows
  <2> QED BY <1>3, <2>1, <2>2, SectionModeSupported
<1>4. ASSUME NEW p \in DOMAIN DocsRegistry, switchDocsProvider(p) PROVE ModeSupported'
  BY <1>4, SectionModeSupported DEF switchDocsProvider, DocsShows
<1>5. ASSUME NEW m, selectDocsModel(m) PROVE ModeSupported'
  <2> SUFFICES ASSUME docsMedia = "video" PROVE supportsVideoMode(videoModelDocs[m], docsMode')
    BY <1>5 DEF selectDocsModel, ShowModel, ModeSupported
  <2> DEFINE doc == videoModelDocs[m]
  <2>1. m \in DOMAIN videoModelDocs
    BY <1>5, DocsVideosAssumption DEF selectDocsModel, DocsShows
  <2>2. doc.requiresStart => doc.startEnd
    <3>1. TemplateRow(m)
      BY <2>1, TemplateRows
    <3> QED BY <3>1, Zenon DEF TemplateRow
  <2>3. docsMode' = IF supportsVideoMode(doc, docsMode) THEN docsMode ELSE IF doc.requiresStart THEN "frame" ELSE "text"
    BY <1>5 DEF selectDocsModel
  <2> HIDE DEF doc
  <2>4. supportsVideoMode(doc, docsMode')
    BY <2>2, <2>3, ModesAre, Zenon
  <2> QED BY <2>4 DEF doc
<1>6. ASSUME NEW m, setDocsMode(m) PROVE ModeSupported'
  BY <1>6, Zenon DEF setDocsMode, ModeSupported
<1>7. ASSUME NEW x, setCalcDuration(x) \/ setCalcSize(x) \/ setCalcResolution(x) \/ setCalcOption(x)
      PROVE  UNCHANGED <<docsMedia, docsModel, docsMode>>
  BY <1>7 DEF setCalcDuration, setCalcSize, setCalcResolution, setCalcOption, SetInput
<1>8. ASSUME NEW s, NEW q, NEW n, setImageInput(s, q, n)
      PROVE  UNCHANGED <<docsMedia, docsModel, docsMode>>
  BY <1>8 DEF setImageInput, SetInput
<1>9. CASE SubmitEstimate \/ EstimateAnswered \/ EstimateFails \/ UNCHANGED docsVars
  BY <1>1, <1>9 DEF SubmitEstimate, EstimateAnswered, EstimateFails, docsVars
<1> QED BY <1>1, <1>2, <1>3, <1>4, <1>5, <1>6, <1>7, <1>8, <1>9, Zenon DEF DocsNext

\* The documentation page never shows a model, a section or a kind of reference
\* that its platform does not have, whichever platforms are reported and in
\* whatever order its parts are switched.
THEOREM DocsInvariant == DocsSpec => []DocsInv
<1>1. DocsShows /\ EstimateOfInputs /\ ModeSupported => DocsInv
  <2>1. EstimateOfInputs => estimate.status \in {"none", "pending", "shown", "failed"}
    BY DEF EstimateOfInputs
  <2> QED BY <2>1 DEF DocsInv, DocsTypeOK, DocsShows
<1>2. DocsInit => ModeSupported
  BY DEF DocsInit, ModeSupported
<1> QED
  BY <1>1, <1>2, DocsShowsInit, DocsShowsStep, EstimateInit, EstimateStep, ModeStep, PTL DEF DocsSpec

\* The files of a template, and the limits of its row.
LEMMA TemplateFilesFit ==
    ASSUME NEW m \in DOMAIN videoModelDocs, NEW kindOf \in VideoModes, supportsVideoMode(videoModelDocs[m], kindOf)
    PROVE  LET f == videoModeExample(m, kindOf).files
           IN  /\ FilesFit(m, f)
               /\ f["videos"] <= maxVideoReferences(videoModelDocs[m])
               /\ f["videos"] > 0 => maxVideoReferences(videoModelDocs[m]) > 0
               /\ f["end"] > 0 => f["start"] > 0
               /\ f["images"] + f["videos"] + f["audio"] <= 2
<1> DEFINE doc == videoModelDocs[m]
           f == videoModeExample(m, kindOf).files
           i == f["images"]
           s == f["start"]
           e == f["end"]
           v == f["videos"]
           a == f["audio"]
           one(yes) == IF yes THEN 1 ELSE 0
<1>1. /\ i = one(kindOf \in {"image", "audio"} \/ (kindOf = "video" /\ m = Leo("kling-o3-omni")))
      /\ s = one(kindOf = "frame")
      /\ e = one(kindOf = "frame" /\ supportsVideoEndFrame(doc))
      /\ v = one(kindOf = "video")
      /\ a = one(kindOf = "audio")
  BY DEF videoModeExample
<1>2. TemplateRow(m) /\ RowsAgree(m)
  BY TemplateRows, TablesAgree
<1>3. /\ doc.requiresStart =>
           doc.startEnd /\ doc.images = 0 /\ maxVideoReferences(doc) = 0 /\ maxAudioReferences(doc) = 0
      /\ maxAudioReferences(doc) > 0 => doc.images > 0
      /\ m = Leo("kling-o3-omni") => doc.imagesWithVideo > 0
  BY <1>2, Zenon DEF TemplateRow
<1>4. /\ doc.images \in Nat /\ maxVideoReferences(doc) \in Nat /\ maxAudioReferences(doc) \in Nat
      /\ doc.imagesWithVideo # Undefined => doc.imagesWithVideo \in Nat
  <2>1. maxImageReferences(doc, TRUE) \in Nat
    BY RowLimits, Zenon
  <2>2. doc.imagesWithVideo # Undefined => doc.imagesWithVideo \in Nat
    BY <2>1, Zenon DEF maxImageReferences
  <2>3. doc.images \in Nat
    BY <1>2 DEF RowsAgree
  <2> QED BY <2>2, <2>3, RowLimits
<1>5. /\ kindOf = "text" => ~doc.requiresStart
      /\ kindOf = "image" => doc.images > 0
      /\ kindOf = "frame" => doc.startEnd
      /\ kindOf = "video" => maxVideoReferences(doc) > 0
      /\ kindOf = "audio" => maxAudioReferences(doc) > 0
  BY ModesAre, Zenon
<1>6. kindOf \in {"text", "image", "frame", "video", "audio"}
  BY DEF VideoModes
<1> HIDE DEF i, s, e, v, a, doc
<1>7. /\ i \in Nat /\ s \in Nat /\ e \in Nat /\ v \in Nat /\ a \in Nat
      /\ i <= IF v > 0 /\ doc.imagesWithVideo # Undefined THEN doc.imagesWithVideo ELSE doc.images
      /\ s > 0 => doc.startEnd
      /\ e > 0 => supportsVideoEndFrame(doc)
      /\ v <= maxVideoReferences(doc)
      /\ a <= maxAudioReferences(doc)
      /\ doc.requiresStart => s > 0
      /\ i > 0 \/ v > 0 => s = 0 /\ e = 0
      /\ a > 0 => i > 0 \/ v > 0
      /\ v > 0 => maxVideoReferences(doc) > 0
      /\ e > 0 => s > 0
      /\ i + v + a <= 2
  <2>1. CASE kindOf = "text"
    <3>1. i = 0 /\ s = 0 /\ e = 0 /\ v = 0 /\ a = 0 /\ ~doc.requiresStart
      BY <1>1, <1>5, <2>1
    <3> QED BY <1>4, <3>1
  <2>2. CASE kindOf = "image"
    <3>1. i = 1 /\ s = 0 /\ e = 0 /\ v = 0 /\ a = 0 /\ doc.images > 0
      BY <1>1, <1>5, <2>2
    <3> QED BY <1>3, <1>4, <3>1
  <2>3. CASE kindOf = "frame"
    <3>1. i = 0 /\ s = 1 /\ e = one(supportsVideoEndFrame(doc)) /\ v = 0 /\ a = 0 /\ doc.startEnd
      BY <1>1, <1>5, <2>3
    <3> QED BY <1>4, <3>1
  <2>4. CASE kindOf = "video"
    <3>1. /\ i = one(m = Leo("kling-o3-omni")) /\ s = 0 /\ e = 0 /\ v = 1 /\ a = 0 /\ maxVideoReferences(doc) > 0
      BY <1>1, <1>5, <2>4
    <3>2. CASE m = Leo("kling-o3-omni")
      <4>1. i = 1 /\ doc.imagesWithVideo > 0
        BY <1>3, <3>1, <3>2, Zenon
      <4> QED BY <1>3, <1>4, <3>1, <4>1 DEF Undefined
    <3>3. CASE m # Leo("kling-o3-omni")
      <4>1. i = 0
        BY <3>1, <3>3, Zenon
      <4> QED BY <1>3, <1>4, <3>1, <4>1
    <3> QED BY <3>2, <3>3
  <2>5. CASE kindOf = "audio"
    <3>1. i = 1 /\ s = 0 /\ e = 0 /\ v = 0 /\ a = 1 /\ maxAudioReferences(doc) > 0
      BY <1>1, <1>5, <2>5
    <3> QED BY <1>3, <1>4, <3>1
  <2> QED BY <1>6, <2>1, <2>2, <2>3, <2>4, <2>5
<1>8. FilesFit(m, f)
  BY <1>7, Zenon DEF FilesFit, i, s, e, v, a, doc
<1> QED BY <1>7, <1>8, Zenon DEF i, s, e, v, a, doc

\* The size and the resolution of a template are ones the page's row offers.
LEMMA TemplateOptions ==
    ASSUME NEW m \in DOMAIN videoModelDocs, NEW kindOf
    PROVE  LET doc == videoModelDocs[m]
               r == videoModeExample(m, kindOf)
           IN  /\ r.model = m /\ r.prompt = 1 /\ r.duration = doc.defaultDuration
               /\ r.size = modelVideoSizes(doc)[1].value /\ r.size \in SizesOf(doc)
               /\ r.duration \in doc.durations
               /\ r.resolution \in videoResolutionsForSize(doc, r.size)
               /\ r.audio = "unset" \/ doc.generateAudio
               /\ r.audio # "off"
<1> DEFINE doc == videoModelDocs[m]
           r == videoModeExample(m, kindOf)
           first == modelVideoSizes(doc)[1].value
           tier == videoResolutionForSize(doc, first)
           tiers == Range(doc.resolutions)
           open == IF kindOf = "text" /\ "1080p" \in tiers THEN "1080p"
                   ELSE IF kindOf = "text" /\ "720p" \in tiers THEN "720p"
                   ELSE doc.resolutions[1]
<1>1. /\ r.model = m /\ r.prompt = 1 /\ r.duration = doc.defaultDuration /\ r.size = first
      /\ r.resolution = IF tier # "" THEN tier ELSE open
      /\ r.audio = IF doc.generateAudio THEN "on" ELSE "unset"
  BY DEF videoModeExample
<1>2. /\ 1 \in DOMAIN modelVideoSizes(doc) /\ 1 \in DOMAIN doc.resolutions
      /\ doc.defaultDuration \in doc.durations
  BY TablesOfferable, Zenon DEF Offerable
<1>3. first \in SizesOf(doc)
  BY <1>2, Zenon DEF SizesOf
<1>4. open \in tiers
  <2>1. doc.resolutions[1] \in tiers
    BY <1>2, Zenon DEF Range
  <2> QED BY <2>1, Zenon
<1>5. videoResolutionsForSize(doc, first) = IF tier # "" THEN {tier} ELSE tiers
  BY <1>3, Zenon DEF videoResolutionsForSize
<1> HIDE DEF r, tier, tiers, open, first
<1>6. r.resolution \in videoResolutionsForSize(doc, first)
  <2>1. CASE tier # ""
    <3>1. r.resolution = tier /\ videoResolutionsForSize(doc, first) = {tier}
      BY <1>1, <1>5, <2>1
    <3> QED BY <3>1
  <2>2. CASE tier = ""
    <3>1. r.resolution = open /\ videoResolutionsForSize(doc, first) = tiers
      BY <1>1, <1>5, <2>2
    <3> QED BY <1>4, <3>1
  <2> QED BY <2>1, <2>2
<1>7. r.audio = "unset" \/ doc.generateAudio
  BY <1>1, Zenon
<1>8. r.audio # "off"
  BY <1>1
<1> HIDE DEF doc
<1>9. /\ r.model = m /\ r.prompt = 1 /\ r.duration = doc.defaultDuration
      /\ r.size = first /\ r.size \in SizesOf(doc)
      /\ r.duration \in doc.durations
      /\ r.resolution \in videoResolutionsForSize(doc, r.size)
      /\ r.audio = "unset" \/ doc.generateAudio
      /\ r.audio # "off"
  BY <1>1, <1>2, <1>3, <1>6, <1>7, <1>8, Zenon
<1> QED BY <1>9, Zenon DEF r, first, doc

\* The service accepts the template of every kind of reference a model takes.
LEMMA TemplateAccepted ==
    ASSUME NEW m \in DOMAIN videoModelDocs, NEW kindOf \in VideoModes,
           supportsVideoMode(videoModelDocs[m], kindOf), m # Leo("hailuo-2.3")
    PROVE  Refusals(videoModeExample(m, kindOf)) = {}
<1> DEFINE doc == videoModelDocs[m]
           spec == GetForProvider(m)
           r == videoModeExample(m, kindOf)
           f == r.files
           i == f["images"]
           s == f["start"]
           e == f["end"]
           v == f["videos"]
           a == f["audio"]
           frames == FrameChecks(spec, f)
           checks == ReferenceChecks(spec, f)
           options == normalizeVideoOptions(spec, r)
           first == modelVideoSizes(doc)[1].value
<1>0. RowsAgree(m) /\ TemplateRow(m)
  BY TablesAgree, TemplateRows
<1>1. /\ FilesFit(m, f) /\ v <= maxVideoReferences(doc) /\ (v > 0 => maxVideoReferences(doc) > 0)
      /\ (e > 0 => s > 0) /\ i + v + a <= 2
  BY TemplateFilesFit, Zenon
<1>2. /\ r.model = m /\ r.prompt = 1 /\ r.duration = doc.defaultDuration /\ r.size = first /\ r.size \in SizesOf(doc)
      /\ r.duration \in doc.durations /\ r.resolution \in videoResolutionsForSize(doc, r.size)
      /\ r.audio = "unset" \/ doc.generateAudio
      /\ r.audio # "off"
  BY TemplateOptions, Zenon
<1>3. /\ frames \subseteq {"end without start"}
      /\ checks \subseteq {"combined", "videos"}
  BY <1>1, FilesAgree, Zenon
<1>4. options \subseteq {"video duration", "video resolution", "veo"}
  BY <1>2, OptionsAgree, Zenon
<1>5. "end without start" \in frames => e > 0 /\ s = 0
  BY FrameChecksAre, Zenon
<1>6. /\ "combined" \in checks => spec.items > 0 /\ i + v + a > spec.items
      /\ "videos" \in checks => v > spec.videos
  BY ReferenceChecksAre, Zenon
<1>7. /\ "video duration" \in options =>
           /\ v > 0
           /\ r.duration * 100 < spec.minVideo \/ (spec.maxVideo > 0 /\ r.duration * 100 > spec.maxVideo)
      /\ "video resolution" \in options =>
           v > 0 /\ spec.videoResolutions # {} /\ r.resolution \notin spec.videoResolutions
      /\ "veo" \in options => r.model.name = "veo-3.1" /\ i > 0 /\ (r.size # "1280x720" \/ r.duration # 8)
  BY OptionChecksAre, Zenon
<1>8. /\ spec.items # 1
      /\ maxVideoReferences(doc) > 0 => /\ spec.minVideo <= doc.defaultDuration * 100
                                        /\ spec.maxVideo > 0 => doc.defaultDuration * 100 <= spec.maxVideo
      /\ spec.videoResolutions # {} => videoResolutionsForSize(doc, first) \subseteq spec.videoResolutions
      /\ m.name = "veo-3.1" => first = "1280x720" /\ doc.defaultDuration = 8
  BY <1>0, Zenon DEF TemplateRow
<1>9. doc.defaultDuration \in Nat /\ spec.minVideo \in Nat /\ spec.maxVideo \in Nat
  BY <1>0 DEF TemplateRow
<1>10. spec.items \in Nat /\ spec.videos \in Nat /\ maxVideoReferences(doc) <= spec.videos
  BY <1>0 DEF RowsAgree
<1>11. maxVideoReferences(doc) \in Nat
  BY RowLimits
<1>12. i \in Nat /\ s \in Nat /\ e \in Nat /\ v \in Nat /\ a \in Nat
  BY <1>1 DEF FilesFit
<1>13. {c \in {"prompt"} : PromptLimit(m) > 0 /\ r.prompt > PromptLimit(m)} = {}
  <2>1. ~(PromptLimit(m) > 0 /\ 1 > PromptLimit(m))
    BY PromptFits, Zenon
  <2> QED BY <1>2, <2>1, Zenon
<1>14. Refusals(r) = frames \cup checks \cup options
                     \cup {c \in {"prompt"} : PromptLimit(m) > 0 /\ r.prompt > PromptLimit(m)}
  BY <1>2, Zenon DEF Refusals
<1> HIDE DEF doc, spec, r, f, i, s, e, v, a, frames, checks, options, first
<1>15. ~(e > 0 /\ s = 0)
  BY <1>1, <1>12
<1>16. ~(spec.items > 0 /\ i + v + a > spec.items)
  BY <1>1, <1>8, <1>10, <1>12
<1>17. ~(v > spec.videos)
  BY <1>1, <1>10, <1>11, <1>12
<1>18. ~(v > 0 /\ (r.duration * 100 < spec.minVideo \/ (spec.maxVideo > 0 /\ r.duration * 100 > spec.maxVideo)))
  BY <1>1, <1>2, <1>8, <1>9
<1>19. ~(spec.videoResolutions # {} /\ r.resolution \notin spec.videoResolutions)
  BY <1>2, <1>8, Zenon
<1>20. ~(r.model.name = "veo-3.1" /\ (r.size # "1280x720" \/ r.duration # 8))
  BY <1>2, <1>8, Zenon
<1>21. frames = {}
  BY <1>3, <1>5, <1>15, Zenon
<1>22. checks = {}
  BY <1>3, <1>6, <1>16, <1>17, Zenon
<1>23. options = {}
  BY <1>4, <1>7, <1>18, <1>19, <1>20, Zenon
<1>24. Refusals(r) = {}
  BY <1>13, <1>14, <1>21, <1>22, <1>23, Zenon
<1> QED BY <1>24 DEF r

\* The service knows every field of a JSON template.
LEMMA TemplateFieldsKnown ==
    ASSUME NEW m \in DOMAIN videoModelDocs, NEW kindOf \in VideoModes
    PROVE  UnknownFields(videoModeExample(m, kindOf)) = {}
<1> DEFINE r == videoModeExample(m, kindOf)
<1>1. r.body = "json" => kindOf = "text"
  BY DEF videoModeExample
<1>2. kindOf = "text" => \/ r.fields = OptionFields \cup {"generate_audio"} \cup {}
                         \/ r.fields = OptionFields \cup {} \cup {}
  BY DEF videoModeExample
<1> HIDE DEF r
<1>3. kindOf = "text" => r.fields \ publicVideoJSONRequest = {}
  BY <1>2, Zenon DEF publicVideoJSONRequest
<1>4. UnknownFields(r) = {}
  BY <1>1, <1>3 DEF UnknownFields
<1> QED BY <1>4 DEF r

\* The service accepts every template the page shows, but that of Hailuo 2.3, in
\* whatever order models and kinds of reference are chosen.
THEOREM TemplatesAreAccepted == DocsSpec => []TemplatesAccepted
<1>1. DocsInv => TemplatesAccepted
  <2> SUFFICES ASSUME DocsInv, docsMedia = "video", docsModel # NoModel, docsModel # Leo("hailuo-2.3")
               PROVE  /\ UnknownFields(videoModeExample(docsModel, docsMode)) = {}
                      /\ Refusals(videoModeExample(docsModel, docsMode)) = {}
    BY DEF TemplatesAccepted
  <2>1. docsModel \in DOMAIN videoModelDocs
    BY DocsVideosAssumption, Zenon DEF DocsInv, DocsTypeOK
  <2>2. docsMode \in VideoModes /\ supportsVideoMode(videoModelDocs[docsModel], docsMode)
    BY DEF DocsInv, DocsTypeOK, ModeSupported
  <2> QED BY <2>1, <2>2, TemplateAccepted, TemplateFieldsKnown, Zenon
<1> QED BY <1>1, DocsInvariant, PTL

-----------------------------------------------------------------------------
(* The pages together. *)

\* Whatever the administrator does, every page takes a step of its own or none.
LEMMA GenerationSteps ==
    [GenerationNext]_generationVars =>
        /\ [PlayNext]_playVars /\ [MediaNext]_mediaVars /\ [DocsNext]_docsVars
        /\ [TaskPageNext]_taskPageVars /\ [CleanupNext]_cleanupVars /\ [RequestNext]_requestVars
BY DEF GenerationNext, generationVars

\* Each page behaves among the others as it does alone: what is proved of a page
\* holds of the application, whichever page is open.
THEOREM GenerationImplementsPages ==
    GenerationSpec => PlaySpec /\ MediaSpec /\ DocsSpec /\ TaskPageSpec /\ CleanupSpec /\ RequestSpec
<1>1. GenerationInit => PlayInit /\ MediaInit /\ DocsInit /\ TaskPageInit /\ CleanupInit /\ RequestInit
  BY DEF GenerationInit
<1> QED
  BY <1>1, GenerationSteps, PTL DEF GenerationSpec, PlaySpec, MediaSpec, DocsSpec, TaskPageSpec, CleanupSpec,
     RequestSpec

\* The types of all pages: among them that a request, a task or a model that the
\* pages refer to exists, and that a batch has a legal size.
THEOREM GenerationTypes == GenerationSpec => []GenerationTypeOK
<1>1. PlayInv /\ MediaInv /\ DocsInv /\ TaskPageInv /\ CleanupInv => GenerationTypeOK
  BY DEF PlayInv, MediaInv, DocsInv, TaskPageInv, CleanupInv, GenerationTypeOK
<1> QED
  BY <1>1, GenerationImplementsPages, PlayInvariant, MediaInvariant, DocsInvariant, TaskPageInvariant,
     CleanupInvariant, PTL

=============================================================================
