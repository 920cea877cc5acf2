------------------------------- MODULE TaskPage -------------------------------
(* The task page of the admin web application: a list that is polled while it  *)
(* shows an unfinished task, and a dialog with the details of one task and the *)
(* two ways to settle an uncertain submission by hand. What is on screen is as *)
(* old as the last answer; only unfinished tasks are polled, everything else   *)
(* has to be fetched again by whoever changes it.                              *)
EXTENDS Naturals, FiniteSets

CONSTANT ListedTasks    \* in the order the service lists them

ASSUME TaskPageAssumption == ListedTasks \subseteq Nat \ {0}

MaxCalls == 1     \* settle calls under way at a time

VARIABLES status,            \* the tasks at the service
          statusFilter,
          rows,              \* the list on screen
          ownRows,           \* it answers the filter of now, and is no placeholder
          listFetching,      \* the list of the filter of now is being fetched
          selectedID,        \* 0 for none
          detail,            \* the last answer about a single task, which its query keeps
          detailFetching,    \* the fetch of that answer
          settle,            \* the mutation of the open dialog: release or confirmNotCreated
          calls              \* settle calls under way, of this or of a closed dialog

listing == <<statusFilter, rows, ownRows, listFetching>>
dialog == <<selectedID, detail, detailFetching, settle, calls>>
taskPageVars == <<status, listing, dialog>>

Filters == {"all", "active"}

(* An uncertain task whose reservation was released is "released"; the outcomes *)
(* of tasks are not told apart. *)
Statuses == {"active", "uncertain", "released", "ended"}
uncertain == {"uncertain", "released"}
NoTaskID == 0
Idle == [kind |-> "none", at |-> "idle"]
NoDetail == [task |-> NoTaskID, status |-> "none"]

Matches(t, f) == f = "all" \/ status[t] = "active"
Uncertain == {t \in ListedTasks : status[t] \in uncertain}

TaskPageTypeOK ==
    /\ status \in [ListedTasks -> Statuses]
    /\ statusFilter \in Filters
    /\ DOMAIN rows \subseteq ListedTasks /\ \A t \in DOMAIN rows : rows[t] \in Statuses
    /\ ownRows \in BOOLEAN
    /\ listFetching \in BOOLEAN
    /\ selectedID \in ListedTasks \cup {NoTaskID}
    /\ detail \in [task : ListedTasks, status : Statuses] \cup {NoDetail}
    /\ detailFetching \in {"idle", "fetching", "error"}
    /\ settle \in [kind : {"none", "release", "confirm"}, at : {"idle", "pending", "success", "error"}]
    /\ calls \subseteq [kind : {"release", "confirm"}, task : ListedTasks]

\* The dialog is on screen while the list holds the selected task.
Shows(t) == selectedID = t /\ t \in DOMAIN rows
DetailOpen == selectedID \in DOMAIN rows
Shown == IF detail.task = selectedID THEN detail.status ELSE rows[selectedID]

TaskPageInit ==
    /\ status \in [ListedTasks -> {"active", "ended"}]
    /\ statusFilter = "all"
    /\ rows = [t \in {} |-> "active"]
    /\ ownRows = FALSE
    /\ listFetching = FALSE
    /\ selectedID = NoTaskID
    /\ detail = NoDetail
    /\ detailFetching = "idle"
    /\ settle = Idle
    /\ calls = {}

-----------------------------------------------------------------------------
(* The list *)

OpenPage ==
    /\ ~ownRows
    /\ ~listFetching
    /\ listFetching' = TRUE
    /\ UNCHANGED <<status, statusFilter, rows, ownRows, dialog>>

CloseDialog ==
    /\ selectedID' = NoTaskID
    /\ detailFetching' = "idle"
    /\ settle' = Idle

\* The rows on screen stay until the new list arrives.
setFilter(f) ==
    /\ ~DetailOpen
    /\ f # statusFilter
    /\ statusFilter' = f
    /\ ownRows' = FALSE
    /\ listFetching' = TRUE
    /\ CloseDialog
    /\ UNCHANGED <<status, rows, detail, calls>>

\* refetchInterval of the list.
PollList ==
    /\ ownRows
    /\ \E t \in DOMAIN rows : rows[t] = "active"
    /\ ~listFetching
    /\ listFetching' = TRUE
    /\ UNCHANGED <<status, statusFilter, rows, ownRows, dialog>>

\* A dialog whose task left the list is closed with it; its id stays selected.
ListAnswered ==
    /\ listFetching
    /\ listFetching' = FALSE
    /\ rows' = [t \in {u \in ListedTasks : Matches(u, statusFilter)} |-> status[t]]
    /\ ownRows' = TRUE
    /\ IF selectedID \in DOMAIN rows' THEN UNCHANGED <<detailFetching, settle>>
       ELSE detailFetching' = "idle" /\ settle' = Idle
    /\ UNCHANGED <<status, statusFilter, selectedID, detail, calls>>

ListFails ==
    /\ listFetching
    /\ listFetching' = FALSE
    /\ UNCHANGED <<status, statusFilter, rows, ownRows, dialog>>

-----------------------------------------------------------------------------
(* The dialog of one task *)

\* The details are fetched when the dialog opens, unless the last answer is
\* about this task and not older than staleTime; an older one is shown until
\* the new one arrives, or is already dropped.
SelectTask(t) ==
    /\ ~DetailOpen
    /\ t \in DOMAIN rows
    /\ selectedID' = t
    /\ \/ detailFetching' = "fetching" /\ detail' \in IF detail.task = t THEN {detail, NoDetail} ELSE {NoDetail}
       \/ detail.task = t /\ UNCHANGED <<detail, detailFetching>>
    /\ UNCHANGED <<status, listing, settle, calls>>

CloseDetail ==
    /\ DetailOpen
    /\ CloseDialog
    /\ UNCHANGED <<status, listing, detail, calls>>

Mutant_PollByListRow(t) ==
    /\ Shows(t)
    /\ rows[t] = "active"
    /\ detailFetching # "fetching"
    /\ detailFetching' = "fetching"
    /\ UNCHANGED <<status, listing, selectedID, detail, settle, calls>>

\* refetchInterval of the details: their own status, or the row's at first.
PollDetail(t) ==
    /\ Shows(t)
    /\ Shown = "active"
    /\ detailFetching # "fetching"
    /\ detailFetching' = "fetching"
    /\ UNCHANGED <<status, listing, selectedID, detail, settle, calls>>

DetailAnswered ==
    /\ detailFetching = "fetching"
    /\ detailFetching' = "idle"
    /\ detail' = [task |-> selectedID, status |-> status[selectedID]]
    /\ UNCHANGED <<status, listing, selectedID, settle, calls>>

\* After an error only the polling tries again.
DetailFails ==
    /\ detailFetching = "fetching"
    /\ detailFetching' = "error"
    /\ UNCHANGED <<status, listing, selectedID, detail, settle, calls>>

\* The two buttons of an uncertain task.
SettleOffered(kind, t) ==
    /\ Shows(t)
    /\ Shown \in uncertain
    /\ kind = "release" => Shown = "uncertain"
    /\ settle.at # "pending"

Settle(kind, t) ==
    /\ SettleOffered(kind, t)
    /\ Cardinality(calls) < MaxCalls
    /\ settle' = [kind |-> kind, at |-> "pending"]
    /\ calls' = calls \cup {[kind |-> kind, task |-> t]}
    /\ UNCHANGED <<status, listing, selectedID, detail, detailFetching>>

\* The service looks at the task again; both calls end with its reservation.
SettleAtService(c) ==
    status' = [status EXCEPT ![c.task] = IF c.kind = "confirm" THEN "ended" ELSE "released"]

Finish(c, at) == settle' = IF Shows(c.task) /\ settle.at = "pending" /\ settle.kind = c.kind
                           THEN [settle EXCEPT !.at = at] ELSE settle

Mutant_ListOnlyRefetched(c) ==
    /\ c \in calls
    /\ calls' = calls \ {c}
    /\ status[c.task] \in uncertain
    /\ SettleAtService(c)
    /\ Finish(c, "success")
    /\ listFetching' = TRUE
    /\ UNCHANGED <<statusFilter, rows, ownRows, selectedID, detail, detailFetching>>

\* onSuccess fetches the list and the details of this task again.
SettleSucceeds(c) ==
    /\ c \in calls
    /\ calls' = calls \ {c}
    /\ status[c.task] \in uncertain
    /\ SettleAtService(c)
    /\ Finish(c, "success")
    /\ listFetching' = TRUE
    /\ detailFetching' = IF Shows(c.task) THEN "fetching" ELSE detailFetching
    /\ UNCHANGED <<statusFilter, rows, ownRows, selectedID, detail>>

\* 409, or settled and the answer lost: an error, and nothing is fetched.
SettleFails(c) ==
    /\ c \in calls
    /\ calls' = calls \ {c}
    /\ \/ status[c.task] \in uncertain /\ SettleAtService(c)
       \/ UNCHANGED status
    /\ Finish(c, "error")
    /\ UNCHANGED <<listing, selectedID, detail, detailFetching>>

-----------------------------------------------------------------------------
(* The clean-up of TaskCleanup ends: it closes the dialog and fetches the list *)

CleanupReturns(resolved) ==
    /\ resolved \subseteq Uncertain
    /\ status' = [t \in ListedTasks |-> IF t \in resolved THEN "ended" ELSE status[t]]
    /\ CloseDialog
    /\ listFetching' = TRUE
    /\ UNCHANGED <<statusFilter, rows, ownRows, detail, calls>>

-----------------------------------------------------------------------------
(* The service runs its tasks *)

TaskStep(t) ==
    /\ status[t] = "active"
    /\ \E s \in {"uncertain", "ended"} : status' = [status EXCEPT ![t] = s]
    /\ UNCHANGED <<listing, dialog>>

TaskPageNext ==
    \/ OpenPage
    \/ \E f \in Filters : setFilter(f)
    \/ PollList
    \/ ListAnswered
    \/ ListFails
    \/ \E t \in ListedTasks : SelectTask(t)
    \/ CloseDetail
    \/ \E t \in ListedTasks : PollDetail(t)
    \/ DetailAnswered
    \/ DetailFails
    \/ \E kind \in {"release", "confirm"}, t \in ListedTasks : Settle(kind, t)
    \/ \E c \in calls : SettleSucceeds(c)
    \/ \E c \in calls : SettleFails(c)
    \/ \E resolved \in SUBSET ListedTasks : CleanupReturns(resolved)
    \/ \E t \in ListedTasks : TaskStep(t)

TaskPageSpec == TaskPageInit /\ [][TaskPageNext]_taskPageVars

\* The timer of an open dialog fires, and a fetch that is tried again and again
\* succeeds in the end; tasks end. Nothing is assumed of the list or of the
\* administrator.
TaskPageFairness ==
    /\ \A t \in ListedTasks : WF_taskPageVars(PollDetail(t))
    /\ SF_taskPageVars(DetailAnswered)
    /\ \A t \in ListedTasks : WF_taskPageVars(TaskStep(t))

-----------------------------------------------------------------------------
(* Properties *)

\* The task of an open dialog does not stay unfinished on screen, although the
\* list may have its outcome first and stop being polled.
DetailFollowsTask ==
    DetailOpen /\ Shown = "active" ~> ~DetailOpen \/ Shown # "active"

\* An uncertain task is not polled, so the dialog that settled it has to fetch
\* it again: it does not go on offering to settle it, unless that fetch failed.
SettledIsShown ==
    DetailOpen /\ settle = [kind |-> "confirm", at |-> "success"]
        ~> \/ ~DetailOpen \/ Shown \notin uncertain
           \/ settle.at # "success" \/ detailFetching = "error"

-----------------------------------------------------------------------------
(* Why the page never asks for nothing, as an inductive invariant *)

\* Details are fetched of a task, and only while its dialog may be open.
TaskPageInv == TaskPageTypeOK /\ (detailFetching = "fetching" => selectedID \in ListedTasks)

=============================================================================
