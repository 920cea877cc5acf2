------------------------------ MODULE Playground ------------------------------
(* The test page of the admin web application: a generation is submitted with *)
(* the user's API key, its task is polled every three seconds and the last    *)
(* success of each kind is kept in IndexedDB. The three media forms share     *)
(* their life cycle and differ in when they may be submitted; what a form may *)
(* contain is the subject of MediaForm. The task query keeps the previous     *)
(* data as a placeholder (shared/api.ts), so "seen" outlives the task id.     *)
EXTENDS Naturals, FiniteSets

CONSTANTS Tasks,        \* 1..n, in the order of submission
          MediaKinds    \* the media tabs this instance opens

\* The page opens on the image tab when it has no state.
ASSUME PlaygroundAssumption ==
    /\ IsFiniteSet(Tasks) /\ Tasks = 1..Cardinality(Tasks)
    /\ MediaKinds \subseteq {"image", "video", "audio"}
    /\ "image" \in MediaKinds

VARIABLES media,        \* the open tab
          apiKey,       \* is an API key filled in
          taskID,       \* the task the page follows, 0 for none
          create,       \* the create mutation
          seen,         \* last data of the task query, of taskID or an earlier task
          fetching,     \* tasks whose query is being fetched
          cancel,       \* the cancel mutation
          cached,       \* task of the cached result the page holds, 0 for none
          snapshot,     \* what the read of IndexedDB returned, not yet delivered
          db,           \* the results IndexedDB holds
          server        \* the tasks as the service knows them

live == <<taskID, create, seen, fetching, cancel>>
cache == <<cached, snapshot, db>>
playVars == <<media, apiKey, live, cache, server>>

None == 0
NoTask == [id |-> None, status |-> "none"]
terminalStatuses == {"succeeded", "failed", "cancelled"}
TaskView == [id : Tasks, status : {"queued", "processing"} \cup terminalStatuses]
Unread == [at |-> "unread", value |-> None]
Delivered == [at |-> "delivered", value |-> None]

PlayTypeOK ==
    /\ media \in MediaKinds \cup {"chat"}
    /\ apiKey \in BOOLEAN
    /\ taskID \in Tasks \cup {None}
    /\ create \in [status : {"idle", "pending", "success", "error"},
                   data : TaskView \cup {NoTask}, request : Tasks \cup {None}]
    /\ seen \in TaskView \cup {NoTask}
    /\ fetching \subseteq Tasks
    /\ cancel \in [pending : BOOLEAN, target : Tasks \cup {None}]
    /\ cached \in Tasks \cup {None}
    /\ snapshot \in [at : {"unread", "read", "delivered"}, value : Tasks \cup {None}]
    /\ db \in [MediaKinds -> Tasks \cup {None}]
    /\ server \in [Tasks -> {"unused", "requested", "refused", "queued", "processing"}
                             \cup terminalStatuses]

-----------------------------------------------------------------------------
(* What the page shows *)

\* The answer of the create mutation until the query has data.
liveCurrent == IF seen # NoTask THEN seen ELSE create.data

current ==
    IF create.status = "pending" THEN NoTask
    ELSE IF liveCurrent # NoTask THEN liveCurrent
    ELSE IF cached # None THEN [id |-> cached, status |-> "succeeded"] ELSE NoTask

\* The data of the query of the task the page follows now.
OwnStatus == IF taskID # None /\ seen.id = taskID THEN seen.status ELSE "none"

activeTask == current # NoTask /\ current.status \notin terminalStatuses
ClearOffered == current # NoTask
CancelOffered == activeTask /\ liveCurrent.status = "queued" /\ ~cancel.pending

Mutant_SubmitLikeImages == create.status # "pending" /\ (media = "chat" => apiKey)

\* Image and chat forms wait for the pending submission only, video and audio
\* forms also for the task on display.
SubmitOffered ==
    /\ create.status # "pending"
    /\ media \in {"video", "audio"} => ~activeTask
    /\ media = "chat" => apiKey

-----------------------------------------------------------------------------
(* The page and its two caches *)

NoCreate == [status |-> "idle", data |-> NoTask, request |-> None]

\* A form that mounts follows nothing and starts to read its cached result.
Mount(kind) ==
    /\ media' = kind
    /\ taskID' = None
    /\ create' = NoCreate
    /\ seen' = NoTask
    /\ fetching' = {}
    /\ cancel' = [pending |-> FALSE, target |-> None]
    /\ cached' = None
    /\ snapshot' = IF kind = "chat" THEN Delivered ELSE Unread

PlayInit ==
    /\ media \in MediaKinds \cup {"chat"}
    /\ apiKey = FALSE
    /\ taskID = None
    /\ create = NoCreate
    /\ seen = NoTask
    /\ fetching = {}
    /\ cancel = [pending |-> FALSE, target |-> None]
    /\ cached = None
    /\ snapshot = IF media = "chat" THEN Delivered ELSE Unread
    /\ db = [k \in MediaKinds |-> None]
    /\ server = [t \in Tasks |-> "unused"]

setMedia(kind) == kind # media /\ Mount(kind) /\ UNCHANGED <<apiKey, db, server>>

setAPIKey ==
    /\ apiKey' = ~apiKey
    /\ UNCHANGED <<media, live, cache, server>>

\* A reload keeps what sessionStorage and IndexedDB hold.
Reload == Mount(media) /\ UNCHANGED <<apiKey, db, server>>

clearCachedResults == db' = [k \in MediaKinds |-> None]

\* The session state is dropped and the page loaded again.
clearPlaygroundCache ==
    /\ Mount("image")
    /\ apiKey' = FALSE
    /\ clearCachedResults
    /\ UNCHANGED server

readCachedResult ==
    /\ snapshot = Unread
    /\ snapshot' = [at |-> "read", value |-> db[media]]
    /\ UNCHANGED <<media, apiKey, live, cached, db, server>>

\* The read resolves and replaces what the page holds by then.
DeliverCachedResult ==
    /\ snapshot.at = "read"
    /\ cached' = snapshot.value
    /\ snapshot' = Delivered
    /\ UNCHANGED <<media, apiKey, live, db, server>>

Mutant_DeleteInMemoryOnly(t) ==
    /\ cached' = t
    /\ db' = IF t = None THEN db ELSE [db EXCEPT ![media] = t]
    /\ UNCHANGED snapshot

setCachedResult(t) ==
    /\ cached' = t
    /\ db' = [db EXCEPT ![media] = t]
    /\ UNCHANGED snapshot

-----------------------------------------------------------------------------
(* Submitting, following and cancelling a task *)

\* The mutation throws before the call when the form is not acceptable.
Submit ==
    /\ SubmitOffered
    /\ taskID' = None
    /\ \/ /\ create' = [NoCreate EXCEPT !.status = "error"]
          /\ UNCHANGED server
       \/ /\ apiKey
          /\ \E t \in Tasks :
               /\ server[t] = "unused"
               /\ \A u \in Tasks : u < t => server[u] # "unused"
               /\ server' = [server EXCEPT ![t] = "requested"]
               /\ create' = [status |-> "pending", data |-> NoTask, request |-> t]
    /\ UNCHANGED <<media, apiKey, seen, fetching, cancel, cache>>

Mutant_RefusalAccepted ==
    LET t == create.request IN
    /\ create.status = "pending"
    /\ server[t] # "requested"
    /\ media # "chat"
    /\ create' = [status |-> "success", request |-> t, data |-> [id |-> t, status |-> "queued"]]
    /\ taskID' = t
    /\ UNCHANGED <<media, apiKey, seen, fetching, cancel, cache, server>>

\* onSuccess: the page follows the task of the answer.
CreateSucceeds ==
    LET t == create.request IN
    /\ media # "chat"
    /\ create.status = "pending"
    /\ server[t] \notin {"requested", "refused"}
    /\ create' = [status |-> "success", request |-> t, data |-> [id |-> t, status |-> "queued"]]
    /\ taskID' = t
    /\ UNCHANGED <<media, apiKey, seen, fetching, cancel, cache, server>>

\* A chat request is answered when its task has ended; the answer is shown as it
\* is and no task is followed.
ChatAnswered ==
    /\ media = "chat"
    /\ create.status = "pending"
    /\ server[create.request] \in terminalStatuses
    /\ create' = [NoCreate EXCEPT !.status = "success"]
    /\ UNCHANGED <<media, apiKey, taskID, seen, fetching, cancel, cache, server>>

\* Refused, or created and the answer lost.
CreateFails ==
    /\ create.status = "pending"
    /\ server[create.request] # "requested"
    /\ create' = [NoCreate EXCEPT !.status = "error"]
    /\ UNCHANGED <<media, apiKey, taskID, seen, fetching, cancel, cache, server>>

Mutant_PollStopsOnShown ==
    /\ taskID # None
    /\ apiKey
    /\ seen.status \notin terminalStatuses
    /\ taskID \notin fetching
    /\ fetching' = fetching \cup {taskID}
    /\ UNCHANGED <<media, apiKey, taskID, create, seen, cancel, cache, server>>

\* refetchInterval: the query's own data decides, not what is on display.
Poll ==
    /\ taskID # None
    /\ apiKey
    /\ OwnStatus \notin terminalStatuses
    /\ taskID \notin fetching
    /\ fetching' = fetching \cup {taskID}
    /\ UNCHANGED <<media, apiKey, taskID, create, seen, cancel, cache, server>>

Mutant_LateSuccessShown(t) ==
    /\ t \in fetching
    /\ fetching' = fetching \ {t}
    /\ IF t = taskID \/ server[t] = "succeeded"
       THEN /\ seen' = [id |-> t, status |-> server[t]]
            /\ IF server[t] = "succeeded" /\ seen' # seen
               THEN setCachedResult(t)
               ELSE UNCHANGED cache
       ELSE UNCHANGED <<seen, cache>>
    /\ UNCHANGED <<media, apiKey, taskID, create, cancel, server>>

\* An answer reaches the page only if it still follows that task; a success
\* is kept in the cache by the effect of the render it causes.
FetchSucceeds(t) ==
    /\ t \in fetching
    /\ fetching' = fetching \ {t}
    /\ IF t = taskID
       THEN /\ seen' = [id |-> t, status |-> server[t]]
            /\ IF server[t] = "succeeded" /\ seen' # seen
               THEN setCachedResult(t)
               ELSE UNCHANGED cache
       ELSE UNCHANGED <<seen, cache>>
    /\ UNCHANGED <<media, apiKey, taskID, create, cancel, server>>

FetchFails(t) ==
    /\ t \in fetching
    /\ fetching' = fetching \ {t}
    /\ UNCHANGED <<media, apiKey, taskID, create, seen, cancel, cache, server>>

\* Posts for the task the page follows, which may be none.
CancelTask ==
    /\ CancelOffered
    /\ cancel' = [pending |-> TRUE, target |-> taskID]
    /\ UNCHANGED <<media, apiKey, taskID, create, seen, fetching, cache, server>>

\* The service cancels a queued task; the page then refetches its task.
CancelAnswered ==
    /\ cancel.pending
    /\ cancel' = [pending |-> FALSE, target |-> None]
    /\ IF cancel.target # None /\ server[cancel.target] = "queued"
       THEN /\ server' = [server EXCEPT ![cancel.target] = "cancelled"]
            /\ fetching' = IF taskID = None THEN fetching ELSE fetching \cup {taskID}
       ELSE UNCHANGED <<server, fetching>>
    /\ UNCHANGED <<media, apiKey, taskID, create, seen, cache>>

clear ==
    /\ ClearOffered
    /\ taskID' = None
    /\ create' = NoCreate
    /\ setCachedResult(None)
    /\ UNCHANGED <<media, apiKey, seen, fetching, cancel, server>>

-----------------------------------------------------------------------------
(* The service, as the page sees it *)

ServerStep(t) ==
    /\ \/ server[t] = "requested" /\ server' \in {[server EXCEPT ![t] = s] : s \in {"queued", "refused"}}
       \/ server[t] = "queued" /\ server' = [server EXCEPT ![t] = "processing"]
       \/ server[t] = "processing"
          /\ server' \in {[server EXCEPT ![t] = s] : s \in {"succeeded", "failed"}}
    /\ UNCHANGED <<media, apiKey, live, cache>>

PlayNext ==
    \/ \E k \in MediaKinds \cup {"chat"} : setMedia(k)
    \/ setAPIKey
    \/ Reload
    \/ clearPlaygroundCache
    \/ readCachedResult
    \/ DeliverCachedResult
    \/ Submit
    \/ CreateSucceeds
    \/ ChatAnswered
    \/ CreateFails
    \/ Poll
    \/ \E t \in Tasks : FetchSucceeds(t)
    \/ \E t \in Tasks : FetchFails(t)
    \/ CancelTask
    \/ CancelAnswered
    \/ clear
    \/ \E t \in Tasks : ServerStep(t)

PlaySpec == PlayInit /\ [][PlayNext]_playVars

\* The browser runs timers; a fetch that is tried again and again succeeds in the
\* end; the service ends every task. The user may do anything or nothing, and
\* nothing is assumed of the other answers.
PlayFairness ==
    /\ WF_playVars(Poll)
    /\ \A t \in Tasks : SF_playVars(FetchSucceeds(t))
    /\ \A t \in Tasks : WF_playVars(ServerStep(t))

-----------------------------------------------------------------------------
(* Properties *)

\* "取消排队" never cancels a task other than the one on display, although it
\* posts for taskID and the display may be the placeholder of an earlier task:
\* video and audio forms cannot be submitted while an unfinished task is shown.
\* (The image form can; it is left out here.)
CancelsOnlyShownTask ==
    [][\A t \in Tasks : cancel'.target = t /\ cancel.target # t /\ media # "image"
                          => current.id = t]_playVars

\* Whatever was submitted, cleared and reopened before, a form that follows no
\* task shows the result IndexedDB holds for it. (The converse fails: a read
\* delivered after a clear brings the cleared result back to the page.)
ShowsStoredResult ==
    snapshot = Delivered /\ media # "chat" /\ liveCurrent = NoTask /\ db[media] # None
        => cached = db[media]

\* A stored result is replaced by newer ones only, although answers for an
\* earlier task may arrive after those of a later one.
StoredResultNewest ==
    [][\A k \in MediaKinds : db'[k] # None => db'[k] >= db[k]]_playVars

\* The page does not wait for ever: a task it follows is shown with its outcome,
\* unless the user turns to something else or removes the API key. Polling stops
\* only on the outcome of this very task, not on that of the placeholder.
EventuallyShowsOutcome ==
    taskID # None ~> taskID = None \/ ~apiKey \/ OwnStatus \in terminalStatuses

-----------------------------------------------------------------------------
(* Why they hold, as an inductive invariant *)

Accepted(t) == server[t] \notin {"unused", "requested", "refused"}

\* No task was submitted after t.
NewestSubmitted(t) == server[t] # "unused" /\ \A u \in Tasks : u > t => server[u] = "unused"

\* Tasks are submitted in their order, and only submitted ones are polled or stored.
ServerKnows ==
    /\ \A t, u \in Tasks : u < t /\ server[t] # "unused" => server[u] # "unused"
    /\ \A t \in fetching : Accepted(t)
    /\ \A k \in MediaKinds : db[k] # None => server[db[k]] # "unused"

\* The page follows its last submission, or none.
FollowsNewest ==
    /\ taskID # None =>
         /\ media # "chat"
         /\ Accepted(taskID) /\ NewestSubmitted(taskID)
         /\ create.data.id = taskID
    /\ create.status = "pending" =>
         /\ taskID = None
         /\ create.request # None /\ NewestSubmitted(create.request)

\* Video and audio forms leave no unfinished task behind: what they show of one is
\* the task they follow, unless it was cleared.
ShowsOwnTask ==
    /\ media # "image" /\ seen # NoTask /\ seen.status \notin terminalStatuses =>
         create.status # "pending" /\ taskID \in {None, seen.id}
    /\ media = "chat" => seen = NoTask

\* Until an answer is seen, what was read of IndexedDB is what it holds, or it
\* was cleared.
ReadIsCurrent ==
    /\ snapshot.at = "unread" => media # "chat"
    /\ media # "chat" /\ seen = NoTask /\ db[media] # None =>
         /\ snapshot.at = "read" => snapshot.value = db[media]
         /\ snapshot.at = "delivered" => cached = db[media]

PlayInv == PlayTypeOK /\ ServerKnows /\ FollowsNewest /\ ShowsOwnTask /\ ReadIsCurrent

=============================================================================
