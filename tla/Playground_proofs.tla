--------------------------- MODULE Playground_proofs ---------------------------
(***************************************************************************)
(* Proofs about the test page: what it stores, shows and cancels, for any  *)
(* number of submissions and every order of answers.                       *)
(***************************************************************************)
EXTENDS Playground, FiniteSetTheorems, TLAPS

-----------------------------------------------------------------------------

\* Tasks are numbered from one, and no task looks like none.
LEMMA TaskFacts ==
    /\ Tasks \subseteq Nat \ {0} /\ None \notin Tasks
    /\ NoTask \notin TaskView /\ NoTask.id = None /\ NoTask.status = "none"
    /\ \A r \in TaskView : r.id \in Tasks /\ r # NoTask
<1>1. Tasks \subseteq Nat \ {0}
  BY PlaygroundAssumption, FS_CardinalityType
<1> QED BY <1>1 DEF None, NoTask, TaskView

\* A freshly mounted form has nothing under way.
LEMMA MountKeepsInv ==
    ASSUME PlayInv, NEW k \in MediaKinds \cup {"chat"}, Mount(k), apiKey' \in BOOLEAN,
           db' = db \/ clearCachedResults, UNCHANGED server
    PROVE  PlayInv'
<1>0. PlayTypeOK
  BY DEF PlayInv
<1>1. PlayTypeOK'
  <2>1. create' \in [status : {"idle", "pending", "success", "error"},
                     data : TaskView \cup {NoTask}, request : Tasks \cup {None}]
    BY DEF Mount, NoCreate
  <2>2. snapshot' \in [at : {"unread", "read", "delivered"}, value : Tasks \cup {None}]
    BY DEF Mount, Delivered, Unread
  <2>3. cancel' \in [pending : BOOLEAN, target : Tasks \cup {None}]
    BY DEF Mount
  <2>4. db' \in [MediaKinds -> Tasks \cup {None}]
    BY <1>0 DEF PlayTypeOK, clearCachedResults
  <2> QED BY <1>0, <2>1, <2>2, <2>3, <2>4 DEF PlayTypeOK, Mount
<1>2. ServerKnows'
  BY DEF PlayInv, ServerKnows, Mount, clearCachedResults, Accepted
<1>3. FollowsNewest' /\ ShowsOwnTask'
  BY DEF FollowsNewest, ShowsOwnTask, Mount, NoCreate
<1>4. ReadIsCurrent'
  BY DEF ReadIsCurrent, Mount, Delivered, Unread
<1> QED BY <1>1, <1>2, <1>3, <1>4 DEF PlayInv

\* The read of IndexedDB and its delivery.
LEMMA ReadKeepsInv ==
    ASSUME PlayInv, readCachedResult \/ DeliverCachedResult
    PROVE  PlayInv'
<1>0. PlayTypeOK /\ ServerKnows /\ FollowsNewest /\ ShowsOwnTask /\ ReadIsCurrent
      /\ UNCHANGED <<media, apiKey, taskID, create, seen, fetching, cancel, db, server>>
  BY DEF PlayInv, readCachedResult, DeliverCachedResult, live
<1>1. CASE readCachedResult
  <2>1. media \in MediaKinds /\ UNCHANGED cached /\ snapshot' = [at |-> "read", value |-> db[media]]
    BY <1>0, <1>1 DEF readCachedResult, ReadIsCurrent, Unread, PlayTypeOK
  <2>2. snapshot' \in [at : {"unread", "read", "delivered"}, value : Tasks \cup {None}]
    BY <1>0, <2>1 DEF PlayTypeOK
  <2>3. PlayTypeOK'
    BY <1>0, <2>1, <2>2 DEF PlayTypeOK
  <2>4. ReadIsCurrent'
    BY <1>0, <2>1 DEF ReadIsCurrent
  <2> QED BY <1>0, <2>3, <2>4 DEF PlayInv, ServerKnows, FollowsNewest, ShowsOwnTask, Accepted, NewestSubmitted
<1>2. CASE DeliverCachedResult
  <2>1. snapshot.at = "read" /\ cached' = snapshot.value /\ snapshot' = Delivered
    BY <1>2 DEF DeliverCachedResult
  <2>2. snapshot' \in [at : {"unread", "read", "delivered"}, value : Tasks \cup {None}]
    BY <2>1 DEF Delivered
  <2>3. PlayTypeOK'
    BY <1>0, <2>1, <2>2 DEF PlayTypeOK
  <2>4. ReadIsCurrent'
    BY <1>0, <2>1 DEF ReadIsCurrent, Delivered
  <2> QED BY <1>0, <2>3, <2>4 DEF PlayInv, ServerKnows, FollowsNewest, ShowsOwnTask, Accepted, NewestSubmitted
<1> QED BY <1>1, <1>2

\* A form is sent, or thrown back before the call.
LEMMA SubmitKeepsInv ==
    ASSUME PlayInv, Submit
    PROVE  PlayInv'
<1>0. /\ PlayTypeOK /\ ServerKnows /\ FollowsNewest /\ ShowsOwnTask /\ ReadIsCurrent
      /\ SubmitOffered /\ taskID' = None
      /\ UNCHANGED <<media, apiKey, seen, fetching, cancel, cached, snapshot, db>>
  BY DEF PlayInv, Submit, cache
<1>1. create' \in [status : {"idle", "pending", "success", "error"},
                   data : TaskView \cup {NoTask}, request : Tasks \cup {None}]
  BY DEF Submit, NoCreate
<1>2. PlayTypeOK'
  BY <1>0, <1>1 DEF PlayTypeOK, Submit
<1>3. ReadIsCurrent'
  BY <1>0 DEF ReadIsCurrent
<1>4. CASE create' = [NoCreate EXCEPT !.status = "error"] /\ UNCHANGED server
  <2>1. create'.status = "error"
    BY <1>4 DEF NoCreate
  <2> QED BY <1>0, <1>2, <1>3, <1>4, <2>1
          DEF PlayInv, ServerKnows, FollowsNewest, ShowsOwnTask, Accepted, NewestSubmitted
<1>5. ASSUME NEW t \in Tasks, server[t] = "unused", \A u \in Tasks : u < t => server[u] # "unused",
             server' = [server EXCEPT ![t] = "requested"],
             create' = [status |-> "pending", data |-> NoTask, request |-> t]
      PROVE  PlayInv'
  <2>0. /\ server \in [Tasks -> {"unused", "requested", "refused", "queued", "processing"} \cup terminalStatuses]
        /\ db \in [MediaKinds -> Tasks \cup {None}] /\ fetching \subseteq Tasks
    BY <1>0 DEF PlayTypeOK
  <2>1. server'[t] = "requested" /\ \A u \in Tasks \ {t} : server'[u] = server[u]
    BY <1>5, <2>0
  <2>2. \A u \in Tasks : u > t => server[u] = "unused"
    BY <1>0, <1>5, TaskFacts DEF ServerKnows
  <2>3. ServerKnows'
    <3>1. \A w, u \in Tasks : u < w /\ server'[w] # "unused" => server'[u] # "unused"
      BY <1>0, <1>5, <2>1, TaskFacts DEF ServerKnows
    <3>2. \A w \in fetching' : Accepted(w)'
      BY <1>0, <1>5, <2>0, <2>1 DEF ServerKnows, Accepted
    <3>3. \A k \in MediaKinds : db'[k] # None => server'[db'[k]] # "unused"
      BY <1>0, <2>0, <2>1 DEF ServerKnows
    <3> QED BY <3>1, <3>2, <3>3 DEF ServerKnows
  <2>4. NewestSubmitted(t)'
    BY <2>1, <2>2, TaskFacts DEF NewestSubmitted
  <2>5. FollowsNewest'
    BY <1>0, <1>5, <2>4, TaskFacts DEF FollowsNewest
  <2>6. ShowsOwnTask'
    <3>1. media # "image" /\ seen # NoTask => seen.status \in terminalStatuses
      <4>1. media \in {"image", "video", "audio", "chat"} /\ create.status # "pending"
        BY <1>0, PlaygroundAssumption DEF PlayTypeOK, SubmitOffered
      <4>2. CASE media \in {"video", "audio"}
        BY <1>0, <4>1, <4>2 DEF SubmitOffered, activeTask, current, liveCurrent
      <4>3. CASE media = "chat"
        BY <1>0, <4>3 DEF ShowsOwnTask
      <4> QED BY <4>1, <4>2, <4>3
    <3> QED BY <1>0, <3>1 DEF ShowsOwnTask
  <2> QED BY <1>2, <1>3, <2>3, <2>5, <2>6 DEF PlayInv
<1> QED BY <1>4, <1>5 DEF Submit

\* The answer of a submission.
LEMMA AnswerKeepsInv ==
    ASSUME PlayInv, CreateSucceeds \/ ChatAnswered \/ CreateFails
    PROVE  PlayInv'
<1>0. /\ PlayTypeOK /\ ServerKnows /\ FollowsNewest /\ ShowsOwnTask /\ ReadIsCurrent
      /\ create.status = "pending" /\ taskID = None
      /\ create.request \in Tasks /\ NewestSubmitted(create.request)
      /\ UNCHANGED <<media, apiKey, seen, fetching, cancel, cached, snapshot, db, server>>
  BY DEF PlayInv, CreateSucceeds, ChatAnswered, CreateFails, cache, FollowsNewest, PlayTypeOK
<1>1. ReadIsCurrent' /\ ServerKnows'
  BY <1>0 DEF ReadIsCurrent, ServerKnows, Accepted
<1>2. CASE CreateSucceeds
  <2> PICK t \in Tasks : t = create.request
    BY <1>0
  <2>1. /\ create' = [status |-> "success", request |-> t, data |-> [id |-> t, status |-> "queued"]]
        /\ taskID' = t /\ media # "chat" /\ Accepted(t) /\ t \in Tasks
    BY <1>0, <1>2 DEF CreateSucceeds, Accepted, NewestSubmitted
  <2>2. create' \in [status : {"idle", "pending", "success", "error"},
                     data : TaskView \cup {NoTask}, request : Tasks \cup {None}]
    BY <2>1 DEF TaskView
  <2>3. PlayTypeOK'
    BY <1>0, <2>1, <2>2 DEF PlayTypeOK
  <2>4. NewestSubmitted(t)' /\ Accepted(t)'
    BY <1>0, <2>1 DEF NewestSubmitted, Accepted
  <2>5. FollowsNewest'
    BY <1>0, <2>1, <2>4 DEF FollowsNewest, NewestSubmitted, Accepted
  <2>6. ShowsOwnTask'
    BY <1>0 DEF ShowsOwnTask
  <2> QED BY <1>1, <2>3, <2>5, <2>6 DEF PlayInv
<1>3. CASE ChatAnswered \/ CreateFails
  <2>1. UNCHANGED taskID /\ \E s \in {"success", "error"} : create' = [NoCreate EXCEPT !.status = s]
    BY <1>3 DEF ChatAnswered, CreateFails
  <2>2. create' \in [status : {"idle", "pending", "success", "error"},
                     data : TaskView \cup {NoTask}, request : Tasks \cup {None}]
    BY <2>1 DEF NoCreate
  <2>3. create'.status # "pending"
    BY <2>1 DEF NoCreate
  <2>4. PlayTypeOK'
    BY <1>0, <2>1, <2>2 DEF PlayTypeOK
  <2>5. FollowsNewest' /\ ShowsOwnTask'
    BY <1>0, <2>1, <2>3 DEF FollowsNewest, ShowsOwnTask
  <2> QED BY <1>1, <2>4, <2>5 DEF PlayInv
<1> QED BY <1>2, <1>3

\* A poll is sent, or fails.
LEMMA PollKeepsInv ==
    ASSUME PlayInv, Poll \/ \E t \in Tasks : FetchFails(t)
    PROVE  PlayInv'
<1>0. /\ PlayTypeOK /\ ServerKnows /\ FollowsNewest /\ ShowsOwnTask /\ ReadIsCurrent
      /\ UNCHANGED <<media, apiKey, taskID, create, seen, cancel, cached, snapshot, db, server>>
  BY DEF PlayInv, Poll, FetchFails, cache
<1>1. \A t \in fetching' : t \in fetching \/ (t = taskID /\ taskID # None)
  BY DEF Poll, FetchFails
<1>2. PlayTypeOK'
  BY <1>0, <1>1 DEF PlayTypeOK
<1>3. ServerKnows'
  BY <1>0, <1>1 DEF ServerKnows, FollowsNewest, Accepted
<1>4. FollowsNewest' /\ ShowsOwnTask' /\ ReadIsCurrent'
  BY <1>0 DEF FollowsNewest, ShowsOwnTask, ReadIsCurrent, Accepted, NewestSubmitted
<1> QED BY <1>2, <1>3, <1>4 DEF PlayInv

\* An answer about a task arrives: only that of the task the page follows is taken.
LEMMA FetchKeepsInv ==
    ASSUME PlayInv, NEW t \in Tasks, FetchSucceeds(t)
    PROVE  PlayInv'
<1>0. /\ PlayTypeOK /\ ServerKnows /\ FollowsNewest /\ ShowsOwnTask /\ ReadIsCurrent
      /\ t \in fetching /\ fetching' = fetching \ {t}
      /\ UNCHANGED <<media, apiKey, taskID, create, cancel, server>>
  BY DEF PlayInv, FetchSucceeds
<1>1. CASE UNCHANGED <<seen, cached, snapshot, db>>
  BY <1>0, <1>1 DEF PlayInv, PlayTypeOK, ServerKnows, FollowsNewest, ShowsOwnTask, ReadIsCurrent,
                    Accepted, NewestSubmitted
<1>2. ASSUME t = taskID, seen' = [id |-> t, status |-> server[t]], snapshot' = snapshot,
             (db' = db /\ cached' = cached) \/ (cached' = t /\ db' = [db EXCEPT ![media] = t])
      PROVE  PlayInv'
  <2>0. /\ server \in [Tasks -> {"unused", "requested", "refused", "queued", "processing"} \cup terminalStatuses]
        /\ db \in [MediaKinds -> Tasks \cup {None}] /\ fetching \subseteq Tasks
    BY <1>0 DEF PlayTypeOK
  <2>1. seen' \in TaskView /\ seen' # NoTask /\ seen'.id = t
    BY <1>0, <1>2, <2>0, TaskFacts DEF TaskView, ServerKnows, Accepted
  <2>2. db' \in [MediaKinds -> Tasks \cup {None}] /\ \A k \in MediaKinds : db'[k] \in {db[k], t}
    BY <1>2, <2>0
  <2>3. PlayTypeOK'
    BY <1>0, <1>2, <2>1, <2>2 DEF PlayTypeOK
  <2>4. ServerKnows'
    BY <1>0, <2>2 DEF ServerKnows, Accepted
  <2>5. FollowsNewest'
    BY <1>0 DEF FollowsNewest, Accepted, NewestSubmitted
  <2>6. ShowsOwnTask'
    BY <1>0, <1>2, <2>1, TaskFacts DEF ShowsOwnTask, FollowsNewest
  <2>7. ReadIsCurrent'
    BY <1>0, <1>2, <2>1 DEF ReadIsCurrent
  <2> QED BY <2>3, <2>4, <2>5, <2>6, <2>7 DEF PlayInv
<1> QED BY <1>1, <1>2 DEF FetchSucceeds, setCachedResult, cache

\* Cancelling.
LEMMA CancelKeepsInv ==
    ASSUME PlayInv, CancelTask \/ CancelAnswered
    PROVE  PlayInv'
<1>0. /\ PlayTypeOK /\ ServerKnows /\ FollowsNewest /\ ShowsOwnTask /\ ReadIsCurrent
      /\ UNCHANGED <<media, apiKey, taskID, create, seen, cached, snapshot, db>>
  BY DEF PlayInv, CancelTask, CancelAnswered, cache
<1>1. ReadIsCurrent' /\ ShowsOwnTask'
  BY <1>0 DEF ReadIsCurrent, ShowsOwnTask
<1>2. CASE CancelTask
  <2>1. cancel' \in [pending : BOOLEAN, target : Tasks \cup {None}]
    BY <1>0, <1>2 DEF CancelTask, PlayTypeOK
  <2>2. UNCHANGED <<fetching, server>>
    BY <1>2 DEF CancelTask
  <2>3. PlayTypeOK'
    BY <1>0, <2>1, <2>2 DEF PlayTypeOK
  <2>4. ServerKnows' /\ FollowsNewest'
    BY <1>0, <2>2 DEF ServerKnows, FollowsNewest, Accepted, NewestSubmitted
  <2> QED BY <1>1, <2>3, <2>4 DEF PlayInv
<1>3. CASE CancelAnswered
  <2>1. cancel' \in [pending : BOOLEAN, target : Tasks \cup {None}]
    BY <1>3 DEF CancelAnswered
  <2>2. /\ server' = server \/ \E x \in Tasks : server[x] = "queued" /\ server' = [server EXCEPT ![x] = "cancelled"]
        /\ \A t \in fetching' : t \in fetching \/ (t = taskID /\ taskID # None)
    BY <1>0, <1>3 DEF CancelAnswered, PlayTypeOK
  <2>3. /\ server' \in [Tasks -> {"unused", "requested", "refused", "queued", "processing"} \cup terminalStatuses]
        /\ \A t \in Tasks : server'[t] = server[t] \/ (server[t] = "queued" /\ server'[t] = "cancelled")
    BY <1>0, <2>2 DEF PlayTypeOK, terminalStatuses
  <2>4. PlayTypeOK'
    BY <1>0, <2>1, <2>2, <2>3 DEF PlayTypeOK
  <2>5. ServerKnows'
    BY <1>0, <2>2, <2>3 DEF PlayTypeOK, ServerKnows, FollowsNewest, Accepted
  <2>6. FollowsNewest'
    BY <1>0, <2>3 DEF PlayTypeOK, FollowsNewest, Accepted, NewestSubmitted
  <2> QED BY <1>1, <2>4, <2>5, <2>6 DEF PlayInv
<1> QED BY <1>2, <1>3

\* Clearing the display, the stored result with it.
LEMMA ClearKeepsInv ==
    ASSUME PlayInv, clear
    PROVE  PlayInv'
<1>0. /\ PlayTypeOK /\ ServerKnows /\ FollowsNewest /\ ShowsOwnTask /\ ReadIsCurrent
      /\ taskID' = None /\ create' = NoCreate /\ cached' = None /\ db' = [db EXCEPT ![media] = None]
      /\ UNCHANGED <<media, apiKey, seen, fetching, cancel, snapshot, server>>
  BY DEF PlayInv, clear, setCachedResult
<1>1. create' \in [status : {"idle", "pending", "success", "error"},
                   data : TaskView \cup {NoTask}, request : Tasks \cup {None}] /\ create'.status = "idle"
  BY <1>0 DEF NoCreate
<1>2. /\ db' \in [MediaKinds -> Tasks \cup {None}] /\ \A k \in MediaKinds : db'[k] \in {db[k], None}
      /\ media # "chat" => db'[media] = None
  BY <1>0 DEF PlayTypeOK
<1>3. PlayTypeOK'
  BY <1>0, <1>1, <1>2 DEF PlayTypeOK
<1>4. ServerKnows'
  BY <1>0, <1>2 DEF ServerKnows, Accepted
<1>5. FollowsNewest' /\ ShowsOwnTask' /\ ReadIsCurrent'
  BY <1>0, <1>1, <1>2 DEF FollowsNewest, ShowsOwnTask, ReadIsCurrent
<1> QED BY <1>3, <1>4, <1>5 DEF PlayInv

\* A task moves on at the service.
LEMMA ServerKeepsInv ==
    ASSUME PlayInv, NEW t \in Tasks, ServerStep(t)
    PROVE  PlayInv'
<1>0. /\ PlayTypeOK /\ ServerKnows /\ FollowsNewest /\ ShowsOwnTask /\ ReadIsCurrent
      /\ UNCHANGED <<media, apiKey, taskID, create, seen, fetching, cancel, cached, snapshot, db>>
  BY DEF PlayInv, ServerStep, live, cache
<1>1. \E s \in {"refused", "queued", "processing"} \cup terminalStatuses :
        /\ server' = [server EXCEPT ![t] = s]
        /\ server[t] \in {"requested", "queued", "processing"}
        /\ Accepted(t) => s \notin {"unused", "requested", "refused"}
  BY DEF ServerStep, terminalStatuses, Accepted
<1>2. /\ server' \in [Tasks -> {"unused", "requested", "refused", "queued", "processing"} \cup terminalStatuses]
      /\ \A u \in Tasks : /\ Accepted(u) => Accepted(u)'
                          /\ server[u] = "unused" <=> server'[u] = "unused"
  BY <1>0, <1>1 DEF PlayTypeOK, Accepted, terminalStatuses
<1>3. PlayTypeOK'
  BY <1>0, <1>2 DEF PlayTypeOK
<1>4. ServerKnows'
  BY <1>0, <1>2 DEF PlayTypeOK, ServerKnows
<1>5. FollowsNewest'
  BY <1>0, <1>2 DEF PlayTypeOK, FollowsNewest, NewestSubmitted
<1>6. ShowsOwnTask' /\ ReadIsCurrent'
  BY <1>0 DEF ShowsOwnTask, ReadIsCurrent
<1> QED BY <1>3, <1>4, <1>5, <1>6 DEF PlayInv

\* Every step keeps the invariant.
LEMMA StepKeepsPlayInv ==
    ASSUME PlayInv, [PlayNext]_playVars
    PROVE  PlayInv'
<1>0. PlayTypeOK /\ ServerKnows /\ FollowsNewest /\ ShowsOwnTask /\ ReadIsCurrent
  BY DEF PlayInv
<1>1. ASSUME NEW k \in MediaKinds \cup {"chat"}, setMedia(k) PROVE PlayInv'
  BY <1>0, <1>1, MountKeepsInv DEF setMedia, PlayTypeOK
<1>2. CASE Reload
  BY <1>0, <1>2, MountKeepsInv DEF Reload, PlayTypeOK
<1>3. CASE clearPlaygroundCache
  BY <1>3, MountKeepsInv, PlaygroundAssumption DEF clearPlaygroundCache
<1>4. CASE setAPIKey \/ UNCHANGED playVars
  <2>1. apiKey' \in BOOLEAN /\ UNCHANGED <<media, taskID, create, seen, fetching, cancel, cached, snapshot, db, server>>
    BY <1>0, <1>4 DEF setAPIKey, playVars, live, cache, PlayTypeOK
  <2> QED BY <1>0, <2>1 DEF PlayInv, PlayTypeOK, ServerKnows, FollowsNewest, ShowsOwnTask, ReadIsCurrent,
                            Accepted, NewestSubmitted
<1> QED BY <1>1, <1>2, <1>3, <1>4, ReadKeepsInv, SubmitKeepsInv, AnswerKeepsInv, PollKeepsInv, FetchKeepsInv,
           CancelKeepsInv, ClearKeepsInv, ServerKeepsInv DEF PlayNext

\* It holds when the page opens.
LEMMA InitPlayInv == PlayInit => PlayInv
<1> SUFFICES ASSUME PlayInit PROVE PlayInv
  OBVIOUS
<1>1. create \in [status : {"idle", "pending", "success", "error"},
                  data : TaskView \cup {NoTask}, request : Tasks \cup {None}] /\ create.status = "idle"
  BY DEF PlayInit, NoCreate
<1>2. /\ snapshot \in [at : {"unread", "read", "delivered"}, value : Tasks \cup {None}]
      /\ cancel \in [pending : BOOLEAN, target : Tasks \cup {None}]
  BY DEF PlayInit, Delivered, Unread
<1>3. PlayTypeOK
  BY <1>1, <1>2 DEF PlayInit, PlayTypeOK
<1>4. ServerKnows
  BY DEF PlayInit, ServerKnows
<1>5. FollowsNewest /\ ShowsOwnTask
  BY <1>1 DEF PlayInit, FollowsNewest, ShowsOwnTask
<1>6. ReadIsCurrent
  BY DEF PlayInit, ReadIsCurrent, Delivered, Unread
<1> QED BY <1>3, <1>4, <1>5, <1>6 DEF PlayInv

-----------------------------------------------------------------------------
(* The theorems. *)

\* Submissions, answers, polls, tab changes, reloads and clears keep the page
\* following its last submission, or none.
THEOREM PlayInvariant == PlaySpec => []PlayInv
<1>1. PlayInit => PlayInv
  BY InitPlayInv
<1>2. PlayInv /\ [PlayNext]_playVars => PlayInv'
  BY StepKeepsPlayInv
<1> QED BY <1>1, <1>2, PTL DEF PlaySpec

\* A form that follows no task shows the result IndexedDB holds for it
\* (readCachedResult races setCachedResult, playground-page.tsx).
THEOREM StoredResultIsShown == PlaySpec => []ShowsStoredResult
<1>1. PlayInv => ShowsStoredResult
  BY TaskFacts DEF PlayInv, ReadIsCurrent, ShowsStoredResult, Delivered, liveCurrent
<1> QED BY <1>1, PlayInvariant, PTL

\* A stored result is replaced by newer ones only, however late answers arrive.
THEOREM StoredResultsAdvance == PlaySpec => StoredResultNewest
<1>1. PlayInv /\ [PlayNext]_playVars =>
        [\A k \in MediaKinds : db'[k] # None => db'[k] >= db[k]]_playVars
  <2> SUFFICES ASSUME PlayInv, PlayNext, NEW k \in MediaKinds, db'[k] # None PROVE db'[k] >= db[k]
    OBVIOUS
  <2>0. /\ db \in [MediaKinds -> Tasks \cup {None}] /\ db[k] \in Nat /\ taskID \in Tasks \cup {None}
        /\ \A t \in Tasks : t \in Nat
    <3>1. db \in [MediaKinds -> Tasks \cup {None}] /\ taskID \in Tasks \cup {None}
      BY DEF PlayInv, PlayTypeOK
    <3>2. \A t \in Tasks \cup {None} : t \in Nat
      BY TaskFacts DEF None
    <3> QED BY <3>1, <3>2
  <2>1. CASE \E t \in Tasks : FetchSucceeds(t) /\ t = taskID
    <3>1. db[k] # None => db[k] <= taskID
      BY <2>0, <2>1, TaskFacts DEF PlayInv, FollowsNewest, NewestSubmitted, ServerKnows
    <3>2. db'[k] \in {db[k], taskID}
      BY <2>0, <2>1 DEF FetchSucceeds, setCachedResult, cache
    <3> QED BY <2>0, <2>1, <3>1, <3>2 DEF None
  <2>2. CASE db' = db
    BY <2>0, <2>2
  <2>3. CASE clearPlaygroundCache \/ clear
    BY <2>0, <2>3 DEF clearPlaygroundCache, clearCachedResults, clear, setCachedResult
  <2> QED
    BY <2>1, <2>2, <2>3 DEF PlayNext, setMedia, setAPIKey, Reload, readCachedResult, DeliverCachedResult, Submit,
       CreateSucceeds, ChatAnswered, CreateFails, Poll, FetchSucceeds, FetchFails, CancelTask, CancelAnswered,
       ServerStep, cache
<1> QED BY <1>1, PlayInvariant, PTL DEF PlaySpec, StoredResultNewest

\* Only the task on display is cancelled, although the request is made for the
\* task that is followed and the display may be an earlier one's.
THEOREM CancelsWhatIsShown == PlaySpec => CancelsOnlyShownTask
<1>1. PlayInv /\ [PlayNext]_playVars =>
        [\A t \in Tasks : cancel'.target = t /\ cancel.target # t /\ media # "image" => current.id = t]_playVars
  <2> SUFFICES ASSUME PlayInv, PlayNext, NEW t \in Tasks, cancel'.target = t, cancel.target # t, media # "image"
               PROVE  current.id = t
    OBVIOUS
  <2>0. t # None
    BY TaskFacts
  <2>1. CASE CancelTask
    <3>1. taskID = t /\ activeTask /\ create.status # "pending"
      BY <2>0, <2>1 DEF CancelTask, CancelOffered, activeTask, current
    <3>2. current = liveCurrent
      BY <3>1 DEF activeTask, current, terminalStatuses
    <3>3. liveCurrent = seen => seen.id = t
      BY <2>0, <3>1, <3>2, TaskFacts DEF PlayInv, ShowsOwnTask, activeTask
    <3>4. create.data.id = t
      BY <2>0, <3>1 DEF PlayInv, FollowsNewest
    <3> QED BY <3>2, <3>3, <3>4 DEF liveCurrent
  <2>2. CASE cancel' = cancel
    BY <2>2
  <2>3. CASE cancel'.target = None
    BY <2>0, <2>3
  <2> QED
    BY <2>1, <2>2, <2>3 DEF PlayNext, setMedia, Mount, setAPIKey, Reload, clearPlaygroundCache, readCachedResult,
       DeliverCachedResult, Submit, CreateSucceeds, ChatAnswered, CreateFails, Poll, FetchSucceeds, FetchFails,
       CancelAnswered, clear, ServerStep, live
<1> QED BY <1>1, PlayInvariant, PTL DEF PlaySpec, CancelsOnlyShownTask

=============================================================================
