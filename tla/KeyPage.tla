-------------------------------- MODULE KeyPage -------------------------------
(* The API key page: its list, the dialog that creates a key and the notice     *)
(* that shows it, the only time its value can be read, the switch of a row and   *)
(* the dialog that deletes a key. Paging and search narrow what the list shows   *)
(* and are left out; of the fields of a new key, those that decide whether the   *)
(* dialog can be sent and the service accepts it are kept.                       *)
EXTENDS Naturals, FiniteSets

CONSTANTS KeyIDs,      \* in the order in which the service creates them
          MaxDialogs   \* how often the dialog is opened

ASSUME KeyAssumption == KeyIDs \subseteq Nat \ {0} /\ MaxDialogs \in Nat

VARIABLES keys,          \* the service's: [KeyIDs -> state]
          keyRows,       \* the list as last loaded
          keyFetching,   \* the list is being loaded
          registered,    \* the platforms are loaded
          opened,        \* dialogs opened so far; the last one is on display iff creator.open
          creator,       \* the form of that dialog
          creates,       \* the request of each dialog: [status, models, key]
          deleteTarget,  \* 0 or the key whose dialog is open
          deletes,       \* deletions under way
          toggle,        \* the mutation of the rows' switch: <<>> or <<[key, enabled]>>
          newKey,        \* 0 or the key in the notice
          seen,          \* the keys the notice has shown
          unanswered     \* the keys whose creation was answered in vain

listVars == <<keyRows, keyFetching, registered>>
createVars == <<opened, creator, creates>>
deleteVars == <<deleteTarget, deletes>>
noticeVars == <<newKey, seen, unanswered>>
keyVars == <<keys, toggle, listVars, createVars, deleteVars, noticeVars>>

Dialogs == 1..MaxDialogs

\* Permissions: "listed" ones are those of the service, "built in" ones come
\* from the page's own registry, with ids the service does not know.
Permissions == {"listed", "built in"}
providerModelGroups(loaded) == IF loaded THEN {"listed"} ELSE Permissions

NoCreator == [open |-> FALSE, named |-> FALSE, allowed_models |-> {}]
NoRequest == [status |-> "none", models |-> {}, key |-> 0]

Created(k) == keys[k] # "none"
InService(k) == keys[k] \in {"enabled", "disabled"}
Listed(k) == keyRows[k] # "none"

KeyInit ==
    /\ keys = [k \in KeyIDs |-> "none"]
    /\ keyRows = keys
    /\ keyFetching = FALSE
    /\ registered \in BOOLEAN
    /\ opened = 0
    /\ creator = NoCreator
    /\ creates = [d \in Dialogs |-> NoRequest]
    /\ deleteTarget = 0
    /\ deletes = {}
    /\ toggle = <<>>
    /\ newKey = 0
    /\ seen = {}
    /\ unanswered = {}

NoDialog == ~creator.open /\ deleteTarget = 0

-----------------------------------------------------------------------------
(* The list *)

RefreshKeys == keyFetching' = TRUE /\ UNCHANGED <<keyRows, registered>>

\* The window regains the focus.
RefetchKeys ==
    /\ ~keyFetching
    /\ RefreshKeys
    /\ UNCHANGED <<keys, toggle, createVars, deleteVars, noticeVars>>

KeysLoaded ==
    /\ keyFetching
    /\ keyFetching' = FALSE
    /\ keyRows' = [k \in KeyIDs |-> IF InService(k) THEN keys[k] ELSE "none"]
    /\ UNCHANGED <<keys, toggle, registered, createVars, deleteVars, noticeVars>>

KeysFail ==
    /\ keyFetching
    /\ keyFetching' = FALSE
    /\ UNCHANGED <<keys, toggle, keyRows, registered, createVars, deleteVars, noticeVars>>

RegistryLoaded ==
    /\ ~registered
    /\ registered' = TRUE
    /\ UNCHANGED <<keys, toggle, keyRows, keyFetching, createVars, deleteVars, noticeVars>>

\* The row as loaded decides what is sent.
toggleKey(k) ==
    /\ NoDialog
    /\ Listed(k)
    /\ toggle = <<>>
    /\ toggle' = <<[key |-> k, enabled |-> keyRows[k] = "disabled"]>>
    /\ UNCHANGED <<keys, listVars, createVars, deleteVars, noticeVars>>

adminSetAPIKeyEnabled ==
    keys' = [keys EXCEPT ![toggle[1].key] =
               IF ~InService(toggle[1].key) THEN @ ELSE IF toggle[1].enabled THEN "enabled" ELSE "disabled"]

ToggleAnswered ==
    /\ toggle # <<>> /\ InService(toggle[1].key)
    /\ adminSetAPIKeyEnabled
    /\ toggle' = <<>>
    /\ RefreshKeys
    /\ UNCHANGED <<createVars, deleteVars, noticeVars>>

\* Not found, or the call or its answer is lost.
ToggleFails ==
    /\ toggle # <<>>
    /\ toggle' = <<>>
    /\ adminSetAPIKeyEnabled \/ UNCHANGED keys
    /\ UNCHANGED <<listVars, createVars, deleteVars, noticeVars>>

-----------------------------------------------------------------------------
(* Creating a key *)

\* The permissions are those on offer at this moment and are not revised when
\* the platforms arrive.
OpenCreateKey ==
    /\ NoDialog
    /\ opened < MaxDialogs
    /\ opened' = opened + 1
    /\ creator' = [open |-> TRUE, named |-> FALSE, allowed_models |-> providerModelGroups(registered)]
    /\ UNCHANGED <<keys, toggle, creates, listVars, deleteVars, noticeVars>>

\* Also while its request is under way; the mutation goes on without the dialog.
CloseCreateKey ==
    /\ creator.open
    /\ creator' = NoCreator
    /\ UNCHANGED <<keys, toggle, opened, creates, listVars, deleteVars, noticeVars>>

setKeyName ==
    /\ creator.open
    /\ creator' = [creator EXCEPT !.named = ~@]
    /\ UNCHANGED <<keys, toggle, opened, creates, listVars, deleteVars, noticeVars>>

toggleModel(p) ==
    /\ creator.open
    /\ p \in providerModelGroups(registered)
    /\ creator' = [creator EXCEPT !.allowed_models = IF p \in @ THEN @ \ {p} ELSE @ \cup {p}]
    /\ UNCHANGED <<keys, toggle, opened, creates, listVars, deleteVars, noticeVars>>

SubmitCreateKey ==
    /\ creator.open /\ creator.named /\ creator.allowed_models # {}
    /\ creates[opened].status \in {"none", "failed"}
    /\ creates' = [creates EXCEPT ![opened] =
                     [status |-> "sent", models |-> creator.allowed_models, key |-> 0]]
    /\ UNCHANGED <<keys, toggle, opened, creator, listVars, deleteVars, noticeVars>>

adminCreateAPIKey(d) ==
    /\ creates[d].status = "sent"
    /\ creates[d].models \subseteq {"listed"}
    /\ \E k \in KeyIDs :
          /\ ~Created(k) /\ \A j \in KeyIDs : j < k => Created(j)
          /\ keys' = [keys EXCEPT ![k] = "enabled"]
          /\ creates' = [creates EXCEPT ![d] = [@ EXCEPT !.status = "created", !.key = k]]
    /\ UNCHANGED <<toggle, opened, creator, listVars, deleteVars, noticeVars>>

Mutant_ShownInDialogOnly(d) ==
    /\ creates[d].status = "created"
    /\ creates' = [creates EXCEPT ![d] = [NoRequest EXCEPT !.status = "done"]]
    /\ IF creator.open /\ d = opened
       THEN creator' = NoCreator /\ newKey' = creates[d].key /\ seen' = seen \cup {creates[d].key}
       ELSE UNCHANGED <<creator, newKey, seen>>
    /\ RefreshKeys
    /\ UNCHANGED <<keys, toggle, opened, deleteVars, unanswered>>

\* done closes whichever dialog is open and replaces the notice.
CreateKeyAnswered(d) ==
    /\ creates[d].status = "created"
    /\ creates' = [creates EXCEPT ![d] = [NoRequest EXCEPT !.status = "done"]]
    /\ creator' = NoCreator
    /\ newKey' = creates[d].key
    /\ seen' = seen \cup {creates[d].key}
    /\ RefreshKeys
    /\ UNCHANGED <<keys, toggle, opened, deleteVars, unanswered>>

\* Refused, not delivered, or answered in vain: the dialog offers another try.
CreateKeyFails(d) ==
    /\ creates[d].status \in {"sent", "created"}
    /\ creates' = [creates EXCEPT ![d] = [NoRequest EXCEPT !.status = "failed"]]
    /\ unanswered' = unanswered \cup ({creates[d].key} \ {0})
    /\ UNCHANGED <<keys, toggle, opened, creator, listVars, deleteVars, newKey, seen>>

CloseNotice ==
    /\ newKey # 0
    /\ newKey' = 0
    /\ UNCHANGED <<keys, toggle, listVars, createVars, deleteVars, seen, unanswered>>

-----------------------------------------------------------------------------
(* Deleting a key *)

OpenDeleteKey(k) ==
    /\ NoDialog
    /\ Listed(k)
    /\ deleteTarget' = k
    /\ UNCHANGED <<keys, toggle, deletes, listVars, createVars, noticeVars>>

CloseDeleteKey ==
    /\ deleteTarget # 0
    /\ deleteTarget' = 0
    /\ UNCHANGED <<keys, toggle, deletes, listVars, createVars, noticeVars>>

ConfirmDeleteKey ==
    /\ deleteTarget # 0 /\ deleteTarget \notin deletes
    /\ deletes' = deletes \cup {deleteTarget}
    /\ UNCHANGED <<keys, toggle, deleteTarget, listVars, createVars, noticeVars>>

adminDeleteAPIKey(k) == keys' = [keys EXCEPT ![k] = IF InService(k) THEN "deleted" ELSE @]

\* done closes whichever delete dialog is open.
DeleteKeyAnswered(k) ==
    /\ k \in deletes /\ InService(k)
    /\ adminDeleteAPIKey(k)
    /\ deletes' = deletes \ {k}
    /\ deleteTarget' = 0
    /\ RefreshKeys
    /\ UNCHANGED <<toggle, createVars, noticeVars>>

DeleteKeyFails(k) ==
    /\ k \in deletes
    /\ deletes' = deletes \ {k}
    /\ adminDeleteAPIKey(k) \/ UNCHANGED keys
    /\ UNCHANGED <<toggle, deleteTarget, listVars, createVars, noticeVars>>

KeyNext ==
    \/ RefetchKeys
    \/ KeysLoaded
    \/ KeysFail
    \/ RegistryLoaded
    \/ \E k \in KeyIDs : toggleKey(k) \/ OpenDeleteKey(k) \/ DeleteKeyAnswered(k) \/ DeleteKeyFails(k)
    \/ ToggleAnswered
    \/ ToggleFails
    \/ OpenCreateKey
    \/ CloseCreateKey
    \/ setKeyName
    \/ \E p \in Permissions : toggleModel(p)
    \/ SubmitCreateKey
    \/ \E d \in Dialogs : adminCreateAPIKey(d) \/ CreateKeyAnswered(d) \/ CreateKeyFails(d)
    \/ CloseNotice
    \/ CloseDeleteKey
    \/ ConfirmDeleteKey

KeySpec == KeyInit /\ [][KeyNext]_keyVars

-----------------------------------------------------------------------------
(* Properties *)

KeyTypeOK ==
    /\ keys \in [KeyIDs -> {"none", "enabled", "disabled", "deleted"}]
    /\ keyRows \in [KeyIDs -> {"none", "enabled", "disabled"}]
    /\ keyFetching \in BOOLEAN /\ registered \in BOOLEAN
    /\ opened \in 0..MaxDialogs
    /\ creator \in [open : BOOLEAN, named : BOOLEAN, allowed_models : SUBSET Permissions]
    /\ creates \in [Dialogs -> [status : {"none", "sent", "created", "done", "failed"},
                                models : SUBSET Permissions, key : KeyIDs \cup {0}]]
    /\ deleteTarget \in KeyIDs \cup {0} /\ deletes \subseteq KeyIDs
    /\ newKey \in KeyIDs \cup {0} /\ seen \subseteq KeyIDs /\ unanswered \subseteq KeyIDs

\* "The full key is shown only once" (api-key-page.tsx:274), and it is shown:
\* every key the service created is still to be answered, was shown in the
\* notice or its answer was lost on the way, whatever became of the dialog that
\* asked for it.
EveryKeyShown ==
    \A k \in KeyIDs : Created(k) =>
        \/ \E d \in Dialogs : creates[d].status = "created" /\ creates[d].key = k
        \/ k \in seen \cup unanswered

-----------------------------------------------------------------------------
(* Why they hold, as an inductive invariant *)

\* An answer that is on its way names a key.
AnswersNameKeys == \A d \in Dialogs : creates[d].status = "created" => creates[d].key \in KeyIDs

KeyInv == KeyTypeOK /\ EveryKeyShown /\ AnswersNameKeys

=============================================================================
