----------------------------- MODULE CookieImport -----------------------------
(* The bulk import of cookie files on the account page: files are parsed in    *)
(* the background, then a pool of workers creates one account for each. The    *)
(* parsing remembers the platform it was started for, the import uses the one  *)
(* that is chosen now.                                                         *)
EXTENDS Naturals, FiniteSets

CONSTANTS Files,                      \* the files that are picked, each under an id of its own
          FileProvider,               \* the platform whose cookies a file holds, "" for no cookies
          CookieProviders,            \* cookieProviderOptions
          MAX_BULK_COOKIE_FILES,
          COOKIE_IMPORT_CONCURRENCY

ASSUME ImportAssumption ==
    /\ IsFiniteSet(Files)
    /\ FileProvider \in [Files -> CookieProviders \cup {""}]
    /\ MAX_BULK_COOKIE_FILES \in Nat /\ COOKIE_IMPORT_CONCURRENCY \in Nat \ {0}

VARIABLES bulkImportOpen, bulkImportProvider, bulkImportBusy,
          bulkImportConfigValid,
          items,      \* status of the files in the list
          unnamed,    \* listed files whose account name is blank
          unpicked,   \* files not picked yet
          parsing,    \* batches of files being read, with the platform they are read for
          waiting,    \* pendingItems that no worker has taken
          created,    \* accounts the service created for each file
          lost        \* files whose account was created and the answer lost

list == <<items, unnamed, unpicked, parsing>>
work == <<bulkImportBusy, waiting, created, lost>>
importVars == <<bulkImportOpen, bulkImportProvider, bulkImportConfigValid, list, work>>

MaxCreated == 2    \* bounds the retries of a failed file

ImportTypeOK ==
    /\ bulkImportOpen \in BOOLEAN
    /\ bulkImportProvider \in CookieProviders
    /\ bulkImportBusy \in BOOLEAN
    /\ bulkImportConfigValid \in BOOLEAN
    /\ DOMAIN items \subseteq Files
    /\ items \in [DOMAIN items -> {"ready", "invalid", "importing", "submitted", "failed"}]
    /\ unnamed \subseteq DOMAIN items
    /\ unpicked \subseteq Files
    /\ parsing \subseteq [files : SUBSET Files, provider : CookieProviders]
    /\ waiting \subseteq DOMAIN items
    /\ created \in [Files -> 0..MaxCreated]
    /\ lost \subseteq Files

NoItems == [f \in {} |-> "ready"]
WithStatus(f, s) == [items EXCEPT ![f] = s]
Importing == {f \in DOMAIN items : items[f] = "importing"}

Mutant_AllButInvalid == {f \in DOMAIN items : items[f] # "invalid" /\ f \notin unnamed}

\* Ready or failed, with a name. Invalid files keep no cookies.
Importable == {f \in DOMAIN items : items[f] \in {"ready", "failed"} /\ f \notin unnamed}

\* Cookies of the platform's domains, with the names it needs.
validateCookieJSON(f, p) == IF FileProvider[f] = p THEN "ready" ELSE "invalid"

ImportInit ==
    /\ bulkImportOpen = FALSE
    /\ bulkImportProvider \in CookieProviders
    /\ bulkImportBusy = FALSE
    /\ bulkImportConfigValid = TRUE
    /\ items = NoItems
    /\ unnamed = {}
    /\ unpicked = Files
    /\ parsing = {}
    /\ waiting = {}
    /\ created = [f \in Files |-> 0]
    /\ lost = {}

-----------------------------------------------------------------------------
(* The dialog and its list *)

\* The platform is that of the page's filter, or stays; the concurrency is cut to
\* its maximum. A parse of an earlier opening goes on.
openBulkImport ==
    /\ ~bulkImportOpen
    /\ bulkImportOpen' = TRUE
    /\ bulkImportProvider' \in CookieProviders
    /\ items' = NoItems
    /\ unnamed' = {}
    /\ bulkImportConfigValid' \in {bulkImportConfigValid, TRUE}
    /\ UNCHANGED <<unpicked, parsing, work>>

CloseImport ==
    /\ bulkImportOpen
    /\ ~bulkImportBusy
    /\ bulkImportOpen' = FALSE
    /\ UNCHANGED <<bulkImportProvider, bulkImportConfigValid, list, work>>

\* The list is emptied and the concurrency cut to the platform's maximum.
setBulkImportProvider(p) ==
    /\ bulkImportOpen
    /\ ~bulkImportBusy
    /\ bulkImportProvider' = p
    /\ items' = NoItems
    /\ unnamed' = {}
    /\ bulkImportConfigValid' \in {bulkImportConfigValid, TRUE}
    /\ UNCHANGED <<bulkImportOpen, unpicked, parsing, work>>

setBulkImportConfig ==
    /\ bulkImportOpen
    /\ ~bulkImportBusy
    /\ bulkImportConfigValid' = ~bulkImportConfigValid
    /\ UNCHANGED <<bulkImportOpen, bulkImportProvider, list, work>>

\* The room left is that of the list on screen, without what is being parsed.
addCookieFiles(chosen) ==
    /\ bulkImportOpen
    /\ ~bulkImportBusy
    /\ chosen \subseteq unpicked
    /\ unpicked' = unpicked \ chosen
    /\ \E accepted \in SUBSET chosen :
         LET room == IF MAX_BULK_COOKIE_FILES > Cardinality(DOMAIN items)
                     THEN MAX_BULK_COOKIE_FILES - Cardinality(DOMAIN items) ELSE 0
         IN  /\ Cardinality(accepted) = IF Cardinality(chosen) < room THEN Cardinality(chosen) ELSE room
             /\ accepted # {}
             /\ parsing' = parsing \cup {[files |-> accepted, provider |-> bulkImportProvider]}
    /\ UNCHANGED <<bulkImportOpen, bulkImportProvider, bulkImportConfigValid, items, unnamed, work>>

\* Promise.all of a batch resolves: its files join the list as it is by now.
FilesParsed(b) ==
    /\ b \in parsing
    /\ parsing' = parsing \ {b}
    /\ items' = [f \in DOMAIN items \cup b.files |->
                   IF f \in b.files THEN validateCookieJSON(f, b.provider) ELSE items[f]]
    /\ UNCHANGED <<bulkImportOpen, bulkImportProvider, bulkImportConfigValid, unnamed, unpicked, work>>

RenameItem(f) ==
    /\ bulkImportOpen
    /\ ~bulkImportBusy
    /\ f \in DOMAIN items
    /\ items[f] # "submitted"
    /\ unnamed' = IF f \in unnamed THEN unnamed \ {f} ELSE unnamed \cup {f}
    /\ UNCHANGED <<bulkImportOpen, bulkImportProvider, bulkImportConfigValid, items, unpicked, parsing, work>>

RemoveItem(f) ==
    /\ bulkImportOpen
    /\ ~bulkImportBusy
    /\ f \in DOMAIN items
    /\ items' = [g \in DOMAIN items \ {f} |-> items[g]]
    /\ unnamed' = unnamed \ {f}
    /\ UNCHANGED <<bulkImportOpen, bulkImportProvider, bulkImportConfigValid, unpicked, parsing, work>>

-----------------------------------------------------------------------------
(* importCookieAccounts *)

ImportOffered == bulkImportOpen /\ ~bulkImportBusy /\ Importable # {} /\ bulkImportConfigValid

\* Each worker takes one of the pending items, the rest waits for them.
importCookieAccounts ==
    /\ ImportOffered
    /\ bulkImportBusy' = TRUE
    /\ \E first \in SUBSET Importable :
         /\ Cardinality(first) = IF Cardinality(Importable) < COOKIE_IMPORT_CONCURRENCY
                                 THEN Cardinality(Importable) ELSE COOKIE_IMPORT_CONCURRENCY
         /\ waiting' = Importable \ first
         /\ items' = [f \in DOMAIN items |-> IF f \in first THEN "importing" ELSE items[f]]
    /\ UNCHANGED <<bulkImportOpen, bulkImportProvider, bulkImportConfigValid, unnamed, unpicked, parsing, created, lost>>

\* The worker that had f goes on with another item, if one waits.
TakeNext(f, s) ==
    IF waiting = {}
    THEN items' = WithStatus(f, s) /\ UNCHANGED waiting
    ELSE \E g \in waiting :
           /\ waiting' = waiting \ {g}
           /\ items' = [WithStatus(f, s) EXCEPT ![g] = "importing"]

ImportSucceeds(f) ==
    /\ f \in Importing
    /\ created[f] < MaxCreated
    /\ created' = [created EXCEPT ![f] = @ + 1]
    /\ TakeNext(f, "submitted")
    /\ UNCHANGED <<bulkImportOpen, bulkImportProvider, bulkImportConfigValid, bulkImportBusy, unnamed, unpicked, parsing, lost>>

Mutant_RetriedAtOnce(f) ==
    /\ f \in Importing
    /\ \/ UNCHANGED <<created, lost>>
       \/ /\ created[f] < MaxCreated
          /\ created' = [created EXCEPT ![f] = @ + 1]
          /\ lost' = lost \cup {f}
    /\ UNCHANGED <<bulkImportOpen, bulkImportProvider, bulkImportConfigValid, bulkImportBusy, list, waiting>>

\* Refused, or created and the answer lost.
ImportFails(f) ==
    /\ f \in Importing
    /\ \/ UNCHANGED <<created, lost>>
       \/ /\ created[f] < MaxCreated
          /\ created' = [created EXCEPT ![f] = @ + 1]
          /\ lost' = lost \cup {f}
    /\ TakeNext(f, "failed")
    /\ UNCHANGED <<bulkImportOpen, bulkImportProvider, bulkImportConfigValid, bulkImportBusy, unnamed, unpicked, parsing>>

\* All workers have returned.
ImportDone ==
    /\ bulkImportBusy
    /\ Importing = {}
    /\ bulkImportBusy' = FALSE
    /\ UNCHANGED <<bulkImportOpen, bulkImportProvider, bulkImportConfigValid, list, waiting, created, lost>>

ImportNext ==
    \/ openBulkImport
    \/ CloseImport
    \/ \E p \in CookieProviders : setBulkImportProvider(p)
    \/ setBulkImportConfig
    \/ \E chosen \in (SUBSET Files) \ {{}} : addCookieFiles(chosen)
    \/ \E b \in parsing : FilesParsed(b)
    \/ \E f \in Files : RenameItem(f)
    \/ \E f \in Files : RemoveItem(f)
    \/ importCookieAccounts
    \/ \E f \in Files : ImportSucceeds(f)
    \/ \E f \in Files : ImportFails(f)
    \/ ImportDone

ImportSpec == ImportInit /\ [][ImportNext]_importVars

\* The service answers every call, if only with an error.
ImportFairness ==
    /\ \A f \in Files : WF_importVars(ImportSucceeds(f) \/ ImportFails(f))
    /\ WF_importVars(ImportDone)

-----------------------------------------------------------------------------
(* Properties *)

\* A listed file becomes a second account only if the answer for the first was
\* lost and the administrator tried again: the workers share the pending items,
\* and nothing starts a second import of them.
ImportsOnce ==
    [][\A f \in Files : created'[f] > created[f] /\ created[f] > 0
                          => f \in lost]_importVars

\* An import ends, whatever fails on its way.
ImportEnds == bulkImportBusy ~> ~bulkImportBusy

-----------------------------------------------------------------------------
(* Why the first holds, as an inductive invariant *)

\* A file is in one place: not picked yet, in one batch that is parsed, or in the
\* list (or removed from it).
OnePlace ==
    /\ unpicked \cap DOMAIN items = {}
    /\ \A b \in parsing : b.files \cap (unpicked \cup DOMAIN items) = {}
    /\ \A b, c \in parsing : b # c => b.files \cap c.files = {}

\* Items wait only while a worker is there to take them, and the list is not
\* changed under the workers.
WorkersServeWaiting ==
    /\ ~bulkImportBusy => waiting = {} /\ Importing = {}
    /\ waiting # {} => Importing # {}
    /\ \A f \in waiting : items[f] \in {"ready", "failed"}
    /\ bulkImportBusy => bulkImportOpen

\* A file whose account is known to exist does not come up again.
CreatedIsDone ==
    \A f \in Files : created[f] > 0 /\ f \notin lost =>
        /\ f \notin unpicked /\ \A b \in parsing : f \notin b.files
        /\ f \in DOMAIN items => items[f] = "submitted"

ImportInv == ImportTypeOK /\ OnePlace /\ WorkersServeWaiting /\ CreatedIsDone

=============================================================================
