------------------------------ MODULE AccountPool -----------------------------
(* The account page of the admin web application: a selection kept across     *)
(* pages, the scan for accounts with invalid credentials, and archiving in    *)
(* batches. Each call to the service is a step of its own: while one is under *)
(* way the administrator goes on, accounts recover or fail, and other calls   *)
(* are answered.                                                              *)
EXTENDS Naturals, FiniteSets, Sequences, Slices

CONSTANTS Accounts,            \* in the order the service lists them
          ARCHIVE_BATCH_SIZE   \* of archive requests and of the scan's pages

ASSUME PoolAssumption == /\ Accounts \subseteq Nat /\ IsFiniteSet(Accounts)
                         /\ ARCHIVE_BATCH_SIZE \in Nat \ {0}

VARIABLES pool,       \* status of each account at the service
          selected,   \* selectedAccounts
          dialog,     \* the archive dialog
          scan,       \* scanInvalidAccounts under way
          scanned,    \* what the scan found whose dialog is open
          archive,    \* the archive mutation
          steady      \* the accounts invalid when the running scan began, as long as all of them are

table == <<selected, dialog>>
poolVars == <<pool, table, scan, scanned, archive, steady>>

NoScan == [on |-> FALSE, page |-> 0, counted |-> FALSE, total |-> 0, found |-> {}]
NoArchive == [pending |-> FALSE, ids |-> {}, batches |-> <<>>, archived |-> {}]

\* Pages past the last one are empty; the scan needs no more than this.
MaxPage == Cardinality(Accounts) + 2

ScanStates == [on : BOOLEAN, page : 0..MaxPage, counted : BOOLEAN, total : 0..Cardinality(Accounts),
               found : SUBSET Accounts]

PoolTypeOK ==
    /\ pool \in [Accounts -> {"ok", "invalid", "archived"}]
    /\ selected \subseteq Accounts
    /\ dialog \in [open : BOOLEAN, mode : {"selected", "invalid"}]
    /\ scan \in ScanStates
    /\ scanned \subseteq Accounts
    /\ archive \in [pending : BOOLEAN, ids : SUBSET Accounts, batches : Seq(SUBSET Accounts),
                   archived : SUBSET Accounts]
    /\ \A i \in DOMAIN archive.batches :
         Cardinality(archive.batches[i]) \in 1..ARCHIVE_BATCH_SIZE
    /\ archive.archived \subseteq archive.ids
    /\ steady \subseteq Accounts

Live == {a \in Accounts : pool[a] # "archived"}
Invalid == {a \in Accounts : pool[a] = "invalid"}

PoolInit ==
    /\ pool = [a \in Accounts |-> "ok"]
    /\ selected = {}
    /\ dialog = [open |-> FALSE, mode |-> "selected"]
    /\ scan = NoScan
    /\ scanned = {}
    /\ archive = NoArchive
    /\ steady = {}

-----------------------------------------------------------------------------
(* The table and the selection *)

\* Any account may have a row: the page and the filters are chosen freely, and
\* the rows are as old as the last answer. While the dialog is open the table
\* behind it cannot be used.
toggleAccount(a) ==
    /\ ~dialog.open
    /\ selected' = IF a \in selected THEN selected \ {a} ELSE selected \cup {a}
    /\ UNCHANGED <<pool, dialog, scan, scanned, archive, steady>>

togglePage(rows) ==
    /\ ~dialog.open
    /\ rows # {}
    /\ selected' = IF rows \subseteq selected THEN selected \ rows ELSE selected \cup rows
    /\ UNCHANGED <<pool, dialog, scan, scanned, archive, steady>>

clearSelection ==
    /\ ~dialog.open
    /\ selected # {}
    /\ selected' = {}
    /\ UNCHANGED <<pool, dialog, scan, scanned, archive, steady>>

\* The row's operations that mend an account: enabling or disabling it, a
\* session refresh, a new cookie file. They act on the row's account even if
\* the row is out of date.
RowOperation(a) ==
    /\ ~dialog.open
    /\ pool[a] = "invalid"
    /\ pool' = [pool EXCEPT ![a] = "ok"]
    /\ steady' = {}
    /\ UNCHANGED <<table, scan, scanned, archive>>

-----------------------------------------------------------------------------
(* scanInvalidAccounts *)

StartScan ==
    /\ ~dialog.open
    /\ ~scan.on
    /\ scan' = [NoScan EXCEPT !.on = TRUE, !.page = 1]
    /\ steady' = Invalid
    /\ UNCHANGED <<pool, table, scanned, archive>>

\* The service answers a page with two statements and no transaction around
\* them: it counts the invalid accounts and then reads the rows.
ScanCount ==
    /\ scan.on
    /\ ~scan.counted
    /\ scan' = [scan EXCEPT !.counted = TRUE, !.total = Cardinality(Invalid)]
    /\ UNCHANGED <<pool, table, scanned, archive, steady>>

\* LIMIT and OFFSET over the accounts that are invalid now.
InvalidPage(n) == Slice(Invalid, n, ARCHIVE_BATCH_SIZE)

Mutant_PageLengthAsTotal(rows, found) == rows = {} \/ Cardinality(found) >= Cardinality(rows)

\* Empty page, or as many accounts found as the service counted.
ScanComplete(rows, found) == rows = {} \/ Cardinality(found) >= scan.total

EndScan(found) ==
    /\ scan' = NoScan
    /\ steady' = {}
    /\ IF found = {}
       THEN UNCHANGED <<selected, dialog, scanned>>
       ELSE /\ selected' = found
            /\ scanned' = found
            /\ dialog' = [open |-> TRUE, mode |-> "invalid"]

Mutant_PageNotAdvanced ==
    LET rows == InvalidPage(scan.page)
        found == scan.found \cup rows
    IN  /\ scan.on
        /\ scan.counted
        /\ IF ScanComplete(rows, found)
           THEN EndScan(found)
           ELSE /\ scan' = [scan EXCEPT !.counted = FALSE, !.total = 0, !.found = found]
                /\ UNCHANGED <<selected, dialog, scanned, steady>>
        /\ UNCHANGED <<pool, archive>>

\* The rows are read, and the answer decides whether the next page is asked for.
ScanPage ==
    LET rows == InvalidPage(scan.page)
        found == scan.found \cup rows
    IN  /\ scan.on
        /\ scan.counted
        /\ IF ScanComplete(rows, found)
           THEN EndScan(found)
           ELSE /\ scan' = [scan EXCEPT !.page = IF @ < MaxPage THEN @ + 1 ELSE @,
                                        !.counted = FALSE, !.total = 0, !.found = found]
                /\ UNCHANGED <<selected, dialog, scanned, steady>>
        /\ UNCHANGED <<pool, archive>>

ScanFails ==
    /\ scan.on
    /\ scan' = NoScan
    /\ steady' = {}
    /\ UNCHANGED <<pool, table, scanned, archive>>

-----------------------------------------------------------------------------
(* Archiving *)

OpenArchive ==
    /\ ~dialog.open
    /\ selected # {}
    /\ dialog' = [open |-> TRUE, mode |-> "selected"]
    /\ UNCHANGED <<pool, selected, scan, scanned, archive, steady>>

\* Not disabled while the mutation is pending.
CloseArchive ==
    /\ dialog.open
    /\ dialog' = [dialog EXCEPT !.open = FALSE]
    /\ scanned' = {}
    /\ UNCHANGED <<pool, selected, scan, archive, steady>>

Mutant_OneChunk(ids) == IF ids = {} THEN <<>> ELSE <<ids>>

chunkAccountIDs(ids) == Slices(ids, ARCHIVE_BATCH_SIZE)

ConfirmArchive ==
    /\ dialog.open
    /\ ~archive.pending
    /\ archive' = [NoArchive EXCEPT !.pending = TRUE, !.ids = selected,
                                    !.batches = chunkAccountIDs(selected)]
    /\ UNCHANGED <<pool, table, scan, scanned, steady>>

Mutant_ArchiveCurrentSelection ==
    LET batch == selected
    IN  /\ archive.batches # <<>>
        /\ \E done \in SUBSET (batch \cap Live) :
             /\ pool' = [a \in Accounts |-> IF a \in done THEN "archived" ELSE pool[a]]
             /\ steady' = IF done \cap Invalid = {} THEN steady ELSE {}
             /\ archive' = [archive EXCEPT !.batches = Tail(@), !.archived = @ \cup (done \cap archive.ids)]
        /\ UNCHANGED <<table, scan, scanned>>

\* The service archives what has no task or reservation; the answer may be lost.
ArchiveBatch ==
    LET batch == Head(archive.batches)
    IN  /\ archive.batches # <<>>
        /\ \E done \in SUBSET (batch \cap Live) :
             /\ pool' = [a \in Accounts |-> IF a \in done THEN "archived" ELSE pool[a]]
             /\ steady' = IF done \cap Invalid = {} THEN steady ELSE {}
             /\ \E reported \in {done, {}} :
                  archive' = [archive EXCEPT !.batches = Tail(@), !.archived = @ \cup reported]
        /\ UNCHANGED <<table, scan, scanned>>

\* onSuccess: archived accounts leave the selection as it is by now, and the
\* dialog closes, whichever it is by now.
ArchiveDone ==
    /\ archive.pending
    /\ archive.batches = <<>>
    /\ selected' = selected \ archive.archived
    /\ dialog' = [dialog EXCEPT !.open = FALSE]
    /\ archive' = NoArchive
    /\ scanned' = {}
    /\ UNCHANGED <<pool, scan, steady>>

-----------------------------------------------------------------------------
(* The service on its own: sessions are refreshed and fail *)

Recover(a) ==
    /\ pool[a] = "invalid"
    /\ pool' = [pool EXCEPT ![a] = "ok"]
    /\ steady' = {}
    /\ UNCHANGED <<table, scan, scanned, archive>>

Expire(a) ==
    /\ pool[a] = "ok"
    /\ pool' = [pool EXCEPT ![a] = "invalid"]
    /\ UNCHANGED <<table, scan, scanned, archive, steady>>

PoolNext ==
    \/ \E a \in Accounts : toggleAccount(a)
    \/ \E rows \in SUBSET Accounts : togglePage(rows)
    \/ clearSelection
    \/ \E a \in Accounts : RowOperation(a)
    \/ StartScan
    \/ ScanCount
    \/ ScanPage
    \/ ScanFails
    \/ OpenArchive
    \/ CloseArchive
    \/ ConfirmArchive
    \/ ArchiveBatch
    \/ ArchiveDone
    \/ \E a \in Accounts : Recover(a)
    \/ \E a \in Accounts : Expire(a)

PoolSpec == PoolInit /\ [][PoolNext]_poolVars

\* Every call of a running scan is answered.
PoolFairness == WF_poolVars(ScanCount) /\ WF_poolVars(ScanPage)

-----------------------------------------------------------------------------
(* Properties *)

\* Only accounts that the administrator confirmed are archived: a scan that ends
\* or a selection that changes while batches are being sent adds none.
ArchivesOnlyConfirmed ==
    [][\A a \in Accounts : pool[a] # "archived" /\ pool'[a] = "archived" => a \in archive.ids]_poolVars

\* A scan ends even if accounts recover and fail under it, so that the pages it
\* reads never add up to the number the service reports.
ScanEnds == scan.on ~> ~scan.on

\* What a scan promises of the accounts that were invalid from its beginning to its
\* end. The dialog says that all invalid accounts were found, but an account that
\* fails between the count and the rows of the last page takes a place on it, and the
\* scan is content with the old count. So while no account recovers or is archived,
\* the dialog misses no more of them than failed between those two statements: none
\* if none did, whatever failed before or between other pages. If an account
\* recovers, the pages behind it move up, and nothing is promised.
ScanMissesFew ==
    [][scan.on /\ ~scan'.on /\ scanned' # scanned /\ steady # {}
           => Cardinality(steady \ selected') + scan.total <= Cardinality(Invalid)]_poolVars

-----------------------------------------------------------------------------
(* Why they hold, as an inductive invariant *)

BatchesConfirmed == \A i \in DOMAIN archive.batches : archive.batches[i] \subseteq archive.ids

\* As long as the accounts that were invalid when the scan began all are, it has
\* found invalid accounts only, and among them every such account on a page it has
\* read: accounts that fail meanwhile push the others to later pages only.
ScanMissesNone ==
    /\ steady \subseteq Invalid
    /\ steady # {} => /\ scan.on
                      /\ scan.found \subseteq Invalid
                      /\ \A a \in steady : Rank(a, Invalid) < (scan.page - 1) * ARCHIVE_BATCH_SIZE => a \in scan.found
                      /\ scan.total <= Cardinality(Invalid)
    /\ scan.on => scan.page > 0

PoolInv == PoolTypeOK /\ BatchesConfirmed /\ ScanMissesNone

=============================================================================
