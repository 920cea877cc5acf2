--------------------------- MODULE AdminPages_proofs --------------------------
(***************************************************************************)
(* Proofs about pages of the admin web application: the scan and the       *)
(* archiving of accounts, the bulk import of cookie files, the account     *)
(* dialog, the API keys, the system capacity, and all of them together.    *)
(***************************************************************************)
EXTENDS MCAccounts, Slices_proofs

-----------------------------------------------------------------------------
(* The pool of accounts. *)

\* The accounts that are invalid, as a finite list.
LEMMA InvalidList ==
    /\ Invalid \in SUBSET Nat /\ IsFiniteSet(Invalid) /\ Invalid \subseteq Accounts
    /\ \A S \in SUBSET Accounts : S \in SUBSET Nat /\ IsFiniteSet(S)
<1>1. \A S \in SUBSET Accounts : S \in SUBSET Nat /\ IsFiniteSet(S)
  BY PoolAssumption, FS_Subset
<1> QED BY <1>1 DEF Invalid

\* The fields of a scan.
LEMMA ScanFields ==
    ASSUME PoolTypeOK
    PROVE  /\ scan \in ScanStates
           /\ scan.page \in 0..MaxPage /\ scan.page \in Nat /\ MaxPage \in Nat
           /\ scan.total \in Nat /\ scan.found \subseteq Accounts
<1>1. scan \in ScanStates
  BY DEF PoolTypeOK
<1>2. MaxPage \in Nat /\ Cardinality(Accounts) \in Nat
  BY PoolAssumption, FS_CardinalityType DEF MaxPage
<1> QED BY <1>1, <1>2 DEF ScanStates

\* What the administrator does to the table and the dialog.
LEMMA TableKeepsInv ==
    ASSUME PoolInv, UNCHANGED <<pool, scan, archive, steady>>, selected' \subseteq Accounts,
           dialog' \in [open : BOOLEAN, mode : {"selected", "invalid"}], scanned' \subseteq Accounts
    PROVE  PoolInv'
<1>1. PoolTypeOK'
  BY DEF PoolInv, PoolTypeOK
<1>2. BatchesConfirmed' /\ ScanMissesNone'
  BY DEF PoolInv, BatchesConfirmed, ScanMissesNone, Invalid
<1> QED BY <1>1, <1>2 DEF PoolInv

\* An account is mended: the scan may have missed some from now on.
LEMMA MendKeepsInv ==
    ASSUME PoolInv, NEW a \in Accounts, pool' = [pool EXCEPT ![a] = "ok"], steady' = {},
           UNCHANGED <<selected, dialog, scan, scanned, archive>>
    PROVE  PoolInv'
<1>1. PoolTypeOK'
  BY DEF PoolInv, PoolTypeOK
<1>2. BatchesConfirmed' /\ ScanMissesNone'
  BY DEF PoolInv, BatchesConfirmed, ScanMissesNone
<1> QED BY <1>1, <1>2 DEF PoolInv

\* An account fails: the others only move back.
LEMMA ExpireKeepsInv ==
    ASSUME PoolInv, NEW a \in Accounts, Expire(a)
    PROVE  PoolInv'
<1>0. /\ PoolTypeOK /\ BatchesConfirmed /\ ScanMissesNone
      /\ pool' = [pool EXCEPT ![a] = "invalid"]
      /\ UNCHANGED <<selected, dialog, scan, scanned, archive, steady>>
  BY DEF PoolInv, Expire, table
<1>1. PoolTypeOK' /\ BatchesConfirmed'
  BY <1>0 DEF PoolTypeOK, BatchesConfirmed
<1>2. Invalid \subseteq Invalid' /\ Invalid' \in SUBSET Accounts
  BY <1>0 DEF PoolTypeOK, Invalid
<1>3. \A x \in Invalid : Rank(x, Invalid) \in Nat /\ Rank(x, Invalid') \in Nat /\ Rank(x, Invalid) <= Rank(x, Invalid')
  BY <1>2, InvalidList, RanksGrow
<1>4. ASSUME steady # {}, NEW x \in steady, Rank(x, Invalid') < (scan.page - 1) * ARCHIVE_BATCH_SIZE
      PROVE  x \in scan.found
  <2>1. x \in Invalid /\ scan.page \in Nat /\ scan.page > 0 /\ ARCHIVE_BATCH_SIZE \in Nat
    BY <1>0, <1>4, PoolAssumption, ScanFields DEF ScanMissesNone
  <2>2. (scan.page - 1) * ARCHIVE_BATCH_SIZE \in Nat
    BY <2>1
  <2>3. Rank(x, Invalid) < (scan.page - 1) * ARCHIVE_BATCH_SIZE
    BY <1>3, <1>4, <2>1, <2>2
  <2> QED BY <1>0, <1>4, <2>3 DEF ScanMissesNone
<1>5. ScanMissesNone'
  <2>1. scan.total \in Nat /\ Cardinality(Invalid) \in Nat /\ Cardinality(Invalid') \in Nat
    BY <1>0, <1>2, ScanFields, InvalidList, FS_CardinalityType
  <2>2. Cardinality(Invalid) <= Cardinality(Invalid')
    BY <1>2, InvalidList, FS_Subset
  <2>3. scan.total <= Cardinality(Invalid) => scan.total <= Cardinality(Invalid')
    BY <2>1, <2>2
  <2> QED BY <1>0, <1>2, <1>4, <2>3 DEF ScanMissesNone
<1> QED BY <1>1, <1>5 DEF PoolInv

\* A scan begins, or fails.
LEMMA ScanEdgeKeepsInv ==
    ASSUME PoolInv, StartScan \/ ScanFails
    PROVE  PoolInv'
<1>0. PoolTypeOK /\ BatchesConfirmed /\ UNCHANGED <<pool, selected, dialog, scanned, archive>>
  BY DEF PoolInv, StartScan, ScanFails, table
<1>1. BatchesConfirmed'
  BY <1>0 DEF BatchesConfirmed
<1>2. MaxPage \in Nat /\ 1 <= MaxPage /\ ARCHIVE_BATCH_SIZE \in Nat /\ Cardinality(Accounts) \in Nat
  BY PoolAssumption, FS_CardinalityType DEF MaxPage
<1>3. CASE StartScan
  <2>1. /\ scan' = [on |-> TRUE, page |-> 1, counted |-> FALSE, total |-> 0, found |-> {}]
        /\ steady' = Invalid
    BY <1>3 DEF StartScan, NoScan
  <2>2. scan' \in ScanStates
    BY <1>2, <2>1 DEF ScanStates
  <2>3. scan'.on /\ scan'.found = {} /\ scan'.total = 0
    BY <2>1
  <2>4. scan'.page = 1
    BY <2>1
  <2>5. PoolTypeOK'
    BY <1>0, <2>1, <2>2, InvalidList DEF PoolTypeOK
  <2>6. Invalid' = Invalid /\ (\A x \in Invalid : Rank(x, Invalid) \in Nat) /\ 0 <= Cardinality(Invalid)
    <3>1. Invalid' = Invalid
      BY <1>0 DEF Invalid
    <3>2. \A x \in Invalid : Rank(x, Invalid) \in Nat
      BY InvalidList, Ranks
    <3>3. 0 <= Cardinality(Invalid)
      BY InvalidList, FS_CardinalityType
    <3> QED BY <3>1, <3>2, <3>3
  <2>7. \A x \in steady' : ~(Rank(x, Invalid') < (scan'.page - 1) * ARCHIVE_BATCH_SIZE)
    BY <1>2, <2>1, <2>4, <2>6
  <2>8. ScanMissesNone'
    BY <2>1, <2>3, <2>4, <2>6, <2>7 DEF ScanMissesNone
  <2> QED BY <1>1, <2>5, <2>8 DEF PoolInv
<1>4. CASE ScanFails
  <2>1. scan' = NoScan /\ steady' = {}
    BY <1>4 DEF ScanFails
  <2>2. scan' \in ScanStates /\ ~scan'.on
    BY <1>2, <2>1 DEF NoScan, ScanStates
  <2>3. PoolTypeOK' /\ ScanMissesNone'
    BY <1>0, <2>1, <2>2 DEF PoolTypeOK, ScanMissesNone
  <2> QED BY <1>1, <2>3 DEF PoolInv
<1> QED BY <1>3, <1>4

\* The service counts before it reads a page.
LEMMA ScanCountKeepsInv ==
    ASSUME PoolInv, ScanCount
    PROVE  PoolInv'
<1> DEFINE total == Cardinality(Invalid)
<1>0. /\ PoolTypeOK /\ BatchesConfirmed /\ ScanMissesNone /\ scan \in ScanStates
      /\ UNCHANGED <<pool, selected, dialog, scanned, archive, steady>>
      /\ scan' = [scan EXCEPT !.counted = TRUE, !.total = total]
  BY DEF PoolInv, ScanCount, table, PoolTypeOK, ScanStates
<1>1. total \in 0..Cardinality(Accounts) /\ total <= total
  <2>1. total \in Nat /\ Cardinality(Accounts) \in Nat
    BY InvalidList, PoolAssumption, FS_CardinalityType
  <2>2. total <= Cardinality(Accounts)
    BY InvalidList, PoolAssumption, FS_Subset
  <2> QED BY <2>1, <2>2
<1>2. Invalid' = Invalid /\ total = Cardinality(Invalid)
  BY <1>0 DEF Invalid
<1> HIDE DEF total
<1>3. /\ scan' \in ScanStates
      /\ scan'.on = scan.on /\ scan'.page = scan.page /\ scan'.found = scan.found /\ scan'.total = total
  BY <1>0, <1>1 DEF ScanStates
<1>4. PoolTypeOK' /\ BatchesConfirmed'
  BY <1>0, <1>3 DEF PoolTypeOK, BatchesConfirmed
<1>5. ScanMissesNone'
  BY <1>0, <1>1, <1>2, <1>3 DEF ScanMissesNone
<1> QED BY <1>4, <1>5 DEF PoolInv

\* What a scan that reads its last page has found: all accounts that stayed
\* invalid, but for as many as failed since the service counted them.
LEMMA CompleteScanFound ==
    ASSUME PoolInv, scan.on, NEW found, found = scan.found \cup InvalidPage(scan.page),
           ScanComplete(InvalidPage(scan.page), found), steady # {}
    PROVE  Cardinality(steady \ found) + scan.total <= Cardinality(Invalid)
<1>0. /\ steady \subseteq Invalid /\ scan.found \subseteq Invalid /\ scan.page \in Nat /\ scan.page > 0
      /\ \A a \in steady : Rank(a, Invalid) < (scan.page - 1) * ARCHIVE_BATCH_SIZE => a \in scan.found
      /\ ARCHIVE_BATCH_SIZE \in Nat \ {0} /\ scan.total \in Nat /\ scan.total <= Cardinality(Invalid)
  BY PoolAssumption, ScanFields DEF PoolInv, ScanMissesNone
<1>1. InvalidPage(scan.page) \subseteq Invalid
  BY DEF InvalidPage, Slice
<1>2. CASE Cardinality(found) >= scan.total
  <2>1. found \in SUBSET Invalid /\ (Invalid \cap found) = found
    BY <1>0, <1>1
  <2>2. IsFiniteSet(found) /\ IsFiniteSet(Invalid \ found) /\ IsFiniteSet(steady \ found)
    <3>1. (Invalid \ found) \in SUBSET Invalid /\ (steady \ found) \in SUBSET Invalid
      BY <1>0
    <3> QED BY <2>1, <3>1, InvalidList, FS_Subset
  <2>3. Cardinality(Invalid \ found) = Cardinality(Invalid) - Cardinality(found)
    <3>1. Cardinality(Invalid \ found) = Cardinality(Invalid) - Cardinality(Invalid \cap found)
      BY <2>2, InvalidList, FS_Difference
    <3> QED BY <2>1, <3>1, Zenon
  <2>4. Cardinality(steady \ found) <= Cardinality(Invalid \ found)
    <3>1. (steady \ found) \in SUBSET (Invalid \ found)
      BY <1>0
    <3> QED BY <2>2, <3>1, FS_Subset
  <2>5. /\ Cardinality(found) \in Nat /\ Cardinality(Invalid) \in Nat
        /\ Cardinality(steady \ found) \in Nat
    BY <2>2, InvalidList, FS_CardinalityType
  <2> QED BY <1>0, <1>2, <2>3, <2>4, <2>5
<1>3. CASE InvalidPage(scan.page) = {}
  <2> DEFINE lo == (scan.page - 1) * ARCHIVE_BATCH_SIZE
             len == Cardinality(Invalid)
  <2>1. lo \in Nat /\ scan.page * ARCHIVE_BATCH_SIZE = lo + ARCHIVE_BATCH_SIZE
    BY <1>0
  <2>2. len \in Nat /\ (\A x \in Invalid : Rank(x, Invalid) \in 0..(len - 1))
        /\ \A r \in 0..(len - 1) : \E x \in Invalid : Rank(x, Invalid) = r
    BY InvalidList, Ranks
  <2>3. \A x \in Invalid : Rank(x, Invalid) # lo
    BY <1>0, <1>3, <2>1 DEF InvalidPage, Slice
  <2> HIDE DEF lo, len
  <2>4. len <= lo
    BY <2>1, <2>2, <2>3
  <2>5. \A x \in Invalid : Rank(x, Invalid) < lo
    BY <2>1, <2>2, <2>4
  <2>6. steady \ found = {}
    BY <1>0, <2>5, Zenon DEF lo
  <2>7. Cardinality(steady \ found) = 0 /\ Cardinality(Invalid) \in Nat
    BY <2>6, InvalidList, FS_EmptySet, FS_CardinalityType
  <2> QED BY <1>0, <2>7
<1> QED BY <1>2, <1>3 DEF ScanComplete

\* A page of the scan is read.
LEMMA ScanPageKeepsInv ==
    ASSUME PoolInv, ScanPage
    PROVE  PoolInv'
<1> DEFINE rows == InvalidPage(scan.page)
           found == scan.found \cup rows
<1>0. /\ PoolTypeOK /\ BatchesConfirmed /\ ScanMissesNone /\ scan.on /\ UNCHANGED <<pool, archive>>
      /\ found \in SUBSET Accounts /\ Invalid' = Invalid
  <2>1. PoolTypeOK /\ BatchesConfirmed /\ ScanMissesNone /\ scan.on /\ UNCHANGED <<pool, archive>>
    BY DEF PoolInv, ScanPage
  <2>2. rows \subseteq Accounts /\ Invalid' = Invalid
    BY <2>1 DEF InvalidPage, Slice, Invalid
  <2> QED BY <2>1, <2>2, ScanFields
<1>1. BatchesConfirmed'
  BY <1>0 DEF BatchesConfirmed
<1>2. MaxPage \in Nat /\ ARCHIVE_BATCH_SIZE \in Nat \ {0} /\ Cardinality(Accounts) \in Nat
  BY PoolAssumption, FS_CardinalityType DEF MaxPage
<1>3. CASE EndScan(found)
  <2>1. scan' = NoScan /\ steady' = {}
    BY <1>3 DEF EndScan
  <2>2. scan' \in ScanStates /\ ~scan'.on
    BY <1>2, <2>1 DEF NoScan, ScanStates
  <2>3. dialog' \in [open : BOOLEAN, mode : {"selected", "invalid"}]
    <3>1. dialog' = dialog \/ dialog' = [open |-> TRUE, mode |-> "invalid"]
      BY <1>3 DEF EndScan
    <3>2. dialog \in [open : BOOLEAN, mode : {"selected", "invalid"}]
      BY <1>0 DEF PoolTypeOK
    <3>3. CASE dialog' = dialog
      BY <3>2, <3>3
    <3>4. CASE dialog' = [open |-> TRUE, mode |-> "invalid"]
      BY <3>4
    <3> QED BY <3>1, <3>3, <3>4
  <2>4. selected' \subseteq Accounts /\ scanned' \subseteq Accounts
    BY <1>0, <1>3 DEF EndScan, PoolTypeOK
  <2>5. PoolTypeOK' /\ ScanMissesNone'
    BY <1>0, <2>1, <2>2, <2>3, <2>4 DEF PoolTypeOK, ScanMissesNone
  <2> QED BY <1>1, <2>5 DEF PoolInv
<1>4. CASE /\ scan' = [scan EXCEPT !.page = IF @ < MaxPage THEN @ + 1 ELSE @,
                                    !.counted = FALSE, !.total = 0, !.found = found]
           /\ UNCHANGED <<selected, dialog, scanned, steady>>
  <2> DEFINE p == IF scan.page < MaxPage THEN scan.page + 1 ELSE scan.page
  <2>0. scan.page \in 1..MaxPage /\ p \in 1..MaxPage
    <3>1. scan.page \in 0..MaxPage /\ scan.page > 0
      BY <1>0, ScanFields DEF ScanMissesNone
    <3> QED BY <1>2, <3>1
  <2>1. /\ scan' \in ScanStates
        /\ scan'.on = scan.on /\ scan'.page = p /\ scan'.found = found /\ scan'.total = 0
    <3>1. scan' = [scan EXCEPT !.page = p, !.counted = FALSE, !.total = 0, !.found = found]
      BY <1>4
    <3>2. p \in 0..MaxPage /\ scan \in ScanStates
      BY <1>0, <1>2, <2>0, ScanFields
    <3>3. 0 \in 0..Cardinality(Accounts) /\ found \in SUBSET Accounts
      BY <1>0, <1>2
    <3> HIDE DEF p, found
    <3>4. scan' = [on |-> scan.on, page |-> p, counted |-> FALSE, total |-> 0, found |-> found]
      BY <3>1, <3>2 DEF ScanStates
    <3>5. scan.on \in BOOLEAN
      BY <3>2 DEF ScanStates
    <3> QED BY <3>2, <3>3, <3>4, <3>5 DEF ScanStates
  <2>2. scan'.page = p /\ scan'.found = found
    BY <2>1
  <2>3. scan'.on /\ scan'.total <= Cardinality(Invalid)
    <3>1. 0 <= Cardinality(Invalid)
      BY InvalidList, FS_CardinalityType
    <3> QED BY <1>0, <2>1, <3>1
  <2>4. PoolTypeOK'
    BY <1>0, <1>4, <2>1 DEF PoolTypeOK
  <2>5. steady # {} => found \subseteq Invalid
    BY <1>0 DEF ScanMissesNone, InvalidPage, Slice
  <2>6. ASSUME NEW a \in steady, Rank(a, Invalid) < (p - 1) * ARCHIVE_BATCH_SIZE
        PROVE  a \in found
    <3>1. a \in Invalid /\ Rank(a, Invalid) \in Nat
      BY <1>0, InvalidList, Ranks DEF ScanMissesNone
    <3>2. (p - 1) * ARCHIVE_BATCH_SIZE <= scan.page * ARCHIVE_BATCH_SIZE
          /\ (p - 1) * ARCHIVE_BATCH_SIZE \in Nat /\ scan.page * ARCHIVE_BATCH_SIZE \in Nat
          /\ (scan.page - 1) * ARCHIVE_BATCH_SIZE \in Nat
      BY <1>2, <2>0
    <3>3. CASE Rank(a, Invalid) < (scan.page - 1) * ARCHIVE_BATCH_SIZE
      BY <1>0, <3>3 DEF ScanMissesNone
    <3>4. CASE (scan.page - 1) * ARCHIVE_BATCH_SIZE <= Rank(a, Invalid)
      <4>1. Rank(a, Invalid) < scan.page * ARCHIVE_BATCH_SIZE
        BY <2>6, <3>1, <3>2
      <4> QED BY <3>1, <3>4, <4>1 DEF InvalidPage, Slice
    <3> QED BY <3>1, <3>2, <3>3, <3>4
  <2>7. ScanMissesNone'
    <3> HIDE DEF p, found
    <3>1. scan'.page > 0
      BY <2>0, <2>2
    <3> QED BY <1>0, <1>4, <2>2, <2>3, <2>5, <2>6, <3>1 DEF ScanMissesNone
  <2> QED BY <1>1, <2>4, <2>7 DEF PoolInv
<1> QED BY <1>3, <1>4 DEF ScanPage

\* The dialog is confirmed: the selection is cut into batches.
LEMMA ConfirmKeepsInv ==
    ASSUME PoolInv, ConfirmArchive
    PROVE  PoolInv'
<1> DEFINE cut == chunkAccountIDs(selected)
<1>0. /\ PoolTypeOK /\ ScanMissesNone /\ UNCHANGED <<pool, selected, dialog, scan, scanned, steady>>
      /\ selected \in SUBSET Nat /\ IsFiniteSet(selected) /\ selected \in SUBSET Accounts
      /\ ARCHIVE_BATCH_SIZE \in Nat \ {0}
  BY PoolAssumption, InvalidList DEF PoolInv, ConfirmArchive, PoolTypeOK, table
<1>1. cut \in Seq(SUBSET selected) /\ \A i \in DOMAIN cut : Cardinality(cut[i]) \in 1..ARCHIVE_BATCH_SIZE
  BY <1>0, SliceSizes DEF chunkAccountIDs
<1>2. archive' = [pending |-> TRUE, ids |-> selected, batches |-> cut, archived |-> {}]
  BY DEF ConfirmArchive, NoArchive
<1> HIDE DEF cut
<1>3. cut \in Seq(SUBSET Accounts) /\ \A i \in DOMAIN cut : cut[i] \subseteq selected
  <2>1. Len(cut) \in Nat /\ cut \in [1..Len(cut) -> SUBSET selected] /\ DOMAIN cut = 1..Len(cut)
    BY <1>1
  <2>2. \A i \in 1..Len(cut) : cut[i] \in SUBSET selected /\ cut[i] \in SUBSET Accounts
    BY <1>0, <2>1
  <2>3. cut \in [1..Len(cut) -> SUBSET Accounts]
    BY <2>1, <2>2
  <2> QED BY <2>1, <2>2, <2>3
<1>4. archive' \in [pending : BOOLEAN, ids : SUBSET Accounts, batches : Seq(SUBSET Accounts), archived : SUBSET Accounts]
  BY <1>0, <1>2, <1>3
<1>5. archive'.ids = selected /\ archive'.batches = cut /\ archive'.archived = {}
  BY <1>2
<1>6. PoolTypeOK'
  BY <1>0, <1>1, <1>4, <1>5 DEF PoolTypeOK
<1>7. BatchesConfirmed' /\ ScanMissesNone'
  BY <1>0, <1>3, <1>5 DEF BatchesConfirmed, ScanMissesNone, Invalid
<1> QED BY <1>6, <1>7 DEF PoolInv

\* A batch is sent: the service archives confirmed accounts only.
LEMMA BatchIsConfirmed ==
    ASSUME PoolInv, ArchiveBatch
    PROVE  /\ Head(archive.batches) \subseteq archive.ids
           /\ Tail(archive.batches) \in Seq(SUBSET Accounts)
           /\ \A i \in DOMAIN Tail(archive.batches) :
                i + 1 \in DOMAIN archive.batches /\ Tail(archive.batches)[i] = archive.batches[i + 1]
<1> DEFINE sent == archive.batches
<1>1. sent \in Seq(SUBSET Accounts) /\ sent # <<>> /\ \A i \in DOMAIN sent : sent[i] \subseteq archive.ids
  BY DEF PoolInv, PoolTypeOK, BatchesConfirmed, ArchiveBatch
<1> HIDE DEF sent
<1>2. /\ Head(sent) \subseteq archive.ids
      /\ Tail(sent) \in Seq(SUBSET Accounts)
      /\ \A i \in DOMAIN Tail(sent) : i + 1 \in DOMAIN sent /\ Tail(sent)[i] = sent[i + 1]
  BY <1>1
<1> QED BY <1>2 DEF sent

\* A batch is sent, and answered or not.
LEMMA BatchKeepsInv ==
    ASSUME PoolInv, ArchiveBatch
    PROVE  PoolInv'
<1> DEFINE rest == Tail(archive.batches)
           Archives == [pending : BOOLEAN, ids : SUBSET Accounts, batches : Seq(SUBSET Accounts), archived : SUBSET Accounts]
<1>0. PoolTypeOK /\ BatchesConfirmed /\ ScanMissesNone /\ UNCHANGED <<selected, dialog, scan, scanned>>
  BY DEF PoolInv, ArchiveBatch, table
<1>1. PICK done \in SUBSET (Head(archive.batches) \cap Live) :
        /\ pool' = [a \in Accounts |-> IF a \in done THEN "archived" ELSE pool[a]]
        /\ steady' = IF done \cap Invalid = {} THEN steady ELSE {}
        /\ \E reported \in {done, {}} : archive' = [archive EXCEPT !.batches = rest, !.archived = @ \cup reported]
  BY DEF ArchiveBatch
<1>2. PICK reported \in {done, {}} : archive' = [archive EXCEPT !.batches = rest, !.archived = archive.archived \cup reported]
  BY <1>1
<1>3. rest \in Seq(SUBSET Accounts) /\ \A i \in DOMAIN rest : i + 1 \in DOMAIN archive.batches /\ rest[i] = archive.batches[i + 1]
  BY BatchIsConfirmed
<1>4. archive.archived \cup reported \subseteq archive.ids /\ archive.ids \in SUBSET Accounts
  BY <1>0, BatchIsConfirmed DEF PoolTypeOK
<1> HIDE DEF rest
<1>5. archive \in Archives /\ archive.archived \cup reported \in SUBSET Accounts
  BY <1>0, <1>4 DEF PoolTypeOK
<1>6. /\ archive' \in Archives /\ archive'.ids = archive.ids /\ archive'.batches = rest
      /\ archive'.archived = archive.archived \cup reported
  BY <1>2, <1>3, <1>5
<1>7. pool' \in [Accounts -> {"ok", "invalid", "archived"}] /\ steady' \subseteq steady
  BY <1>0, <1>1 DEF PoolTypeOK
<1>8. \A i \in DOMAIN rest : Cardinality(rest[i]) \in 1..ARCHIVE_BATCH_SIZE /\ rest[i] \subseteq archive.ids
  BY <1>0, <1>3 DEF PoolTypeOK, BatchesConfirmed
<1>9. PoolTypeOK'
  BY <1>0, <1>4, <1>6, <1>7, <1>8 DEF PoolTypeOK
<1>10. BatchesConfirmed'
  BY <1>6, <1>8 DEF BatchesConfirmed
<1>11. ScanMissesNone'
  <2>1. CASE done \cap Invalid = {}
    <3>1. Invalid' = Invalid
      BY <1>1, <2>1 DEF Invalid
    <3> QED BY <1>0, <1>1, <2>1, <3>1 DEF ScanMissesNone
  <2>2. CASE done \cap Invalid # {}
    <3>1. steady' = {}
      BY <1>1, <2>2
    <3> QED BY <1>0, <3>1 DEF ScanMissesNone
  <2> QED BY <2>1, <2>2
<1> QED BY <1>9, <1>10, <1>11 DEF PoolInv

\* All batches are answered.
LEMMA ArchiveDoneKeepsInv ==
    ASSUME PoolInv, ArchiveDone
    PROVE  PoolInv'
<1>0. PoolTypeOK /\ ScanMissesNone /\ UNCHANGED <<pool, scan, steady>> /\ archive' = NoArchive /\ scanned' = {}
      /\ selected' \subseteq Accounts
  BY DEF PoolInv, ArchiveDone, PoolTypeOK
<1>1. dialog' \in [open : BOOLEAN, mode : {"selected", "invalid"}]
  BY <1>0 DEF ArchiveDone, PoolTypeOK
<1>2. /\ archive'.batches = <<>> /\ archive'.ids = {} /\ archive'.archived = {}
      /\ archive' \in [pending : BOOLEAN, ids : SUBSET Accounts, batches : Seq(SUBSET Accounts), archived : SUBSET Accounts]
  BY <1>0 DEF NoArchive
<1>3. PoolTypeOK'
  BY <1>0, <1>1, <1>2 DEF PoolTypeOK
<1>4. BatchesConfirmed' /\ ScanMissesNone'
  BY <1>0, <1>2 DEF BatchesConfirmed, ScanMissesNone, Invalid
<1> QED BY <1>3, <1>4 DEF PoolInv

\* Every step of the page and of the service keeps the invariant.
LEMMA StepKeepsPoolInv ==
    ASSUME PoolInv, [PoolNext]_poolVars
    PROVE  PoolInv'
<1>0. PoolTypeOK
  BY DEF PoolInv
<1>1. ASSUME NEW a \in Accounts, toggleAccount(a) PROVE PoolInv'
  BY <1>0, <1>1, TableKeepsInv DEF toggleAccount, PoolTypeOK
<1>2. ASSUME NEW rows \in SUBSET Accounts, togglePage(rows) PROVE PoolInv'
  BY <1>0, <1>2, TableKeepsInv DEF togglePage, PoolTypeOK
<1>3. CASE clearSelection
  BY <1>0, <1>3, TableKeepsInv DEF clearSelection, PoolTypeOK
<1>4. ASSUME NEW a \in Accounts, RowOperation(a) \/ Recover(a) PROVE PoolInv'
  BY <1>4, MendKeepsInv DEF RowOperation, Recover, table
<1>5. CASE StartScan \/ ScanFails
  BY <1>5, ScanEdgeKeepsInv
<1>6. CASE ScanCount \/ ScanPage
  BY <1>6, ScanCountKeepsInv, ScanPageKeepsInv
<1>7. CASE OpenArchive
  BY <1>0, <1>7, TableKeepsInv DEF OpenArchive, PoolTypeOK
<1>8. CASE CloseArchive
  BY <1>0, <1>8, TableKeepsInv DEF CloseArchive, PoolTypeOK
<1>9. CASE ConfirmArchive
  BY <1>9, ConfirmKeepsInv
<1>10. CASE ArchiveBatch
  BY <1>10, BatchKeepsInv
<1>11. CASE ArchiveDone
  BY <1>11, ArchiveDoneKeepsInv
<1>12. ASSUME NEW a \in Accounts, Expire(a) PROVE PoolInv'
  BY <1>12, ExpireKeepsInv
<1>13. CASE UNCHANGED poolVars
  BY <1>0, <1>13, TableKeepsInv DEF poolVars, table, PoolTypeOK
<1> QED BY <1>1, <1>2, <1>3, <1>4, <1>5, <1>6, <1>7, <1>8, <1>9, <1>10, <1>11, <1>12, <1>13 DEF PoolNext

\* The page opens with the invariant true.
LEMMA PoolInvInit == PoolInit => PoolInv
<1> SUFFICES ASSUME PoolInit PROVE PoolInv
  OBVIOUS
<1>1. MaxPage \in Nat /\ Cardinality(Accounts) \in Nat
  BY PoolAssumption, FS_CardinalityType DEF MaxPage
<1>2. /\ scan.on = FALSE /\ scan \in ScanStates
      /\ archive.batches = <<>> /\ archive.ids = {} /\ archive.archived = {}
      /\ archive \in [pending : BOOLEAN, ids : SUBSET Accounts, batches : Seq(SUBSET Accounts), archived : SUBSET Accounts]
      /\ dialog \in [open : BOOLEAN, mode : {"selected", "invalid"}]
  BY <1>1 DEF PoolInit, NoScan, NoArchive, ScanStates
<1>3. PoolTypeOK
  BY <1>2 DEF PoolInit, PoolTypeOK
<1>4. BatchesConfirmed /\ ScanMissesNone
  BY <1>2 DEF PoolInit, BatchesConfirmed, ScanMissesNone
<1> QED BY <1>3, <1>4 DEF PoolInv

\* The batches hold what was confirmed, and a scan whose accounts all stay invalid
\* misses none on the pages it has read, in every state of the account page.
THEOREM PoolInvariant == PoolSpec => []PoolInv
BY PoolInvInit, StepKeepsPoolInv, PTL DEF PoolSpec

\* Whatever happens between the confirmation and the last batch, an account is
\* archived only if it was among the confirmed ones.
THEOREM ArchivesTheConfirmed == PoolSpec => ArchivesOnlyConfirmed
<1>1. ASSUME PoolInv, [PoolNext]_poolVars, NEW a \in Accounts, pool[a] # "archived", pool'[a] = "archived"
      PROVE  a \in archive.ids
  <2>0. pool \in [Accounts -> {"ok", "invalid", "archived"}]
    BY <1>1 DEF PoolInv, PoolTypeOK
  <2>1. CASE ArchiveBatch
    <3>1. a \in Head(archive.batches)
      BY <1>1, <2>1 DEF ArchiveBatch
    <3> QED BY <1>1, <2>1, <3>1, BatchIsConfirmed
  <2>2. CASE \E b \in Accounts : RowOperation(b) \/ Recover(b) \/ Expire(b)
    BY <1>1, <2>0, <2>2 DEF RowOperation, Recover, Expire
  <2>3. CASE pool' = pool
    BY <1>1, <2>3
  <2>4. ArchiveBatch \/ (\E b \in Accounts : RowOperation(b) \/ Recover(b) \/ Expire(b)) \/ pool' = pool
    BY <1>1 DEF PoolNext, poolVars, toggleAccount, togglePage, clearSelection, StartScan, ScanCount, ScanPage,
                ScanFails, OpenArchive, CloseArchive, ConfirmArchive, ArchiveDone
  <2> QED BY <2>1, <2>2, <2>3, <2>4
<1>2. PoolInv /\ [PoolNext]_poolVars =>
        [\A a \in Accounts : pool[a] # "archived" /\ pool'[a] = "archived" => a \in archive.ids]_poolVars
  BY <1>1
<1> QED BY <1>2, PoolInvariant, PTL DEF PoolSpec, ArchivesOnlyConfirmed

\* Of the accounts that were invalid throughout, the dialog a scan opens lists all
\* but as many as failed between the count and the rows of its last page, for any
\* number of accounts and any page size.
THEOREM ScanMissesTheLateOnes == PoolSpec => ScanMissesFew
<1>1. ASSUME PoolInv, [PoolNext]_poolVars, scan.on, ~scan'.on, scanned' # scanned, steady # {}
      PROVE  Cardinality(steady \ selected') + scan.total <= Cardinality(Invalid)
  <2>1. ScanPage
    <3>1. CASE ScanCount
      BY <1>1, <3>1 DEF ScanCount
    <3> QED BY <1>1, <3>1
            DEF PoolNext, poolVars, table, toggleAccount, togglePage, clearSelection, RowOperation, StartScan,
                ScanFails, OpenArchive, CloseArchive, ConfirmArchive, ArchiveBatch, ArchiveDone, Recover, Expire
  <2> DEFINE found == scan.found \cup InvalidPage(scan.page)
  <2>2. CASE ScanComplete(InvalidPage(scan.page), found) /\ EndScan(found)
    <3>1. selected' = found
      BY <1>1, <2>2 DEF EndScan
    <3>2. Cardinality(steady \ found) + scan.total <= Cardinality(Invalid)
      BY <1>1, <2>2, CompleteScanFound
    <3> QED BY <3>1, <3>2
  <2>3. CASE UNCHANGED <<selected, dialog, scanned, steady>>
    BY <1>1, <2>3
  <2> QED BY <2>1, <2>2, <2>3 DEF ScanPage
<1>2. PoolInv /\ [PoolNext]_poolVars =>
        [scan.on /\ ~scan'.on /\ scanned' # scanned /\ steady # {}
           => Cardinality(steady \ selected') + scan.total <= Cardinality(Invalid)]_poolVars
  BY <1>1
<1> QED BY <1>2, PoolInvariant, PTL DEF PoolSpec, ScanMissesFew

-----------------------------------------------------------------------------
(* The bulk import of cookie files. *)

\* What the dialog's own fields are set to matters to none of it, as long as the
\* dialog stays open while an import runs.
LEMMA DialogKeepsInv ==
    ASSUME ImportInv, UNCHANGED <<list, work>>, bulkImportOpen' \in BOOLEAN, bulkImportProvider' \in CookieProviders,
           bulkImportConfigValid' \in BOOLEAN, bulkImportBusy => bulkImportOpen'
    PROVE  ImportInv'
<1>1. ImportTypeOK'
  BY DEF ImportInv, ImportTypeOK, list, work
<1>2. OnePlace' /\ WorkersServeWaiting' /\ CreatedIsDone'
  BY DEF ImportInv, OnePlace, WorkersServeWaiting, CreatedIsDone, Importing, list, work
<1> QED BY <1>1, <1>2 DEF ImportInv

\* The list is emptied when the dialog opens or changes its platform.
LEMMA EmptyListKeepsInv ==
    ASSUME ImportInv, ~bulkImportBusy, items' = NoItems, unnamed' = {}, UNCHANGED <<unpicked, parsing, work>>,
           bulkImportOpen' \in BOOLEAN, bulkImportProvider' \in CookieProviders, bulkImportConfigValid' \in BOOLEAN
    PROVE  ImportInv'
<1>0. DOMAIN items' = {} /\ items' \in [DOMAIN items' -> {"ready", "invalid", "importing", "submitted", "failed"}]
  BY DEF NoItems
<1>1. waiting = {}
  BY DEF ImportInv, WorkersServeWaiting
<1>2. ImportTypeOK'
  BY <1>0, <1>1 DEF ImportInv, ImportTypeOK, work
<1>3. OnePlace'
  BY <1>0 DEF ImportInv, OnePlace, work
<1>4. WorkersServeWaiting'
  BY <1>0, <1>1 DEF WorkersServeWaiting, Importing, work
<1>5. CreatedIsDone'
  BY <1>0 DEF ImportInv, CreatedIsDone, work
<1> QED BY <1>2, <1>3, <1>4, <1>5 DEF ImportInv

\* Files are picked and go into a batch of their own.
LEMMA PickKeepsInv ==
    ASSUME ImportInv, NEW chosen \in SUBSET Files, addCookieFiles(chosen)
    PROVE  ImportInv'
<1>0. /\ ImportTypeOK /\ OnePlace /\ WorkersServeWaiting /\ CreatedIsDone
      /\ chosen \subseteq unpicked /\ unpicked' = unpicked \ chosen
      /\ UNCHANGED <<bulkImportOpen, bulkImportProvider, bulkImportConfigValid, items, unnamed,
                     bulkImportBusy, waiting, created, lost>>
  BY DEF ImportInv, addCookieFiles, work
<1>1. PICK accepted \in SUBSET chosen : parsing' = parsing \cup {[files |-> accepted, provider |-> bulkImportProvider]}
  BY DEF addCookieFiles
<1> DEFINE batch == [files |-> accepted, provider |-> bulkImportProvider]
<1>2. batch.files = accepted /\ batch \in [files : SUBSET Files, provider : CookieProviders]
  BY <1>0 DEF ImportTypeOK
<1> HIDE DEF batch
<1>3. parsing' = parsing \cup {batch}
  BY <1>1 DEF batch
<1>4. ImportTypeOK'
  BY <1>0, <1>2, <1>3 DEF ImportTypeOK
<1>5. OnePlace'
  BY <1>0, <1>2, <1>3 DEF OnePlace
<1>6. WorkersServeWaiting' /\ CreatedIsDone'
  <2>1. WorkersServeWaiting'
    BY <1>0 DEF WorkersServeWaiting, Importing
  <2>2. CreatedIsDone'
    BY <1>0, <1>2, <1>3 DEF CreatedIsDone
  <2> QED BY <2>1, <2>2
<1> QED BY <1>4, <1>5, <1>6 DEF ImportInv

\* A batch is parsed and joins the list.
LEMMA ParsedKeepsInv ==
    ASSUME ImportInv, NEW b \in parsing, FilesParsed(b)
    PROVE  ImportInv'
<1>0. /\ ImportTypeOK /\ OnePlace /\ WorkersServeWaiting /\ CreatedIsDone
      /\ b \in [files : SUBSET Files, provider : CookieProviders]
      /\ parsing' = parsing \ {b}
      /\ UNCHANGED <<bulkImportOpen, bulkImportProvider, bulkImportConfigValid, unnamed, unpicked,
                     bulkImportBusy, waiting, created, lost>>
  BY DEF ImportInv, ImportTypeOK, FilesParsed, work
<1>1. /\ DOMAIN items' = DOMAIN items \cup b.files
      /\ \A f \in b.files : items'[f] \in {"ready", "invalid"}
      /\ \A f \in DOMAIN items : items'[f] = items[f]
      /\ items' \in [DOMAIN items' -> {"ready", "invalid", "importing", "submitted", "failed"}]
  BY <1>0 DEF FilesParsed, validateCookieJSON, ImportTypeOK, OnePlace
<1>2. ImportTypeOK'
  BY <1>0, <1>1 DEF ImportTypeOK
<1>3. OnePlace'
  BY <1>0, <1>1 DEF OnePlace
<1>4. Importing' = Importing
  BY <1>1 DEF Importing
<1>5. WorkersServeWaiting'
  BY <1>0, <1>1, <1>4 DEF WorkersServeWaiting, ImportTypeOK
<1>6. CreatedIsDone'
  BY <1>0, <1>1 DEF CreatedIsDone
<1> QED BY <1>2, <1>3, <1>5, <1>6 DEF ImportInv

\* A listed file is renamed or removed.
LEMMA EditKeepsInv ==
    ASSUME ImportInv, NEW f \in Files, RenameItem(f) \/ RemoveItem(f)
    PROVE  ImportInv'
<1>0. /\ ImportTypeOK /\ OnePlace /\ WorkersServeWaiting /\ CreatedIsDone
      /\ UNCHANGED <<bulkImportOpen, bulkImportProvider, bulkImportConfigValid, unpicked, parsing,
                     bulkImportBusy, waiting, created, lost>>
      /\ ~bulkImportBusy /\ waiting = {} /\ Importing = {} /\ f \in DOMAIN items
  BY DEF ImportInv, RenameItem, RemoveItem, work, WorkersServeWaiting
<1>1. /\ DOMAIN items' \subseteq DOMAIN items
      /\ \A g \in DOMAIN items' : items'[g] = items[g]
      /\ items' \in [DOMAIN items' -> {"ready", "invalid", "importing", "submitted", "failed"}]
      /\ unnamed' \subseteq DOMAIN items'
  <2>1. CASE RenameItem(f)
    BY <1>0, <2>1 DEF RenameItem, ImportTypeOK
  <2>2. CASE RemoveItem(f)
    BY <1>0, <2>2 DEF RemoveItem, ImportTypeOK
  <2> QED BY <2>1, <2>2
<1>2. ImportTypeOK'
  BY <1>0, <1>1 DEF ImportTypeOK
<1>3. OnePlace' /\ CreatedIsDone'
  BY <1>0, <1>1 DEF OnePlace, CreatedIsDone
<1>4. WorkersServeWaiting'
  BY <1>0, <1>1 DEF WorkersServeWaiting, Importing
<1> QED BY <1>2, <1>3, <1>4 DEF ImportInv

\* An import starts: at least one worker has an item.
LEMMA StartKeepsInv ==
    ASSUME ImportInv, importCookieAccounts
    PROVE  ImportInv'
<1>0. /\ ImportTypeOK /\ OnePlace /\ WorkersServeWaiting /\ CreatedIsDone
      /\ UNCHANGED <<bulkImportOpen, bulkImportProvider, bulkImportConfigValid, unnamed, unpicked, parsing, created, lost>>
      /\ bulkImportBusy' = TRUE /\ bulkImportOpen /\ Importable # {}
  BY DEF ImportInv, importCookieAccounts, ImportOffered
<1>1. PICK first \in SUBSET Importable :
        /\ Cardinality(first) = IF Cardinality(Importable) < COOKIE_IMPORT_CONCURRENCY
                                THEN Cardinality(Importable) ELSE COOKIE_IMPORT_CONCURRENCY
        /\ waiting' = Importable \ first
        /\ items' = [f \in DOMAIN items |-> IF f \in first THEN "importing" ELSE items[f]]
  BY DEF importCookieAccounts
<1>2. IsFiniteSet(Importable)
  <2>1. Importable \in SUBSET Files
    BY <1>0 DEF Importable, ImportTypeOK
  <2> QED BY <2>1, ImportAssumption, FS_Subset
<1>3. Cardinality(first) # 0
  <2>1. Cardinality(Importable) \in Nat /\ Cardinality(Importable) # 0
    BY <1>0, <1>2, FS_CardinalityType, FS_EmptySet
  <2> QED BY <1>1, <2>1, ImportAssumption
<1>4. first # {}
  BY <1>3, FS_EmptySet, Zenon
<1>5. Importable \subseteq DOMAIN items /\ \A f \in Importable : items[f] \in {"ready", "failed"}
  BY DEF Importable
<1>6. DOMAIN items' = DOMAIN items /\ items' \in [DOMAIN items' -> {"ready", "invalid", "importing", "submitted", "failed"}]
  BY <1>0, <1>1 DEF ImportTypeOK
<1>7. ImportTypeOK'
  BY <1>0, <1>1, <1>5, <1>6 DEF ImportTypeOK
<1>8. OnePlace'
  BY <1>0, <1>6 DEF OnePlace
<1>9. WorkersServeWaiting'
  <2>1. Importing' # {}
    BY <1>1, <1>4, <1>5 DEF Importing
  <2>2. \A f \in waiting' : items'[f] \in {"ready", "failed"}
    BY <1>1, <1>5
  <2> QED BY <1>0, <2>1, <2>2 DEF WorkersServeWaiting
<1>10. CreatedIsDone'
  BY <1>0, <1>1, <1>5, <1>6 DEF CreatedIsDone
<1> QED BY <1>7, <1>8, <1>9, <1>10 DEF ImportInv

\* A worker is done with an item, and takes the next one if one waits.
LEMMA TakeNextKeeps ==
    ASSUME ImportInv, NEW f \in Importing, NEW s \in {"submitted", "failed"}, TakeNext(f, s),
           UNCHANGED <<bulkImportBusy, bulkImportOpen>>
    PROVE  /\ DOMAIN items' = DOMAIN items
           /\ items' \in [DOMAIN items -> {"ready", "invalid", "importing", "submitted", "failed"}]
           /\ items'[f] = s
           /\ \A g \in DOMAIN items : g # f => items'[g] = items[g] \/ (g \in waiting /\ items'[g] = "importing")
           /\ waiting' \subseteq waiting
           /\ WorkersServeWaiting'
<1>0. /\ items \in [DOMAIN items -> {"ready", "invalid", "importing", "submitted", "failed"}]
      /\ f \in DOMAIN items /\ items[f] = "importing" /\ waiting \subseteq DOMAIN items
      /\ \A g \in waiting : items[g] \in {"ready", "failed"}
      /\ bulkImportBusy /\ bulkImportOpen /\ bulkImportBusy \in BOOLEAN
  BY DEF ImportInv, ImportTypeOK, WorkersServeWaiting, Importing
<1>1. CASE waiting = {}
  <2>1. items' = [items EXCEPT ![f] = s] /\ waiting' = {}
    BY <1>1 DEF TakeNext, WithStatus
  <2>2. WorkersServeWaiting'
    BY <1>0, <2>1 DEF WorkersServeWaiting
  <2> QED BY <1>0, <1>1, <2>1, <2>2
<1>2. CASE waiting # {}
  <2>1. PICK g \in waiting : waiting' = waiting \ {g} /\ items' = [[items EXCEPT ![f] = s] EXCEPT ![g] = "importing"]
    BY <1>2 DEF TakeNext, WithStatus
  <2>2. g # f /\ g \in DOMAIN items
    BY <1>0
  <2>3. /\ DOMAIN items' = DOMAIN items /\ items'[f] = s /\ items'[g] = "importing"
        /\ \A h \in DOMAIN items : h # f /\ h # g => items'[h] = items[h]
    BY <1>0, <2>1, <2>2
  <2>4. items' \in [DOMAIN items -> {"ready", "invalid", "importing", "submitted", "failed"}]
    BY <1>0, <2>1, <2>2
  <2>5. g \in Importing'
    BY <2>2, <2>3 DEF Importing
  <2>6. \A h \in waiting' : items'[h] \in {"ready", "failed"}
    BY <1>0, <2>1, <2>3
  <2>7. WorkersServeWaiting'
    BY <1>0, <2>5, <2>6 DEF WorkersServeWaiting
  <2> QED BY <2>1, <2>3, <2>4, <2>7
<1> QED BY <1>1, <1>2

\* A file that is imported has no account yet, or one whose answer was lost.
LEMMA ImportingIsNew ==
    ASSUME ImportInv, NEW f \in Importing
    PROVE  f \in Files /\ created[f] \in Nat /\ (created[f] > 0 => f \in lost) /\ f \in DOMAIN items
           /\ f \notin unpicked /\ \A b \in parsing : f \notin b.files
BY DEF ImportInv, ImportTypeOK, CreatedIsDone, Importing, OnePlace

\* An account is created, or refused, or created and the answer lost.
LEMMA AnswerKeepsInv ==
    ASSUME ImportInv, NEW f \in Files, ImportSucceeds(f) \/ ImportFails(f)
    PROVE  ImportInv'
<1>0. /\ ImportTypeOK /\ OnePlace /\ WorkersServeWaiting /\ CreatedIsDone
      /\ UNCHANGED <<bulkImportOpen, bulkImportProvider, bulkImportConfigValid, bulkImportBusy, unnamed, unpicked, parsing>>
      /\ f \in Importing
  BY DEF ImportInv, ImportSucceeds, ImportFails
<1>1. PICK s \in {"submitted", "failed"} :
        TakeNext(f, s) /\ (s = "submitted" \/ f \in lost' \/ created' = created) /\ lost \subseteq lost' /\ lost' \subseteq lost \cup {f}
  BY DEF ImportSucceeds, ImportFails
<1>2. created' \in [Files -> 0..MaxCreated] /\ \A g \in Files : g # f => created'[g] = created[g]
  <2>1. created' = created \/ (created[f] < MaxCreated /\ created' = [created EXCEPT ![f] = @ + 1])
    BY DEF ImportSucceeds, ImportFails
  <2>2. created \in [Files -> 0..MaxCreated] /\ MaxCreated \in Nat
    BY <1>0 DEF ImportTypeOK, MaxCreated
  <2>3. CASE created' = created
    BY <2>2, <2>3
  <2>4. CASE created[f] < MaxCreated /\ created' = [created EXCEPT ![f] = @ + 1]
    <3>1. created[f] + 1 \in 0..MaxCreated
      BY <2>2, <2>4
    <3> QED BY <2>2, <2>4, <3>1
  <2> QED BY <2>1, <2>3, <2>4
<1>3. /\ DOMAIN items' = DOMAIN items
      /\ items' \in [DOMAIN items -> {"ready", "invalid", "importing", "submitted", "failed"}]
      /\ items'[f] = s
      /\ \A g \in DOMAIN items : g # f => items'[g] = items[g] \/ (g \in waiting /\ items'[g] = "importing")
      /\ waiting' \subseteq waiting
      /\ WorkersServeWaiting'
  BY <1>0, <1>1, TakeNextKeeps
<1>4. ImportTypeOK'
  BY <1>0, <1>1, <1>2, <1>3 DEF ImportTypeOK
<1>5. OnePlace'
  BY <1>0, <1>3 DEF OnePlace
<1>6. ASSUME NEW g \in Files, created'[g] > 0, g \notin lost'
      PROVE  /\ g \notin unpicked /\ \A b \in parsing : g \notin b.files
             /\ g \in DOMAIN items => items'[g] = "submitted"
  <2>1. CASE g = f
    <3>1. s = "submitted"
      <4>1. created' = created => f \in lost
        BY <1>0, <1>6, <2>1, ImportingIsNew
      <4> QED BY <1>1, <1>6, <2>1, <4>1
    <3> QED BY <1>0, <1>3, <2>1, <3>1, ImportingIsNew
  <2>2. CASE g # f
    <3>1. created[g] > 0 /\ g \notin lost
      BY <1>1, <1>2, <1>6, <2>2
    <3>2. /\ g \notin unpicked /\ \A b \in parsing : g \notin b.files
          /\ g \in DOMAIN items => items[g] = "submitted"
      BY <1>0, <3>1 DEF CreatedIsDone
    <3>3. g \notin waiting
      BY <1>0, <3>2 DEF WorkersServeWaiting, ImportTypeOK
    <3> QED BY <1>3, <2>2, <3>2, <3>3
  <2> QED BY <2>1, <2>2
<1>7. CreatedIsDone'
  BY <1>0, <1>3, <1>6 DEF CreatedIsDone
<1> QED BY <1>3, <1>4, <1>5, <1>7 DEF ImportInv

\* The import is over.
LEMMA ImportDoneKeepsInv ==
    ASSUME ImportInv, ImportDone
    PROVE  ImportInv'
<1>0. /\ ImportTypeOK /\ OnePlace /\ WorkersServeWaiting /\ CreatedIsDone
      /\ UNCHANGED <<bulkImportOpen, bulkImportProvider, bulkImportConfigValid, items, unnamed, unpicked, parsing,
                     waiting, created, lost>>
      /\ bulkImportBusy' = FALSE /\ Importing = {}
  BY DEF ImportInv, ImportDone, list
<1>1. ImportTypeOK' /\ OnePlace' /\ CreatedIsDone'
  BY <1>0 DEF ImportTypeOK, OnePlace, CreatedIsDone
<1>2. WorkersServeWaiting'
  BY <1>0 DEF WorkersServeWaiting, Importing
<1> QED BY <1>1, <1>2 DEF ImportInv

\* Every step of the dialog and of the workers keeps the invariant.
LEMMA StepKeepsImportInv ==
    ASSUME ImportInv, [ImportNext]_importVars
    PROVE  ImportInv'
<1>0. ImportTypeOK /\ WorkersServeWaiting
  BY DEF ImportInv
<1>1. CASE openBulkImport
  <2>1. ~bulkImportBusy
    BY <1>0, <1>1 DEF openBulkImport, WorkersServeWaiting
  <2> QED BY <1>0, <1>1, <2>1, EmptyListKeepsInv DEF openBulkImport, ImportTypeOK
<1>2. CASE CloseImport
  BY <1>0, <1>2, DialogKeepsInv DEF CloseImport, ImportTypeOK
<1>3. ASSUME NEW p \in CookieProviders, setBulkImportProvider(p) PROVE ImportInv'
  BY <1>0, <1>3, EmptyListKeepsInv DEF setBulkImportProvider, ImportTypeOK
<1>4. CASE setBulkImportConfig
  BY <1>0, <1>4, DialogKeepsInv DEF setBulkImportConfig, ImportTypeOK
<1>5. ASSUME NEW chosen \in (SUBSET Files) \ {{}}, addCookieFiles(chosen) PROVE ImportInv'
  BY <1>5, PickKeepsInv
<1>6. ASSUME NEW b \in parsing, FilesParsed(b) PROVE ImportInv'
  BY <1>6, ParsedKeepsInv
<1>7. ASSUME NEW f \in Files, RenameItem(f) \/ RemoveItem(f) PROVE ImportInv'
  BY <1>7, EditKeepsInv
<1>8. CASE importCookieAccounts
  BY <1>8, StartKeepsInv
<1>9. ASSUME NEW f \in Files, ImportSucceeds(f) \/ ImportFails(f) PROVE ImportInv'
  BY <1>9, AnswerKeepsInv
<1>10. CASE ImportDone
  BY <1>10, ImportDoneKeepsInv
<1>11. CASE UNCHANGED importVars
  BY <1>0, <1>11, DialogKeepsInv DEF importVars, ImportTypeOK, WorkersServeWaiting
<1> QED BY <1>1, <1>2, <1>3, <1>4, <1>5, <1>6, <1>7, <1>8, <1>9, <1>10, <1>11 DEF ImportNext

\* No file is in two places, and one whose account is known to exist is not
\* imported again, in every state of the import dialog.
THEOREM ImportInvariant == ImportSpec => []ImportInv
<1>1. ImportInit => ImportInv
  <2> SUFFICES ASSUME ImportInit PROVE ImportInv
    OBVIOUS
  <2>0. DOMAIN items = {} /\ items \in [DOMAIN items -> {"ready", "invalid", "importing", "submitted", "failed"}]
    BY DEF ImportInit, NoItems
  <2>1. ImportTypeOK
    <3>1. created \in [Files -> 0..MaxCreated]
      BY DEF ImportInit, MaxCreated
    <3>2. unnamed \subseteq DOMAIN items /\ DOMAIN items \subseteq Files /\ waiting \subseteq DOMAIN items
      BY <2>0 DEF ImportInit
    <3> QED BY <2>0, <3>1, <3>2 DEF ImportInit, ImportTypeOK
  <2>2. OnePlace /\ WorkersServeWaiting /\ CreatedIsDone
    BY <2>0 DEF ImportInit, OnePlace, WorkersServeWaiting, CreatedIsDone, Importing
  <2> QED BY <2>1, <2>2 DEF ImportInv
<1> QED BY <1>1, StepKeepsImportInv, PTL DEF ImportSpec

\* A file becomes a second account only after the answer for the first was lost.
THEOREM ImportsEachFileOnce == ImportSpec => ImportsOnce
<1>1. ASSUME ImportInv, [ImportNext]_importVars, NEW f \in Files, created'[f] > created[f], created[f] > 0
      PROVE  f \in lost
  <2>0. created \in [Files -> 0..MaxCreated] /\ MaxCreated \in Nat
    BY <1>1 DEF ImportInv, ImportTypeOK, MaxCreated
  <2>1. CASE created' = created
    BY <1>1, <2>0, <2>1
  <2>2. ASSUME NEW g \in Files, ImportSucceeds(g) \/ ImportFails(g) PROVE f \in lost
    <3>1. g \in Importing /\ (created' = created \/ created' = [created EXCEPT ![g] = @ + 1])
      BY <2>2 DEF ImportSucceeds, ImportFails
    <3>2. g = f
      BY <1>1, <2>0, <3>1
    <3> QED BY <1>1, <3>1, <3>2, ImportingIsNew
  <2>3. created' = created \/ \E g \in Files : ImportSucceeds(g) \/ ImportFails(g)
    BY <1>1 DEF ImportNext, importVars, work, openBulkImport, CloseImport, setBulkImportProvider, setBulkImportConfig,
                addCookieFiles, FilesParsed, RenameItem, RemoveItem, importCookieAccounts, ImportDone
  <2> QED BY <2>1, <2>2, <2>3
<1>2. ImportInv /\ [ImportNext]_importVars =>
        [\A f \in Files : created'[f] > created[f] /\ created[f] > 0 => f \in lost]_importVars
  BY <1>1
<1> QED BY <1>2, ImportInvariant, PTL DEF ImportSpec, ImportsOnce

-----------------------------------------------------------------------------
(* The account dialog. *)

\* The largest maximum bounds them all.
LEMMA ConcurrencyBounds ==
    /\ MaxConcurrency \in Nat
    /\ \A p \in Platforms : ConcurrencyMaximum[p] \in 1..MaxConcurrency
    /\ DefaultConcurrency \in 1..MaxConcurrency
<1> DEFINE Largest(n) == \A p \in Platforms : ConcurrencyMaximum[p] <= n
           a == ConcurrencyMaximum["leonardo"]
           b == ConcurrencyMaximum["adobe"]
           c == ConcurrencyMaximum["creativefabrica"]
<1>0. a \in Nat \ {0} /\ b \in Nat \ {0} /\ c \in Nat \ {0}
  BY FormAssumption DEF Platforms
<1>1. \E n \in {a, b, c} : a <= n /\ b <= n /\ c <= n
  BY <1>0
<1>2. {ConcurrencyMaximum[p] : p \in Platforms} = {a, b, c}
  BY DEF Platforms
<1>3. \E n \in {ConcurrencyMaximum[p] : p \in Platforms} : Largest(n)
  BY <1>1, <1>2 DEF Platforms
<1>4. MaxConcurrency \in {ConcurrencyMaximum[p] : p \in Platforms} /\ Largest(MaxConcurrency)
  BY <1>3 DEF MaxConcurrency
<1>5. \A p \in Platforms : ConcurrencyMaximum[p] \in Nat \ {0}
  BY FormAssumption
<1>6. MaxConcurrency \in Nat
  BY <1>4, <1>5
<1>7. \A p \in Platforms : ConcurrencyMaximum[p] \in 1..MaxConcurrency
  BY <1>4, <1>5, <1>6
<1>8. DefaultConcurrency \in 1..ConcurrencyMaximum["adobe"] /\ "adobe" \in Platforms
  BY FormAssumption DEF Platforms
<1> QED BY <1>0, <1>6, <1>7, <1>8

\* The fields of a dialog that opens.
LEMMA BlankFields ==
    ASSUME NEW p \in Platforms, NEW auth \in AuthMethods[p]
    PROVE  /\ Blank(p, auth) \in Fields
           /\ Blank(p, auth).provider = p
           /\ Blank(p, auth).auth_method = auth
           /\ Blank(p, auth).cookie = "none"
           /\ ~Blank(p, auth).password
           /\ ~Blank(p, auth).otp
<1>1. auth \in UNION {AuthMethods[q] : q \in Platforms}
  OBVIOUS
<1>2. DefaultConcurrency \in 1..MaxConcurrency /\ 0 \in 0..MaxConcurrency
  BY ConcurrencyBounds
<1>3. Blank(p, auth) \in Fields
  BY <1>1, <1>2 DEF Blank, Fields
<1>4. Blank(p, auth).provider = p /\ Blank(p, auth).auth_method = auth /\ Blank(p, auth).cookie = "none"
  BY DEF Blank
<1>5. ~Blank(p, auth).password
  BY DEF Blank
<1>6. ~Blank(p, auth).otp
  BY DEF Blank
<1> QED BY <1>3, <1>4, <1>5, <1>6

\* Handlers that write the fields keep the invariant if what they write fits.
LEMMA FieldsKeepInv ==
    ASSUME FormInv, NEW next \in Fields, SetFields(next), next.auth_method \in AuthMethods[next.provider],
           form = "create" => Coherent(next),
           form = "edit" => next.provider # "adobe" \/ ~next.password
    PROVE  FormInv'
<1>1. v' = next /\ UNCHANGED <<form, reading, saving, orphans>>
  BY DEF SetFields
<1>2. FormTypeOK'
  BY <1>1 DEF FormInv, FormTypeOK
<1>3. form' = "create" => Coherent(v')
  BY <1>1
<1>4. form' = "edit" => v'.provider # "adobe" \/ ~v'.password
  BY <1>1
<1>5. \A copy \in reading' : form' = "create" /\ Coherent(copy)
  BY <1>1 DEF FormInv
<1> QED BY <1>2, <1>3, <1>4, <1>5 DEF FormInv

\* The inputs on screen, one by one.
LEMMA ShownInputs ==
    /\ Shown.password <=> IF form = "edit" THEN v.provider # "adobe" ELSE requiresPassword
    /\ Shown.otp <=> form = "create" /\ v.provider = "creativefabrica" /\ v.auth_method = "email_password"
    /\ Shown.access_token <=> form = "create" /\ v.provider = "adobe" /\ v.auth_method = "access_token"
    /\ Shown.cookie <=> form = "create" /\ isCookieMethod
<1>1. Shown.password <=> IF form = "edit" THEN v.provider # "adobe" ELSE requiresPassword
  BY DEF Shown, requiresPassword
<1>2. Shown.otp <=> form = "create" /\ v.provider = "creativefabrica" /\ v.auth_method = "email_password"
  BY DEF Shown
<1>3. Shown.access_token <=> form = "create" /\ v.provider = "adobe" /\ v.auth_method = "access_token"
  BY DEF Shown
<1>4. Shown.cookie <=> form = "create" /\ isCookieMethod
  BY DEF Shown, isCookieMethod
<1> QED BY <1>1, <1>2, <1>3, <1>4

\* A new password, code or token is typed where it is shown.
LEMMA TypingKeepsInv ==
    ASSUME FormInv, TypePassword \/ TypeOtp \/ TypeAccessToken
    PROVE  FormInv'
<1>0. /\ v \in Fields /\ v.auth_method \in AuthMethods[v.provider]
      /\ form = "create" => Coherent(v)
      /\ form = "edit" => v.provider # "adobe" \/ ~v.password
  BY DEF FormInv, FormTypeOK
<1>1. CASE TypePassword
  <2> DEFINE next == [v EXCEPT !.password = ~v.password]
  <2>1. SetFields(next) /\ Shown.password
    BY <1>1 DEF TypePassword
  <2>2. next \in Fields
    BY <1>0 DEF Fields
  <2>3. next.provider = v.provider /\ next.auth_method = v.auth_method /\ next.cookie = v.cookie /\ next.otp = v.otp
    BY <1>0 DEF Fields
  <2> HIDE DEF next
  <2>4. form = "edit" => v.provider # "adobe"
    BY <2>1, ShownInputs
  <2>5. form = "create" => v.auth_method # "complete_cookie"
    BY <2>1, ShownInputs DEF requiresPassword
  <2>6. form = "create" => Coherent(next)
    BY <1>0, <2>3, <2>5 DEF Coherent
  <2> QED BY <1>0, <2>1, <2>2, <2>3, <2>4, <2>6, FieldsKeepInv
<1>2. CASE TypeOtp
  <2> DEFINE next == [v EXCEPT !.otp = ~v.otp]
  <2>1. SetFields(next) /\ Shown.otp
    BY <1>2 DEF TypeOtp
  <2>2. next \in Fields
    BY <1>0 DEF Fields
  <2>3. next.provider = v.provider /\ next.auth_method = v.auth_method /\ next.cookie = v.cookie /\ next.password = v.password
    BY <1>0 DEF Fields
  <2> HIDE DEF next
  <2>4. form = "create" /\ v.auth_method = "email_password"
    BY <2>1, ShownInputs
  <2>5. Coherent(next)
    BY <1>0, <2>3, <2>4 DEF Coherent
  <2> QED BY <1>0, <2>1, <2>2, <2>3, <2>4, <2>5, FieldsKeepInv
<1>3. CASE TypeAccessToken
  <2> DEFINE next == [v EXCEPT !.access_token = ~v.access_token]
  <2>1. SetFields(next)
    BY <1>3 DEF TypeAccessToken
  <2>2. next \in Fields
    BY <1>0 DEF Fields
  <2>3. next.provider = v.provider /\ next.auth_method = v.auth_method /\ next.cookie = v.cookie /\ next.otp = v.otp
        /\ next.password = v.password
    BY <1>0 DEF Fields
  <2> HIDE DEF next
  <2>4. form = "create" => Coherent(next)
    BY <1>0, <2>3 DEF Coherent
  <2> QED BY <1>0, <2>1, <2>2, <2>3, <2>4, FieldsKeepInv
<1> QED BY <1>1, <1>2, <1>3

\* Concurrency and reserved slots have nothing to do with the credentials.
LEMMA NumbersKeepInv ==
    ASSUME FormInv, NEW n \in 1..MaxConcurrency, NEW m \in 0..MaxConcurrency,
           SetFields([v EXCEPT !.image_concurrency = n, !.video_reserved_slots = m])
    PROVE  FormInv'
<1>0. /\ v \in Fields /\ v.auth_method \in AuthMethods[v.provider]
      /\ form = "create" => Coherent(v)
      /\ form = "edit" => v.provider # "adobe" \/ ~v.password
  BY DEF FormInv, FormTypeOK
<1> DEFINE next == [v EXCEPT !.image_concurrency = n, !.video_reserved_slots = m]
<1>1. next \in Fields
  BY <1>0 DEF Fields
<1>2. next.provider = v.provider /\ next.auth_method = v.auth_method /\ next.cookie = v.cookie /\ next.otp = v.otp
      /\ next.password = v.password
  BY <1>0 DEF Fields
<1>3. SetFields(next)
  OBVIOUS
<1> HIDE DEF next
<1>4. form = "create" => Coherent(next)
  BY <1>0, <1>2 DEF Coherent
<1> QED BY <1>0, <1>1, <1>2, <1>3, <1>4, FieldsKeepInv

\* Another platform starts with blank credentials.
LEMMA ProviderKeepsInv ==
    ASSUME FormInv, NEW p \in Platforms, setProvider(p)
    PROVE  FormInv'
<1> DEFINE auth == IF p = "adobe" THEN "access_token" ELSE "complete_cookie"
           blank == Blank(p, auth)
           next == [blank EXCEPT !.image_concurrency = ConcurrencyMaximum[p], !.video_reserved_slots = v.video_reserved_slots]
<1>0. v \in Fields /\ form = "create" /\ SetFields(next)
  BY DEF FormInv, FormTypeOK, setProvider
<1>1. auth \in AuthMethods[p]
  BY DEF AuthMethods, Platforms
<1>2. /\ blank \in Fields /\ blank.provider = p /\ blank.auth_method = auth /\ blank.cookie = "none"
      /\ ~blank.password /\ ~blank.otp
  BY <1>1, BlankFields
<1> HIDE DEF blank, auth
<1>3. next \in Fields
  BY <1>0, <1>2, ConcurrencyBounds DEF Fields
<1>4. next.provider = p /\ next.auth_method = auth /\ next.cookie = "none"
  BY <1>2 DEF Fields
<1>5. ~next.password /\ ~next.otp
  <2>1. next.password = blank.password /\ next.otp = blank.otp
    BY <1>2 DEF Fields
  <2> QED BY <1>2, <2>1
<1> HIDE DEF next
<1>6. Coherent(next)
  BY <1>1, <1>4, <1>5 DEF Coherent
<1> QED BY <1>0, <1>1, <1>3, <1>4, <1>6, FieldsKeepInv

\* Another method drops what its inputs no longer show.
LEMMA MethodKeepsInv ==
    ASSUME FormInv, NEW m \in UNION {AuthMethods[p] : p \in Platforms}, setAuthMethod(m)
    PROVE  FormInv'
<1>0. /\ v \in Fields /\ v.auth_method \in AuthMethods[v.provider] /\ form = "create" /\ Coherent(v)
      /\ m \in AuthMethods[v.provider] /\ v.provider \in Platforms
      /\ m \in {"access_token", "complete_cookie", "complete_cookie_password", "email_password"}
  BY DEF FormInv, FormTypeOK, setAuthMethod, Fields, AuthMethods, Platforms
<1>1. CASE m = "access_token"
  <2> DEFINE next == [v EXCEPT !.auth_method = m, !.cookie = "none"]
  <2>1. SetFields(next)
    BY <1>1 DEF setAuthMethod
  <2>2. next \in Fields
    BY <1>0 DEF Fields
  <2>3. next.provider = v.provider /\ next.auth_method = m /\ next.cookie = "none"
    BY <1>0 DEF Fields
  <2>4. next.otp = v.otp /\ v.provider = "adobe" /\ v.auth_method # "email_password"
    BY <1>0, <1>1 DEF Fields, AuthMethods, Platforms
  <2> HIDE DEF next
  <2>5. Coherent(next)
    BY <1>0, <2>3, <2>4 DEF Coherent
  <2> QED BY <1>0, <2>1, <2>2, <2>3, <2>5, FieldsKeepInv
<1>2. CASE m = "complete_cookie"
  <2> DEFINE next == [v EXCEPT !.auth_method = m, !.password = FALSE, !.otp = FALSE, !.access_token = FALSE]
  <2>1. SetFields(next)
    BY <1>2 DEF setAuthMethod
  <2>2. next \in Fields
    BY <1>0 DEF Fields
  <2>3. next.provider = v.provider /\ next.auth_method = m /\ next.cookie = v.cookie
    BY <1>0 DEF Fields
  <2>4. ~next.otp
    BY <1>0 DEF Fields
  <2>5. ~next.password
    BY <1>0 DEF Fields
  <2> HIDE DEF next
  <2>6. Coherent(next)
    BY <1>0, <2>3, <2>4, <2>5 DEF Coherent
  <2> QED BY <1>0, <2>1, <2>2, <2>3, <2>6, FieldsKeepInv
<1>3. CASE m = "complete_cookie_password"
  <2> DEFINE next == [v EXCEPT !.auth_method = m, !.otp = FALSE]
  <2>1. SetFields(next)
    BY <1>3 DEF setAuthMethod
  <2>2. next \in Fields
    BY <1>0 DEF Fields
  <2>3. next.provider = v.provider /\ next.auth_method = m /\ next.cookie = v.cookie
    BY <1>0 DEF Fields
  <2>4. ~next.otp
    BY <1>0 DEF Fields
  <2> HIDE DEF next
  <2>5. Coherent(next)
    BY <1>0, <1>3, <2>3, <2>4 DEF Coherent
  <2> QED BY <1>0, <2>1, <2>2, <2>3, <2>5, FieldsKeepInv
<1>4. CASE m = "email_password"
  <2> DEFINE next == [v EXCEPT !.auth_method = m, !.cookie = "none", !.access_token = FALSE]
  <2>1. SetFields(next)
    BY <1>4 DEF setAuthMethod
  <2>2. next \in Fields
    BY <1>0 DEF Fields
  <2>3. next.provider = v.provider /\ next.auth_method = m /\ next.cookie = "none"
    BY <1>0 DEF Fields
  <2> HIDE DEF next
  <2>4. Coherent(next)
    BY <1>0, <1>4, <2>3 DEF Coherent
  <2> QED BY <1>0, <2>1, <2>2, <2>3, <2>4, FieldsKeepInv
<1> QED BY <1>0, <1>1, <1>2, <1>3, <1>4

\* A cookie file is chosen and read; the form returns to the copy its handler held.
LEMMA CookieFileKeepsInv ==
    ASSUME FormInv, ChooseCookieFile \/ \E copy \in reading : CookieFileRead(copy)
    PROVE  FormInv'
<1>0. /\ FormTypeOK /\ v \in Fields /\ reading \subseteq Fields
      /\ form = "create" => Coherent(v)
      /\ \A copy \in reading : form = "create" /\ Coherent(copy)
  BY DEF FormInv, FormTypeOK
<1>1. CASE ChooseCookieFile
  <2>1. form = "create" /\ reading' = reading \cup {v} /\ UNCHANGED <<form, v, saving, orphans>>
    BY <1>1, ShownInputs DEF ChooseCookieFile
  <2>2. FormTypeOK'
    BY <1>0, <2>1 DEF FormTypeOK
  <2>3. \A copy \in reading' : form' = "create" /\ Coherent(copy)
    BY <1>0, <2>1
  <2>4. Coherent(v') /\ form' = "create"
    BY <1>0, <2>1
  <2> QED BY <2>2, <2>3, <2>4 DEF FormInv
<1>2. ASSUME NEW copy \in reading, CookieFileRead(copy) PROVE FormInv'
  <2>1. form = "create" /\ Coherent(copy) /\ copy \in Fields
    BY <1>0
  <2>2. PICK cookie \in {copy.provider, "none"} : v' = [copy EXCEPT !.cookie = cookie]
    BY <1>2 DEF CookieFileRead
  <2> DEFINE next == [copy EXCEPT !.cookie = cookie]
  <2>3. next \in Fields
    BY <2>1 DEF Fields
  <2>4. next.provider = copy.provider /\ next.auth_method = copy.auth_method /\ next.cookie = cookie
        /\ next.otp = copy.otp /\ next.password = copy.password
    BY <2>1 DEF Fields
  <2>5. v' = next
    BY <2>2
  <2> HIDE DEF next
  <2>6. Coherent(next)
    BY <2>1, <2>4 DEF Coherent
  <2>7. reading' = reading \ {copy} /\ UNCHANGED <<form, saving, orphans>>
    BY <1>2 DEF CookieFileRead
  <2>8. next.auth_method \in AuthMethods[next.provider]
    BY <2>6 DEF Coherent
  <2>9. FormTypeOK'
    BY <1>0, <2>3, <2>5, <2>7, <2>8 DEF FormTypeOK
  <2>10. form' = "create" /\ Coherent(v')
    BY <2>1, <2>5, <2>6, <2>7
  <2>11. \A c \in reading' : form' = "create" /\ Coherent(c)
    BY <1>0, <2>7
  <2> QED BY <2>9, <2>10, <2>11 DEF FormInv
<1> QED BY <1>1, <1>2

\* A dialog opens, for a new account or for one that exists.
LEMMA OpeningKeepsInv ==
    ASSUME FormInv, OpenCreate \/ \E p \in Platforms : OpenEdit(p)
    PROVE  FormInv'
<1>0. FormTypeOK /\ reading = {} /\ UNCHANGED <<reading, saving, orphans>>
  BY DEF FormInv, OpenCreate, OpenEdit
<1>1. CASE OpenCreate
  <2> DEFINE next == Blank("leonardo", "complete_cookie")
  <2>1. "leonardo" \in Platforms /\ "complete_cookie" \in AuthMethods["leonardo"]
    BY DEF Platforms, AuthMethods
  <2>2. /\ next \in Fields /\ next.provider = "leonardo" /\ next.auth_method = "complete_cookie" /\ next.cookie = "none"
        /\ ~next.password /\ ~next.otp
    BY <2>1, BlankFields
  <2>3. v' = next /\ form' = "create"
    BY <1>1 DEF OpenCreate
  <2> HIDE DEF next
  <2>4. FormTypeOK'
    BY <1>0, <2>1, <2>2, <2>3 DEF FormTypeOK
  <2>5. Coherent(v')
    BY <2>1, <2>2, <2>3 DEF Coherent
  <2> QED BY <1>0, <2>3, <2>4, <2>5 DEF FormInv
<1>2. ASSUME NEW p \in Platforms, OpenEdit(p) PROVE FormInv'
  <2>1. PICK auth \in IF p = "adobe" THEN {"access_token"} ELSE {"complete_cookie", "complete_cookie_password"} :
          v' = Blank(p, auth)
    BY <1>2 DEF OpenEdit
  <2>2. auth \in AuthMethods[p]
    BY <2>1 DEF Platforms, AuthMethods
  <2> DEFINE next == Blank(p, auth)
  <2>3. next \in Fields /\ next.provider = p /\ next.auth_method = auth /\ ~next.password
    BY <2>2, BlankFields
  <2>4. v' = next /\ form' = "edit"
    BY <1>2, <2>1 DEF OpenEdit
  <2> HIDE DEF next
  <2>5. FormTypeOK'
    BY <1>0, <2>2, <2>3, <2>4 DEF FormTypeOK
  <2> QED BY <1>0, <2>3, <2>4, <2>5 DEF FormInv
<1> QED BY <1>1, <1>2

\* The dialog is gone.
LEMMA DismissKeepsInv ==
    ASSUME Dismiss, orphans' \in BOOLEAN
    PROVE  FormInv'
<1> DEFINE next == Blank("leonardo", "complete_cookie")
<1>1. "leonardo" \in Platforms /\ "complete_cookie" \in AuthMethods["leonardo"]
  BY DEF Platforms, AuthMethods
<1>2. next \in Fields /\ next.provider = "leonardo" /\ next.auth_method = "complete_cookie"
  BY <1>1, BlankFields
<1>3. v' = next /\ form' = "closed" /\ reading' = {} /\ saving' = FALSE
  BY DEF Dismiss
<1> HIDE DEF next
<1>4. FormTypeOK'
  BY <1>1, <1>2, <1>3 DEF FormTypeOK
<1> QED BY <1>3, <1>4 DEF FormInv

\* Every step of the dialog keeps the invariant.
LEMMA StepKeepsFormInv ==
    ASSUME FormInv, [FormNext]_formVars
    PROVE  FormInv'
<1>0. FormTypeOK /\ v \in Fields /\ saving \in BOOLEAN /\ orphans \in BOOLEAN
  BY DEF FormInv, FormTypeOK
<1>1. CASE OpenCreate \/ \E p \in Platforms : OpenEdit(p)
  BY <1>1, OpeningKeepsInv
<1>2. CASE CloseForm
  BY <1>0, <1>2, DismissKeepsInv DEF CloseForm
<1>3. ASSUME NEW p \in Platforms, setProvider(p) PROVE FormInv'
  BY <1>3, ProviderKeepsInv
<1>4. ASSUME NEW m \in UNION {AuthMethods[p] : p \in Platforms}, setAuthMethod(m) PROVE FormInv'
  BY <1>4, MethodKeepsInv
<1>5. CASE TypePassword \/ TypeOtp \/ TypeAccessToken
  BY <1>5, TypingKeepsInv
<1>6. CASE ChooseCookieFile \/ \E copy \in reading : CookieFileRead(copy)
  BY <1>6, CookieFileKeepsInv
<1>7. v.image_concurrency \in 1..MaxConcurrency /\ v.video_reserved_slots \in 0..MaxConcurrency /\ MaxConcurrency \in Nat
  BY <1>0, ConcurrencyBounds DEF Fields
<1>8. ASSUME NEW n \in 1..MaxConcurrency, setConcurrency(n) PROVE FormInv'
  <2> DEFINE slots == IF v.video_reserved_slots < n THEN v.video_reserved_slots ELSE n
  <2>1. slots \in 0..MaxConcurrency
    BY <1>7
  <2>2. SetFields([v EXCEPT !.image_concurrency = n, !.video_reserved_slots = slots])
    BY <1>8 DEF setConcurrency
  <2> HIDE DEF slots
  <2> QED BY <2>1, <2>2, NumbersKeepInv
<1>9. ASSUME NEW n \in 0..MaxConcurrency, SetFields([v EXCEPT !.video_reserved_slots = n]) PROVE FormInv'
  <2>1. [v EXCEPT !.video_reserved_slots = n] = [v EXCEPT !.image_concurrency = v.image_concurrency, !.video_reserved_slots = n]
    BY <1>0 DEF Fields
  <2>2. SetFields([v EXCEPT !.image_concurrency = v.image_concurrency, !.video_reserved_slots = n])
    BY <1>9, <2>1 DEF SetFields
  <2> QED BY <1>7, <2>2, NumbersKeepInv
<1>10. ASSUME NEW n \in 0..MaxConcurrency, setVideoReservedSlots(n) PROVE FormInv'
  BY <1>9, <1>10 DEF setVideoReservedSlots
<1>11. ASSUME NEW role \in {"general", "video_reserved"}, setRoutingRole(role) PROVE FormInv'
  <2> DEFINE slots == IF role = "general" THEN 0 ELSE IF v.video_reserved_slots > 1 THEN v.video_reserved_slots ELSE 1
  <2>1. slots \in 0..MaxConcurrency
    BY <1>7
  <2>2. SetFields([v EXCEPT !.video_reserved_slots = slots])
    BY <1>11 DEF setRoutingRole
  <2> HIDE DEF slots
  <2> QED BY <1>9, <2>1, <2>2
<1>12. CASE SubmitForm \/ SubmitFails \/ UNCHANGED formVars
  <2>1. UNCHANGED <<form, v, reading, orphans>> /\ saving' \in BOOLEAN
    BY <1>0, <1>12 DEF SubmitForm, SubmitFails, formVars
  <2>2. FormTypeOK'
    BY <1>0, <2>1 DEF FormTypeOK
  <2>3. Coherent(v)' = Coherent(v)
    BY <2>1 DEF Coherent
  <2> QED BY <2>1, <2>2, <2>3 DEF FormInv
<1>13. CASE SubmitSucceeds
  BY <1>0, <1>13, DismissKeepsInv DEF SubmitSucceeds
<1> QED BY <1>1, <1>2, <1>3, <1>4, <1>5, <1>6, <1>8, <1>10, <1>11, <1>12, <1>13 DEF FormNext

\* The credentials in the form, and in the copies of handlers that wait for a file,
\* fit the platform and the method, in every state of the account dialog.
THEOREM FormInvariant == FormSpec => []FormInv
<1>1. FormInit => FormInv
  <2> SUFFICES ASSUME FormInit PROVE FormInv
    OBVIOUS
  <2> DEFINE first == Blank("leonardo", "complete_cookie")
  <2>1. "leonardo" \in Platforms /\ "complete_cookie" \in AuthMethods["leonardo"]
    BY DEF Platforms, AuthMethods
  <2>2. first \in Fields /\ first.provider = "leonardo" /\ first.auth_method = "complete_cookie"
    BY <2>1, BlankFields
  <2>3. v = first /\ form = "closed" /\ reading = {} /\ saving = FALSE /\ orphans = FALSE
    BY DEF FormInit
  <2> HIDE DEF first
  <2>4. FormTypeOK
    BY <2>1, <2>2, <2>3 DEF FormTypeOK
  <2> QED BY <2>3, <2>4 DEF FormInv
<1> QED BY <1>1, StepKeepsFormInv, PTL DEF FormSpec

\* Cookies go only to the platform they were chosen for.
THEOREM CookiesReachTheirPlatform == FormSpec => []CookieForItsPlatform
<1>1. FormInv => CookieForItsPlatform
  <2> SUFFICES ASSUME FormInv PROVE Body.cookie \in {"none", v.provider}
    BY DEF CookieForItsPlatform
  <2>1. Body.cookie = IF form = "create" /\ ~TokenSent /\ isCookieMethod THEN v.cookie ELSE "none"
    BY DEF Body
  <2>2. form = "create" => v.cookie \in {"none", v.provider}
    BY DEF FormInv, Coherent
  <2> QED BY <2>1, <2>2
<1> QED BY <1>1, FormInvariant, PTL

\* No credential is sent that the form does not show.
THEOREM OnlyShownCredentialsSent == FormSpec => []SendsOnlyShown
<1>1. FormInv => SendsOnlyShown
  <2> SUFFICES ASSUME FormInv, canSubmit
               PROVE  /\ Body.password => Shown.password
                      /\ Body.otp => Shown.otp
                      /\ Body.cookie # "none" => Shown.cookie
    BY DEF SendsOnlyShown
  <2>0. /\ v \in Fields /\ v.provider \in Platforms /\ v.auth_method \in AuthMethods[v.provider]
        /\ form = "create" => Coherent(v)
        /\ form = "edit" => v.provider # "adobe" \/ ~v.password
        /\ form \in {"create", "edit"}
    BY DEF FormInv, FormTypeOK, canSubmit, Fields
  <2>1. Body.password => Shown.password
    <3>1. Body.password <=> v.password /\ (form = "edit" \/ v.provider # "adobe")
      BY DEF Body
    <3>2. form = "create" /\ v.password /\ v.provider # "adobe" => requiresPassword
      <4>1. form = "create" /\ v.password /\ v.provider # "adobe" => v.auth_method # "complete_cookie"
        BY <2>0 DEF Coherent
      <4> QED BY <2>0, <4>1 DEF requiresPassword, AuthMethods, Platforms
    <3> QED BY <2>0, <3>1, <3>2, ShownInputs
  <2>2. Body.otp => Shown.otp
    <3>1. Body.otp <=> form = "create" /\ v.provider = "creativefabrica" /\ v.otp
      BY DEF Body
    <3>2. form = "create" /\ v.otp => v.auth_method = "email_password"
      BY <2>0 DEF Coherent
    <3> QED BY <3>1, <3>2, ShownInputs
  <2>3. Body.cookie # "none" => Shown.cookie
    <3>1. Body.cookie = IF form = "create" /\ ~TokenSent /\ isCookieMethod THEN v.cookie ELSE "none"
      BY DEF Body
    <3> QED BY <3>1, ShownInputs
  <2> QED BY <2>1, <2>2, <2>3
<1> QED BY <1>1, FormInvariant, PTL

-----------------------------------------------------------------------------
(* The API keys. *)

\* A creation refers to keys of the service, and a lost answer to its key.
CreatesOK ==
    /\ keys \in [KeyIDs -> {"none", "enabled", "disabled", "deleted"}]
    /\ creates \in [Dialogs -> [status : {"none", "sent", "created", "done", "failed"},
                                models : SUBSET Permissions, key : KeyIDs \cup {0}]]
    /\ creator \in [open : BOOLEAN, named : BOOLEAN, allowed_models : SUBSET Permissions]

CreatesInv == CreatesOK /\ EveryKeyShown

LEMMA CreatesInit == KeyInit => CreatesInv
BY DEF KeyInit, CreatesInv, CreatesOK, EveryKeyShown, NoRequest, NoCreator, Created, Permissions

\* Steps that leave the creations alone and at most switch or delete a key.
LEMMA KeysKept ==
    ASSUME CreatesInv,
           UNCHANGED <<creates, seen, unanswered>>,
           creator' \in [open : BOOLEAN, named : BOOLEAN, allowed_models : SUBSET Permissions],
           keys' \in [KeyIDs -> {"none", "enabled", "disabled", "deleted"}],
           \A k \in KeyIDs : keys'[k] # "none" => keys[k] # "none"
    PROVE  CreatesInv'
BY DEF CreatesInv, CreatesOK, EveryKeyShown, Created, Dialogs

LEMMA CreatesStep == CreatesInv /\ [KeyNext]_keyVars => CreatesInv'
<1> SUFFICES ASSUME CreatesInv, [KeyNext]_keyVars PROVE CreatesInv'
  OBVIOUS
<1> USE KeyAssumption
<1>0. CreatesOK /\ EveryKeyShown
  BY DEF CreatesInv
<1>1. CASE \/ RefetchKeys \/ KeysLoaded \/ KeysFail \/ RegistryLoaded \/ CloseNotice
           \/ CloseDeleteKey \/ ConfirmDeleteKey
           \/ \E k \in KeyIDs : toggleKey(k) \/ OpenDeleteKey(k)
  BY <1>0, <1>1, KeysKept
     DEF RefetchKeys, RefreshKeys, KeysLoaded, KeysFail, RegistryLoaded, CloseNotice, CloseDeleteKey,
         ConfirmDeleteKey, toggleKey, OpenDeleteKey, createVars, noticeVars, CreatesOK
<1>2. CASE ToggleAnswered \/ ToggleFails
  BY <1>0, <1>2, KeysKept
     DEF ToggleAnswered, ToggleFails, adminSetAPIKeyEnabled, InService, createVars, noticeVars, CreatesOK
<1>3. ASSUME NEW k \in KeyIDs, DeleteKeyAnswered(k) \/ DeleteKeyFails(k) PROVE CreatesInv'
  BY <1>0, <1>3, KeysKept
     DEF DeleteKeyAnswered, DeleteKeyFails, adminDeleteAPIKey, InService, createVars, noticeVars, CreatesOK
<1>4. CASE OpenCreateKey \/ CloseCreateKey \/ setKeyName \/ \E p \in Permissions : toggleModel(p)
  <2>1. UNCHANGED <<keys, creates, seen, unanswered>>
    BY <1>4 DEF OpenCreateKey, CloseCreateKey, setKeyName, toggleModel, noticeVars
  <2>2. creator' \in [open : BOOLEAN, named : BOOLEAN, allowed_models : SUBSET Permissions]
    <3>0. providerModelGroups(registered) \in SUBSET Permissions
      BY DEF providerModelGroups, Permissions
    <3>1. CASE OpenCreateKey
      BY <3>0, <3>1, Zenon DEF OpenCreateKey
    <3>2. CASE CloseCreateKey
      BY <3>2 DEF CloseCreateKey, NoCreator
    <3>3. CASE setKeyName
      <4>1. (~creator.named) \in BOOLEAN
        OBVIOUS
      <4> QED BY <1>0, <3>3, <4>1 DEF setKeyName, CreatesOK
    <3>4. ASSUME NEW p \in Permissions, toggleModel(p)
          PROVE  creator' \in [open : BOOLEAN, named : BOOLEAN, allowed_models : SUBSET Permissions]
      BY <1>0, <3>4 DEF toggleModel, CreatesOK
    <3> QED BY <1>4, <3>1, <3>2, <3>3, <3>4
  <2> QED BY <1>0, <2>1, <2>2, KeysKept DEF CreatesOK
<1>5. CASE SubmitCreateKey
  <2>1. CreatesOK'
    BY <1>0, <1>5 DEF SubmitCreateKey, CreatesOK
  <2>2. EveryKeyShown'
    BY <1>0, <1>5 DEF SubmitCreateKey, CreatesOK, EveryKeyShown, Created, noticeVars
  <2> QED BY <2>1, <2>2 DEF CreatesInv
<1>6. ASSUME NEW d \in Dialogs, adminCreateAPIKey(d) PROVE CreatesInv'
  <2>1. PICK k \in KeyIDs : /\ keys' = [keys EXCEPT ![k] = "enabled"]
                            /\ creates' = [creates EXCEPT ![d] = [@ EXCEPT !.status = "created", !.key = k]]
    BY <1>6 DEF adminCreateAPIKey
  <2>2. CreatesOK'
    <3>1. UNCHANGED creator
      BY <1>6 DEF adminCreateAPIKey
    <3>2. keys' \in [KeyIDs -> {"none", "enabled", "disabled", "deleted"}]
      BY <1>0, <2>1 DEF CreatesOK
    <3>3. creates' \in [Dialogs -> [status : {"none", "sent", "created", "done", "failed"},
                                    models : SUBSET Permissions, key : KeyIDs \cup {0}]]
      BY <1>0, <2>1 DEF CreatesOK
    <3> QED BY <1>0, <3>1, <3>2, <3>3 DEF CreatesOK
  <2>3. creates'[d].status = "created" /\ creates'[d].key = k
    BY <1>0, <2>1 DEF CreatesOK
  <2>4. \A e \in Dialogs : creates[e].status = "created" => creates'[e] = creates[e]
    BY <1>0, <1>6, <2>1 DEF adminCreateAPIKey, CreatesOK
  <2>5. EveryKeyShown'
    BY <1>0, <1>6, <2>1, <2>3, <2>4
       DEF adminCreateAPIKey, CreatesOK, EveryKeyShown, Created, noticeVars
  <2> QED BY <2>2, <2>5 DEF CreatesInv
<1>7. ASSUME NEW d \in Dialogs, CreateKeyAnswered(d) PROVE CreatesInv'
  <2>1. CreatesOK'
    <3>1. creator' \in [open : BOOLEAN, named : BOOLEAN, allowed_models : SUBSET Permissions]
      BY <1>7 DEF CreateKeyAnswered, NoCreator
    <3> QED BY <1>0, <1>7, <3>1 DEF CreateKeyAnswered, CreatesOK, NoRequest
  <2>2. EveryKeyShown'
    BY <1>0, <1>7 DEF CreateKeyAnswered, CreatesOK, EveryKeyShown, Created
  <2> QED BY <2>1, <2>2 DEF CreatesInv
<1>8. ASSUME NEW d \in Dialogs, CreateKeyFails(d) PROVE CreatesInv'
  <2>1. CreatesOK'
    BY <1>0, <1>8 DEF CreateKeyFails, CreatesOK, NoRequest
  <2>2. EveryKeyShown'
    BY <1>0, <1>8 DEF CreateKeyFails, CreatesOK, EveryKeyShown, Created
  <2> QED BY <2>1, <2>2 DEF CreatesInv
<1>9. CASE UNCHANGED keyVars
  BY <1>0, <1>9, KeysKept DEF keyVars, createVars, noticeVars, CreatesOK
<1> QED
  BY <1>1, <1>2, <1>3, <1>4, <1>5, <1>6, <1>7, <1>8, <1>9 DEF KeyNext

\* Every key the service created is still to be answered, was shown in the notice
\* or its answer was lost, for any set of keys and any number of dialogs closed,
\* reopened and tried again.
THEOREM EveryKeyIsShown == KeySpec => []EveryKeyShown
<1>1. CreatesInv => EveryKeyShown
  BY DEF CreatesInv
<1> QED
  BY <1>1, CreatesInit, CreatesStep, PTL DEF KeySpec

\* The list, the dialogs and the notice refer to keys of the service.
KeyRefs ==
    /\ keyRows \in [KeyIDs -> {"none", "enabled", "disabled"}]
    /\ keyFetching \in BOOLEAN /\ registered \in BOOLEAN
    /\ opened \in 0..MaxDialogs
    /\ deleteTarget \in KeyIDs \cup {0} /\ deletes \subseteq KeyIDs
    /\ newKey \in KeyIDs \cup {0} /\ seen \subseteq KeyIDs /\ unanswered \subseteq KeyIDs

\* Steps of the list and of the rows.
LEMMA RefsOfList ==
    ASSUME KeyRefs, CreatesOK,
           \/ RefetchKeys \/ KeysLoaded \/ KeysFail \/ RegistryLoaded \/ ToggleAnswered \/ ToggleFails
           \/ \E k \in KeyIDs : toggleKey(k)
    PROVE  KeyRefs'
<1>1. UNCHANGED <<opened, deleteVars, noticeVars>>
  BY DEF RefetchKeys, KeysLoaded, KeysFail, RegistryLoaded, ToggleAnswered, ToggleFails, toggleKey, createVars
<1>2. keyFetching' \in BOOLEAN /\ registered' \in BOOLEAN
  BY DEF RefetchKeys, RefreshKeys, KeysLoaded, KeysFail, RegistryLoaded, ToggleAnswered, ToggleFails, toggleKey,
         listVars, KeyRefs
<1>3. keyRows' \in [KeyIDs -> {"none", "enabled", "disabled"}]
  <2>1. CASE KeysLoaded
    BY <2>1 DEF KeysLoaded, InService
  <2>2. CASE ~KeysLoaded
    BY <2>2 DEF RefetchKeys, RefreshKeys, KeysFail, RegistryLoaded, ToggleAnswered, ToggleFails, toggleKey,
                listVars, KeyRefs
  <2> QED BY <2>1, <2>2
<1> QED BY <1>1, <1>2, <1>3 DEF KeyRefs, deleteVars, noticeVars

\* Steps of the dialog that deletes a key.
LEMMA RefsOfDelete ==
    ASSUME KeyRefs, NEW k \in KeyIDs,
           OpenDeleteKey(k) \/ DeleteKeyAnswered(k) \/ DeleteKeyFails(k) \/ CloseDeleteKey \/ ConfirmDeleteKey
    PROVE  KeyRefs'
<1>1. UNCHANGED <<opened, noticeVars, keyRows, registered>> /\ keyFetching' \in BOOLEAN
  BY DEF OpenDeleteKey, DeleteKeyAnswered, DeleteKeyFails, CloseDeleteKey, ConfirmDeleteKey, RefreshKeys, listVars,
         createVars, KeyRefs
<1>2. deleteTarget' \in KeyIDs \cup {0} /\ deletes' \subseteq KeyIDs
  BY DEF OpenDeleteKey, DeleteKeyAnswered, DeleteKeyFails, CloseDeleteKey, ConfirmDeleteKey, KeyRefs
<1> QED BY <1>1, <1>2 DEF KeyRefs, noticeVars

\* Steps of the dialog that creates a key, and of its notice.
LEMMA RefsOfCreate ==
    ASSUME KeyRefs, CreatesOK, AnswersNameKeys,
           \/ OpenCreateKey \/ CloseCreateKey \/ setKeyName \/ SubmitCreateKey \/ CloseNotice
           \/ \E p \in Permissions : toggleModel(p)
           \/ \E d \in Dialogs : adminCreateAPIKey(d) \/ CreateKeyAnswered(d) \/ CreateKeyFails(d)
    PROVE  KeyRefs'
<1>1. UNCHANGED <<deleteVars, keyRows, registered>> /\ keyFetching' \in BOOLEAN
  BY DEF OpenCreateKey, CloseCreateKey, setKeyName, SubmitCreateKey, CloseNotice, toggleModel, adminCreateAPIKey,
         CreateKeyAnswered, CreateKeyFails, RefreshKeys, listVars, KeyRefs
<1>2. opened' \in 0..MaxDialogs
  <2>1. opened' = opened \/ (opened' = opened + 1 /\ opened < MaxDialogs)
    BY DEF OpenCreateKey, CloseCreateKey, setKeyName, SubmitCreateKey, CloseNotice, toggleModel, adminCreateAPIKey,
           CreateKeyAnswered, CreateKeyFails, createVars
  <2>2. opened \in 0..MaxDialogs /\ MaxDialogs \in Nat
    BY KeyAssumption DEF KeyRefs
  <2> QED BY <2>1, <2>2
<1>3. newKey' \in KeyIDs \cup {0} /\ seen' \subseteq KeyIDs /\ unanswered' \subseteq KeyIDs
  <2>1. ASSUME NEW d \in Dialogs, CreateKeyAnswered(d)
        PROVE  newKey' \in KeyIDs \cup {0} /\ seen' \subseteq KeyIDs /\ unanswered' \subseteq KeyIDs
    BY <2>1 DEF CreateKeyAnswered, AnswersNameKeys, KeyRefs
  <2>2. ASSUME NEW d \in Dialogs, CreateKeyFails(d)
        PROVE  newKey' \in KeyIDs \cup {0} /\ seen' \subseteq KeyIDs /\ unanswered' \subseteq KeyIDs
    <3>1. creates[d].key \in KeyIDs \cup {0}
      BY DEF CreatesOK
    <3> QED BY <2>2, <3>1 DEF CreateKeyFails, KeyRefs
  <2>3. CASE CloseNotice
    BY <2>3 DEF CloseNotice, KeyRefs
  <2>4. CASE UNCHANGED noticeVars
    BY <2>4 DEF noticeVars, KeyRefs
  <2> QED
    BY <2>1, <2>2, <2>3, <2>4
       DEF OpenCreateKey, CloseCreateKey, setKeyName, SubmitCreateKey, toggleModel, adminCreateAPIKey
<1> QED BY <1>1, <1>2, <1>3 DEF KeyRefs, deleteVars

\* An answer on its way names the key that was created for it.
LEMMA AnswersStep ==
    ASSUME CreatesOK, AnswersNameKeys, [KeyNext]_keyVars
    PROVE  AnswersNameKeys'
<1>1. CASE UNCHANGED creates
  BY <1>1 DEF AnswersNameKeys
<1>2. ASSUME NEW d, NEW r, creates' = [creates EXCEPT ![d] = r], r.status = "created" => r.key \in KeyIDs
      PROVE  AnswersNameKeys'
  BY <1>2 DEF AnswersNameKeys, CreatesOK
<1>3. CASE SubmitCreateKey
  <2> DEFINE r == [status |-> "sent", models |-> creator.allowed_models, key |-> 0]
  <2>1. creates' = [creates EXCEPT ![opened] = r] /\ r.status = "sent"
    BY <1>3 DEF SubmitCreateKey
  <2> HIDE DEF r
  <2> QED BY <1>2, <2>1
<1>4. ASSUME NEW d \in Dialogs, adminCreateAPIKey(d) PROVE AnswersNameKeys'
  <2>1. PICK k \in KeyIDs : creates' = [creates EXCEPT ![d] = [@ EXCEPT !.status = "created", !.key = k]]
    BY <1>4 DEF adminCreateAPIKey
  <2> DEFINE r == [creates[d] EXCEPT !.status = "created", !.key = k]
  <2>2. creates' = [creates EXCEPT ![d] = r]
    BY <2>1
  <2>3. r.key = k
    BY DEF CreatesOK
  <2> HIDE DEF r
  <2> QED BY <1>2, <2>2, <2>3
<1>5. ASSUME NEW d \in Dialogs, CreateKeyAnswered(d) \/ CreateKeyFails(d) PROVE AnswersNameKeys'
  <2>1. PICK s \in {"done", "failed"} : creates' = [creates EXCEPT ![d] = [NoRequest EXCEPT !.status = s]]
    BY <1>5 DEF CreateKeyAnswered, CreateKeyFails
  <2> DEFINE r == [NoRequest EXCEPT !.status = s]
  <2>2. creates' = [creates EXCEPT ![d] = r] /\ r.status = s
    BY <2>1 DEF NoRequest
  <2> HIDE DEF r
  <2> QED BY <1>2, <2>2
<1>6. CASE \/ OpenCreateKey \/ CloseCreateKey \/ setKeyName \/ CloseNotice
           \/ \E p \in Permissions : toggleModel(p)
  BY <1>1, <1>6 DEF OpenCreateKey, CloseCreateKey, setKeyName, CloseNotice, toggleModel, createVars
<1>7. CASE \/ RefetchKeys \/ KeysLoaded \/ KeysFail \/ RegistryLoaded \/ ToggleAnswered \/ ToggleFails
           \/ CloseDeleteKey \/ ConfirmDeleteKey \/ UNCHANGED keyVars
  BY <1>1, <1>7
     DEF RefetchKeys, KeysLoaded, KeysFail, RegistryLoaded, ToggleAnswered, ToggleFails, CloseDeleteKey,
         ConfirmDeleteKey, createVars, keyVars
<1>8. ASSUME NEW k \in KeyIDs, toggleKey(k) \/ OpenDeleteKey(k) \/ DeleteKeyAnswered(k) \/ DeleteKeyFails(k)
      PROVE  AnswersNameKeys'
  BY <1>1, <1>8 DEF toggleKey, OpenDeleteKey, DeleteKeyAnswered, DeleteKeyFails, createVars
<1> QED BY <1>3, <1>4, <1>5, <1>6, <1>7, <1>8 DEF KeyNext

LEMMA RefsStep ==
    ASSUME KeyRefs, CreatesOK, AnswersNameKeys, [KeyNext]_keyVars
    PROVE  KeyRefs'
<1>1. CASE UNCHANGED keyVars
  BY <1>1 DEF keyVars, listVars, createVars, deleteVars, noticeVars, KeyRefs
<1>2. CASE CloseDeleteKey \/ ConfirmDeleteKey
  <2>1. UNCHANGED <<opened, listVars, noticeVars>>
    BY <1>2 DEF CloseDeleteKey, ConfirmDeleteKey, createVars
  <2>2. deleteTarget' \in KeyIDs \cup {0} /\ deletes' \subseteq KeyIDs
    BY <1>2 DEF CloseDeleteKey, ConfirmDeleteKey, KeyRefs
  <2> QED BY <2>1, <2>2 DEF KeyRefs, listVars, noticeVars
<1> QED BY <1>1, <1>2, RefsOfList, RefsOfDelete, RefsOfCreate DEF KeyNext

\* No list, dialog or notice of the page refers to a key that does not exist, and
\* every key that was created is shown or its answer lost.
THEOREM KeyInvariant == KeySpec => []KeyInv
<1>1. ASSUME KeyInit PROVE KeyRefs /\ AnswersNameKeys
  <2>1. keyRows \in [KeyIDs -> {"none", "enabled", "disabled"}]
    BY <1>1 DEF KeyInit
  <2>2. AnswersNameKeys
    BY <1>1 DEF KeyInit, AnswersNameKeys, NoRequest
  <2>3. 0 \in 0..MaxDialogs
    BY KeyAssumption
  <2> QED BY <1>1, <2>1, <2>2, <2>3 DEF KeyInit, KeyRefs
<1>2. CreatesInv => CreatesOK
  BY DEF CreatesInv
<1>3. CreatesInv /\ KeyRefs /\ AnswersNameKeys => KeyInv
  BY DEF CreatesInv, CreatesOK, KeyRefs, KeyInv, KeyTypeOK
<1> QED
  BY <1>1, <1>2, <1>3, CreatesInit, CreatesStep, RefsStep, AnswersStep, PTL DEF KeySpec

-----------------------------------------------------------------------------
(* The system capacity. *)

LEMMA RevisionsInit == CapacityInit => RevisionsAgree
BY DEF CapacityInit, RevisionsAgree, KnownPolicies, RevisionNamesPolicy, FormFollowsRevision, Read

\* The service's policy changes together with its revision, or not at all.
LEMMA PolicyMoves ==
    ASSUME RevisionsAgree,
           \/ UNCHANGED policy
           \/ policy'.revision = policy.revision + 1,
           UNCHANGED <<capacity, draft, edited>>,
           polling' = polling \/ polling' = <<"sent">> \/ polling' = <<>>
    PROVE  RevisionsAgree'
<1>1. polling' = polling \/ ~Read'
  BY DEF Read
<1>2. policy.revision \in Nat
  BY DEF RevisionsAgree, KnownPolicies
<1>3. KnownPolicies'
  BY <1>1, <1>2 DEF RevisionsAgree, KnownPolicies, Read
<1>4. RevisionNamesPolicy'
  BY <1>1, <1>2 DEF RevisionsAgree, KnownPolicies, RevisionNamesPolicy, Read
<1> QED
  BY <1>3, <1>4 DEF RevisionsAgree, FormFollowsRevision

LEMMA UpdateMoves ==
    ASSUME NEW p, UpdateSystemCapacity(p)
    PROVE  policy'.revision = policy.revision + 1
BY DEF UpdateSystemCapacity, PolicyFields

LEMMA RevisionsStep == RevisionsAgree /\ [CapacityNext]_capacityVars => RevisionsAgree'
<1> SUFFICES ASSUME RevisionsAgree, [CapacityNext]_capacityVars PROVE RevisionsAgree'
  OBVIOUS
<1>0. KnownPolicies /\ RevisionNamesPolicy /\ FormFollowsRevision
  BY DEF RevisionsAgree
<1>1. CASE PollCapacity \/ CapacityLoadFails \/ SaveCapacity
  BY <1>1, PolicyMoves DEF PollCapacity, CapacityLoadFails, SaveCapacity
<1>2. CASE adminSystemCapacity
  <2>1. Read' /\ polling'[2] = policy /\ UNCHANGED <<policy, capacity, draft, edited>>
    BY <1>2 DEF adminSystemCapacity, Read
  <2>2. KnownPolicies'
    BY <1>0, <2>1 DEF KnownPolicies
  <2>3. RevisionNamesPolicy'
    BY <1>0, <2>1 DEF RevisionNamesPolicy
  <2> QED BY <1>0, <2>1, <2>2, <2>3 DEF RevisionsAgree, FormFollowsRevision
<1>3. CASE CapacityLoaded
  <2>1. Read /\ capacity' = <<polling[2]>> /\ ~Read' /\ UNCHANGED policy
    BY <1>3 DEF CapacityLoaded, ShowCapacity, Read
  <2>2. capacity' # <<>> /\ capacity'[1] = polling[2]
    BY <2>1
  <2>3. KnownPolicies' /\ RevisionNamesPolicy'
    BY <1>0, <2>1, <2>2 DEF KnownPolicies, RevisionNamesPolicy
  <2>4. CASE capacity # <<>> /\ capacity[1].revision = polling[2].revision
    <3>1. capacity[1] = polling[2] /\ UNCHANGED <<draft, edited>>
      BY <1>0, <1>3, <2>1, <2>4 DEF CapacityLoaded, ShowCapacity, RevisionNamesPolicy
    <3> QED BY <1>0, <2>2, <2>3, <3>1 DEF RevisionsAgree, FormFollowsRevision
  <2>5. CASE ~(capacity # <<>> /\ capacity[1].revision = polling[2].revision)
    <3>1. draft' = <<FormOf(polling[2])>>
      BY <1>3, <2>5 DEF CapacityLoaded, ShowCapacity
    <3>2. draft'[1] = FormOf(draft'[1]) /\ \A f \in PolicyFields : draft'[1][f] = polling[2][f]
      BY <3>1 DEF FormOf
    <3> QED BY <2>2, <2>3, <3>2 DEF RevisionsAgree, FormFollowsRevision
  <2> QED BY <2>4, <2>5
<1>4. CASE ReopenCapacity
  <2>1. capacity # <<>> /\ draft' = <<FormOf(capacity[1])>> /\ UNCHANGED <<policy, capacity, polling>>
    BY <1>4 DEF ReopenCapacity
  <2>2. draft'[1] = FormOf(draft'[1]) /\ \A f \in PolicyFields : draft'[1][f] = capacity'[1][f]
    BY <2>1 DEF FormOf
  <2> QED
    BY <1>0, <2>1, <2>2 DEF RevisionsAgree, KnownPolicies, RevisionNamesPolicy, FormFollowsRevision, Read
<1>5. ASSUME NEW fields, NEW d, Edit(fields, d), draft # <<>>, d = FormOf(d),
             \A f \in PolicyFields \ fields : d[f] = draft[1][f]
      PROVE  RevisionsAgree'
  <2>1. draft' = <<d>> /\ edited' = edited \cup fields /\ UNCHANGED <<policy, capacity, polling>>
    BY <1>5 DEF Edit
  <2>2. \A f \in PolicyFields \ edited' : draft'[1][f] = capacity'[1][f]
    BY <1>0, <1>5, <2>1 DEF FormFollowsRevision
  <2> QED
    BY <1>0, <1>5, <2>1, <2>2 DEF RevisionsAgree, KnownPolicies, RevisionNamesPolicy, FormFollowsRevision, Read
<1>6. ASSUME NEW n, setLimit(n) PROVE RevisionsAgree'
  <2>1. draft # <<>> /\ draft[1] = FormOf(draft[1])
    BY <1>0, <1>6 DEF setLimit, FormShown, FormFollowsRevision
  <2> DEFINE fields == {"limit"}
             d == [draft[1] EXCEPT !.limit = n]
  <2>2. Edit(fields, d)
    BY <1>6 DEF setLimit
  <2>3. d = FormOf(d) /\ \A f \in PolicyFields \ fields : d[f] = draft[1][f]
    BY <2>1 DEF FormOf, PolicyFields
  <2> HIDE DEF fields, d
  <2> QED BY <1>5, <2>1, <2>2, <2>3
<1>7. ASSUME NEW on \in BOOLEAN, setMaintenance(on) PROVE RevisionsAgree'
  <2>1. draft # <<>> /\ draft[1] = FormOf(draft[1])
    BY <1>0, <1>7 DEF setMaintenance, FormShown, FormFollowsRevision
  <2> DEFINE fields == {"maintenance"} \cup {f \in {"paused"} : ~on}
             d == [draft[1] EXCEPT !.maintenance = on, !.paused = IF on THEN @ ELSE FALSE]
  <2>2. Edit(fields, d)
    BY <1>7 DEF setMaintenance
  <2>3. d = FormOf(d) /\ \A f \in PolicyFields \ fields : d[f] = draft[1][f]
    BY <2>1, <1>7 DEF FormOf, PolicyFields
  <2> HIDE DEF fields, d
  <2> QED BY <1>5, <2>1, <2>2, <2>3
<1>8. ASSUME NEW on \in BOOLEAN, setPaused(on) PROVE RevisionsAgree'
  <2>1. draft # <<>> /\ draft[1] = FormOf(draft[1])
    BY <1>0, <1>8 DEF setPaused, FormShown, FormFollowsRevision
  <2> DEFINE fields == {"paused"} \cup {f \in {"maintenance"} : on}
             d == [draft[1] EXCEPT !.paused = on, !.maintenance = IF on THEN TRUE ELSE @]
  <2>2. Edit(fields, d)
    BY <1>8 DEF setPaused
  <2>3. d = FormOf(d) /\ \A f \in PolicyFields \ fields : d[f] = draft[1][f]
    BY <2>1, <1>8 DEF FormOf, PolicyFields
  <2> HIDE DEF fields, d
  <2> QED BY <1>5, <2>1, <2>2, <2>3
<1>9. ASSUME NEW s \in saves, adminUpdateSystemCapacity(s) \/ SaveCapacityAnswered(s) \/ SaveCapacityFails(s)
      PROVE  RevisionsAgree'
  BY <1>9, PolicyMoves, UpdateMoves DEF adminUpdateSystemCapacity, SaveCapacityAnswered, SaveCapacityFails
<1>10. ASSUME NEW p \in Drafts, AnotherAdministrator(p) PROVE RevisionsAgree'
  BY <1>10, PolicyMoves, UpdateMoves DEF AnotherAdministrator
<1>11. CASE UNCHANGED capacityVars
  BY <1>11, PolicyMoves DEF capacityVars
<1> QED
  BY <1>1, <1>2, <1>3, <1>4, <1>6, <1>7, <1>8, <1>9, <1>10, <1>11 DEF CapacityNext

\* A save changes only what was edited since the revision on display arrived.
LEMMA SaveStep ==
    ASSUME CapacityTypeOK, RevisionsAgree, [CapacityNext]_capacityVars,
           NEW s \in saves' \ saves, s.own, ~s.done
    PROVE  \A f \in PolicyFields \ edited : s.body[f] = capacity[1][f]
<1>1. CASE SaveCapacity
  <2>1. s = [body |-> draft[1], own |-> TRUE, done |-> FALSE] /\ draft # <<>>
    BY <1>1 DEF SaveCapacity, FormShown
  <2> QED BY <2>1 DEF RevisionsAgree, FormFollowsRevision
<1>2. CASE ReopenCapacity
  <2>1. PICK r \in saves : s = [r EXCEPT !.own = FALSE]
    BY <1>2 DEF ReopenCapacity
  <2>2. s.own = FALSE
    BY <2>1 DEF CapacityTypeOK, Saves
  <2> QED BY <2>2
<1>3. ASSUME NEW r \in saves, adminUpdateSystemCapacity(r)
      PROVE  FALSE
  <2>1. s = [r EXCEPT !.done = TRUE]
    BY <1>3 DEF adminUpdateSystemCapacity
  <2>2. s.done = TRUE
    BY <2>1 DEF CapacityTypeOK, Saves
  <2> QED BY <2>2
<1>4. CASE ~SaveCapacity /\ ~ReopenCapacity
  <2>1. saves' \subseteq saves
    BY <1>3, <1>4
       DEF CapacityNext, capacityVars, PollCapacity, adminSystemCapacity, CapacityLoaded, CapacityLoadFails,
           setLimit, setMaintenance, setPaused, Edit, SaveCapacityAnswered, SaveCapacityFails,
           AnotherAdministrator
  <2> QED BY <2>1
<1> QED BY <1>1, <1>2, <1>4

\* What the types say of the form, field by field.
LEMMA FormFields ==
    ASSUME NEW p
    PROVE  FormOf(p) \in Drafts <=> p.limit \in 0..MaxLimit /\ p.maintenance \in BOOLEAN /\ p.paused \in BOOLEAN
BY DEF FormOf, Drafts, PolicyFields

\* The types hold on when neither the policy nor the form changes.
LEMMA CapacityTypesKept ==
    ASSUME CapacityTypeOK, PolicyRead, UNCHANGED <<policy, capacity, draft, edited>>, loadError' \in BOOLEAN,
           polling' = polling \/ polling' = <<"sent">> \/ polling' = <<>>,
           saves' \subseteq Saves
    PROVE  CapacityTypeOK' /\ PolicyRead'
<1>1. polling' = polling \/ ~Read'
  BY DEF Read
<1> QED BY <1>1 DEF CapacityTypeOK, PolicyRead, Read

\* The service takes over a draft under the next number.
LEMMA UpdateTypes ==
    ASSUME CapacityTypeOK, NEW p \in Drafts, UpdateSystemCapacity(p)
    PROVE  FormOf(policy') \in Drafts /\ policy'.revision \in 1..MaxRevision
<1>1. /\ policy'.limit = p.limit /\ policy'.maintenance = p.maintenance /\ policy'.paused = p.paused
      /\ policy'.revision = policy.revision + 1 /\ policy.revision < MaxRevision
  BY DEF UpdateSystemCapacity, PolicyFields
<1>2. p.limit \in 0..MaxLimit /\ p.maintenance \in BOOLEAN /\ p.paused \in BOOLEAN
  BY DEF Drafts
<1>3. FormOf(policy') \in Drafts
  BY <1>1, <1>2, FormFields
<1>4. policy'.revision \in 1..MaxRevision
  BY <1>1, CapacityAssumption DEF CapacityTypeOK
<1> QED BY <1>3, <1>4

LEMMA CapacityTypesStep == CapacityTypeOK /\ PolicyRead /\ [CapacityNext]_capacityVars => CapacityTypeOK' /\ PolicyRead'
<1> SUFFICES ASSUME CapacityTypeOK, PolicyRead, [CapacityNext]_capacityVars PROVE CapacityTypeOK' /\ PolicyRead'
  OBVIOUS
<1>1. CASE PollCapacity \/ CapacityLoadFails \/ UNCHANGED capacityVars
  BY <1>1, CapacityTypesKept DEF PollCapacity, CapacityLoadFails, capacityVars, CapacityTypeOK
<1>2. CASE adminSystemCapacity
  <2>1. polling'[2] = policy /\ UNCHANGED <<policy, capacity, loadError, draft, edited, saves>>
    BY <1>2 DEF adminSystemCapacity
  <2>2. FormOf(policy) \in Drafts
    BY DEF CapacityTypeOK
  <2>3. PolicyRead'
    BY <2>1, <2>2 DEF PolicyRead
  <2> QED BY <2>1, <2>3 DEF CapacityTypeOK
<1>3. CASE CapacityLoaded
  <2>1. Read /\ ~Read' /\ capacity' = <<polling[2]>> /\ loadError' = FALSE /\ UNCHANGED <<policy, saves>>
    BY <1>3 DEF CapacityLoaded, ShowCapacity, Read
  <2>2. FormOf(polling[2]) \in Drafts /\ capacity' # <<>> /\ capacity'[1] = polling[2]
    BY <2>1 DEF PolicyRead
  <2>3. UNCHANGED <<draft, edited>> \/ (draft' = <<FormOf(polling[2])>> /\ edited' = {})
    BY <1>3 DEF CapacityLoaded, ShowCapacity
  <2>4. draft' # <<>> => draft'[1] \in Drafts
    BY <2>2, <2>3 DEF CapacityTypeOK
  <2>5. edited' \subseteq PolicyFields
    BY <2>3 DEF CapacityTypeOK
  <2>6. FormOf(capacity'[1]) \in Drafts
    BY <2>2
  <2>7. CapacityTypeOK'
    BY <2>1, <2>2, <2>4, <2>5, <2>6 DEF CapacityTypeOK
  <2> QED BY <2>1, <2>7 DEF PolicyRead
<1>4. CASE ReopenCapacity
  <2>1. /\ capacity # <<>> /\ draft' = <<FormOf(capacity[1])>> /\ edited' = {}
        /\ UNCHANGED <<policy, capacity, loadError, polling>>
    BY <1>4 DEF ReopenCapacity
  <2>2. draft'[1] \in Drafts
    BY <2>1 DEF CapacityTypeOK
  <2>3. saves' \subseteq Saves
    <3>1. \A r \in Saves : [r EXCEPT !.own = FALSE] \in Saves
      BY DEF Saves
    <3> QED BY <1>4, <3>1 DEF ReopenCapacity, CapacityTypeOK
  <2> QED BY <2>1, <2>2, <2>3 DEF CapacityTypeOK, PolicyRead, Read
<1>5. ASSUME NEW fields \in SUBSET PolicyFields, NEW d \in Drafts, draft # <<>>, Edit(fields, d)
      PROVE  CapacityTypeOK' /\ PolicyRead'
  <2>1. draft' = <<d>> /\ edited' = edited \cup fields /\ UNCHANGED <<policy, capacity, loadError, polling, saves>>
    BY <1>5 DEF Edit
  <2>2. draft'[1] \in Drafts /\ capacity # <<>>
    BY <1>5, <2>1 DEF CapacityTypeOK
  <2>3. edited' \subseteq PolicyFields
    BY <2>1 DEF CapacityTypeOK
  <2> QED BY <2>1, <2>2, <2>3 DEF CapacityTypeOK, PolicyRead, Read
<1>6. ASSUME NEW n \in 0..MaxLimit, setLimit(n) PROVE CapacityTypeOK' /\ PolicyRead'
  <2>1. draft # <<>> /\ draft[1] \in Drafts
    BY <1>6 DEF setLimit, FormShown, CapacityTypeOK
  <2> DEFINE fields == {"limit"}
             d == [draft[1] EXCEPT !.limit = n]
  <2>2. d \in Drafts /\ fields \in SUBSET PolicyFields
    BY <2>1 DEF Drafts, PolicyFields
  <2>3. Edit(fields, d)
    BY <1>6 DEF setLimit
  <2> HIDE DEF fields, d
  <2> QED BY <1>5, <2>1, <2>2, <2>3
<1>7. ASSUME NEW on \in BOOLEAN, setMaintenance(on) PROVE CapacityTypeOK' /\ PolicyRead'
  <2>1. draft # <<>> /\ draft[1] \in Drafts
    BY <1>7 DEF setMaintenance, FormShown, CapacityTypeOK
  <2> DEFINE fields == {"maintenance"} \cup {f \in {"paused"} : ~on}
             d == [draft[1] EXCEPT !.maintenance = on, !.paused = IF on THEN @ ELSE FALSE]
  <2>2. fields \in SUBSET PolicyFields
    BY DEF PolicyFields
  <2>3. d \in Drafts
    BY <2>1, <1>7 DEF Drafts
  <2>4. Edit(fields, d)
    BY <1>7 DEF setMaintenance
  <2> HIDE DEF fields, d
  <2> QED BY <1>5, <2>1, <2>2, <2>3, <2>4
<1>8. ASSUME NEW on \in BOOLEAN, setPaused(on) PROVE CapacityTypeOK' /\ PolicyRead'
  <2>1. draft # <<>> /\ draft[1] \in Drafts
    BY <1>8 DEF setPaused, FormShown, CapacityTypeOK
  <2> DEFINE fields == {"paused"} \cup {f \in {"maintenance"} : on}
             d == [draft[1] EXCEPT !.paused = on, !.maintenance = IF on THEN TRUE ELSE @]
  <2>2. fields \in SUBSET PolicyFields
    BY DEF PolicyFields
  <2>3. d \in Drafts
    BY <2>1, <1>8 DEF Drafts
  <2>4. Edit(fields, d)
    BY <1>8 DEF setPaused
  <2> HIDE DEF fields, d
  <2> QED BY <1>5, <2>1, <2>2, <2>3, <2>4
<1>9. CASE SaveCapacity
  <2>1. saves' = saves \cup {[body |-> draft[1], own |-> TRUE, done |-> FALSE]} /\ draft[1] \in Drafts
    BY <1>9 DEF SaveCapacity, FormShown, CapacityTypeOK
  <2> DEFINE sent == [body |-> draft[1], own |-> TRUE, done |-> FALSE]
  <2>2. sent \in Saves
    BY <2>1 DEF Saves
  <2>3. saves \subseteq Saves
    BY DEF CapacityTypeOK
  <2>4. saves' = saves \cup {sent}
    BY <2>1
  <2> HIDE DEF sent
  <2>5. saves' \subseteq Saves
    BY <2>2, <2>3, <2>4
  <2> QED BY <1>9, <2>5, CapacityTypesKept DEF SaveCapacity, CapacityTypeOK
<1>10. ASSUME NEW s \in saves, SaveCapacityAnswered(s) \/ SaveCapacityFails(s) PROVE CapacityTypeOK' /\ PolicyRead'
  BY <1>10, CapacityTypesKept DEF SaveCapacityAnswered, SaveCapacityFails, CapacityTypeOK
<1>11. ASSUME NEW s \in saves, adminUpdateSystemCapacity(s) PROVE CapacityTypeOK' /\ PolicyRead'
  <2>1. s \in Saves /\ s.body \in Drafts
    BY DEF CapacityTypeOK, Saves
  <2>2. FormOf(policy') \in Drafts /\ policy'.revision \in 1..MaxRevision
    BY <1>11, <2>1, UpdateTypes DEF adminUpdateSystemCapacity
  <2>3. [s EXCEPT !.done = TRUE] \in Saves
    BY <2>1 DEF Saves
  <2>4. saves' \subseteq Saves
    BY <1>11, <2>3 DEF adminUpdateSystemCapacity, CapacityTypeOK
  <2> QED BY <1>11, <2>2, <2>4 DEF adminUpdateSystemCapacity, CapacityTypeOK, PolicyRead, Read
<1>12. ASSUME NEW p \in Drafts, AnotherAdministrator(p) PROVE CapacityTypeOK' /\ PolicyRead'
  <2>1. FormOf(policy') \in Drafts /\ policy'.revision \in 1..MaxRevision
    BY <1>12, UpdateTypes DEF AnotherAdministrator
  <2> QED BY <1>12, <2>1 DEF AnotherAdministrator, CapacityTypeOK, PolicyRead, Read
<1> QED
  BY <1>1, <1>2, <1>3, <1>4, <1>6, <1>7, <1>8, <1>9, <1>10, <1>11, <1>12 DEF CapacityNext

\* The page holds policies of the service only, read at this revision or before,
\* and its form is that of the revision it shows but for the fields edited.
THEOREM CapacityInvariant == CapacitySpec => []CapacityInv
<1>1. ASSUME CapacityInit PROVE CapacityTypeOK /\ PolicyRead
  <2>1. /\ policy.limit = 1 /\ policy.maintenance = FALSE /\ policy.paused = FALSE /\ policy.revision = 1
        /\ capacity = <<>> /\ draft = <<>> /\ edited = {} /\ loadError = FALSE /\ saves = {} /\ ~Read
    BY <1>1 DEF CapacityInit, Read
  <2>2. 1 \in 0..MaxLimit /\ 1 \in 1..MaxRevision /\ FALSE \in BOOLEAN
    BY CapacityAssumption
  <2>3. FormOf(policy) \in Drafts
    BY <2>1, <2>2, FormFields, Zenon
  <2> QED BY <2>1, <2>2, <2>3 DEF CapacityTypeOK, PolicyRead
<1> QED
  BY <1>1, CapacityTypesStep, RevisionsInit, RevisionsStep, PTL DEF CapacitySpec, CapacityInv

\* The page writes the whole policy back and still reverts nothing of the
\* revision it shows, whatever other administrators save and however late or
\* out of order loads and saves are answered.
THEOREM PageSavesOnlyEdits == CapacitySpec => SavesOnlyEdits
<1>1. CapacityTypeOK /\ RevisionsAgree /\ [CapacityNext]_capacityVars
        => [\A s \in saves' \ saves : s.own /\ ~s.done =>
              \A f \in PolicyFields \ edited : s.body[f] = capacity[1][f]]_capacityVars
  BY SaveStep
<1>2. CapacityInv => CapacityTypeOK /\ RevisionsAgree
  BY DEF CapacityInv
<1> QED
  BY <1>1, <1>2, CapacityInvariant, PTL DEF CapacitySpec, SavesOnlyEdits

-----------------------------------------------------------------------------
(* The pages together. *)

\* Whatever the administrator does, every page takes a step of its own or none.
LEMMA AccountsSteps ==
    [AccountsNext]_accountsVars =>
        /\ [PoolNext]_poolVars /\ [ImportNext]_importVars /\ [FormNext]_formVars
        /\ [KeyNext]_keyVars /\ [CapacityNext]_capacityVars
BY DEF AccountsNext, accountsVars

\* Each page behaves among the others as it does alone: what is proved of a page
\* holds of the application, whichever page is in use.
THEOREM AccountsImplementPages ==
    AccountsSpec => PoolSpec /\ ImportSpec /\ FormSpec /\ KeySpec /\ CapacitySpec
<1>1. AccountsInit => PoolInit /\ ImportInit /\ FormInit /\ KeyInit /\ CapacityInit
  BY DEF AccountsInit
<1> QED
  BY <1>1, AccountsSteps, PTL DEF AccountsSpec, PoolSpec, ImportSpec, FormSpec, KeySpec, CapacitySpec

\* The types of all pages: among them that every batch has a legal size, that
\* every method belongs to its platform and that nothing refers to an entry that
\* left its list.
THEOREM AccountsTypes == AccountsSpec => []AccountsTypeOK
<1>1. PoolInv /\ ImportInv /\ FormInv /\ KeyInv /\ CapacityInv => AccountsTypeOK
  BY DEF PoolInv, ImportInv, FormInv, KeyInv, CapacityInv, AccountsTypeOK
<1> QED
  BY <1>1, AccountsImplementPages, PoolInvariant, ImportInvariant, FormInvariant, KeyInvariant,
     CapacityInvariant, PTL

=============================================================================
