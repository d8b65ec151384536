-------------------------- MODULE AuditTrailProofs --------------------------
(***************************************************************************)
(* The audit log loses no entry and keeps none twice, and a list paged by  *)
(* Load More has no hole, for any number of archive workers, entries,      *)
(* requests, attempts and faults and for every batch and page size.        *)
(*                                                                         *)
(* What has to be added to EntryInOneTable to make it inductive is what a  *)
(* worker remembers between its SELECT and its transaction: a batch names  *)
(* recorded entries, which other workers may have moved by then.           *)
(*                                                                         *)
(* The list needs three more ideas.  The archive takes from the old end:   *)
(* an entry newer than one of the log is in the log (ArchiveOrder).  So a  *)
(* served page has no hole between rows of different createdAt             *)
(* (PageIsWhole).  And the entries not older than a row only grow in       *)
(* number, so a skip that counts the list's rows never reaches below its   *)
(* last one (PageAdjoins), unless another search or list came in between,  *)
(* which is what crossed records (OnCourse).                               *)
(***************************************************************************)
EXTENDS AuditTrail, TLAPS, FiniteSetTheorems

States == [pc : {"idle", "find", "move"}, left : 0 .. Attempts, cutoff : 0 .. MaxTime,
           batch : SUBSET Nat]

TablesOK == /\ entries \in 0 .. MaxEntries /\ expired \in 0 .. MaxTime
            /\ created \in [Ids -> 0 .. MaxTime]
            /\ job \in 0 .. Attempts
            /\ worker \in [Workers -> States]

BatchesRecorded == \A w \in Workers : worker[w].batch \subseteq 1 .. entries

\* A job at work has an attempt to count down.
Attempting == \A w \in Workers : worker[w].pc # "idle" => worker[w].left > 0

ArchiveInv == TablesOK /\ EntryInOneTable /\ BatchesRecorded /\ Attempting

\* The archive's half of the state, which the page only reads.
archiving == <<log, archive, entries, created, expired, job, worker>>

-----------------------------------------------------------------------------
LEMMA IdleState == /\ IdleWorker \in States
                   /\ IdleWorker.batch = {} /\ IdleWorker.pc = "idle"
  BY TrailAssumption DEF IdleWorker, States

LEMMA ArchiveInit == Init => ArchiveInv
  <1> SUFFICES ASSUME Init PROVE ArchiveInv
    OBVIOUS
  <1>1. IdleWorker \in States /\ IdleWorker.batch = {}
    BY IdleState
  <1>2. TablesOK
    <2>1. worker \in [Workers -> States]
      BY <1>1 DEF Init
    <2>2. 0 \in 0 .. MaxEntries /\ 0 \in 0 .. MaxTime /\ 0 \in 0 .. Attempts
      BY TrailAssumption
    <2> QED
      BY <2>1, <2>2 DEF Init, TablesOK
  <1>3. EntryInOneTable
    <2>1. 1 .. 0 = {}
      OBVIOUS
    <2> QED
      BY <2>1 DEF Init, EntryInOneTable
  <1>4. BatchesRecorded /\ Attempting
    BY DEF Init, BatchesRecorded, Attempting, IdleWorker
  <1> QED
    BY <1>2, <1>3, <1>4 DEF ArchiveInv

\* Requests of the page and failing requests move no entry.
LEMMA ArchiveQuiet ==
  ASSUME ArchiveInv, UNCHANGED archiving
  PROVE  ArchiveInv'
  BY DEF archiving, ArchiveInv, TablesOK, EntryInOneTable, BatchesRecorded, Attempting

\* A worker that takes on a state of the right shape and a recorded batch, while
\* the tables stay.
LEMMA WorkerMoves ==
  ASSUME ArchiveInv, NEW w \in Workers, NEW s \in States, s.batch \subseteq 1 .. entries,
         s.pc # "idle" => s.left > 0,
         ArchStep(w, s), log' = log, archive' = archive, job' \in 0 .. Attempts
  PROVE  ArchiveInv'
  <1>1. worker' \in [Workers -> States]
    BY DEF ArchiveInv, TablesOK, ArchStep
  <1>2. BatchesRecorded'
    <2> SUFFICES ASSUME NEW v \in Workers
                 PROVE  worker'[v].batch \subseteq 1 .. entries'
      BY DEF BatchesRecorded
    <2>1. CASE v = w
      BY <2>1 DEF ArchStep, ArchiveInv, TablesOK
    <2>2. CASE v # w
      BY <2>2 DEF ArchStep, ArchiveInv, TablesOK, BatchesRecorded
    <2> QED
      BY <2>1, <2>2
  <1>3. Attempting'
    <2> SUFFICES ASSUME NEW v \in Workers, worker'[v].pc # "idle"
                 PROVE  worker'[v].left > 0
      BY DEF Attempting
    <2>1. CASE v = w
      BY <2>1 DEF ArchStep, ArchiveInv, TablesOK
    <2>2. CASE v # w
      BY <2>2 DEF ArchStep, ArchiveInv, TablesOK, Attempting
    <2> QED
      BY <2>1, <2>2
  <1> QED
    BY <1>1, <1>2, <1>3 DEF ArchiveInv, TablesOK, EntryInOneTable, ArchStep, page

LEMMA RecordKeeps ==
  ASSUME ArchiveInv, NEW t \in 1 .. MaxTime, Record(t)
  PROVE  ArchiveInv'
  <1>1. /\ entries' = entries + 1 /\ log' = log \cup {entries + 1}
        /\ created' = [created EXCEPT ![entries + 1] = t]
        /\ UNCHANGED <<archive, expired, job, worker>>
    BY DEF Record
  <1>2. 1 .. entries' = (1 .. entries) \cup {entries + 1} /\ entries + 1 \notin 1 .. entries
    BY <1>1, TrailAssumption DEF ArchiveInv, TablesOK
  <1>3. EntryInOneTable'
    BY <1>1, <1>2 DEF ArchiveInv, EntryInOneTable
  <1>4. TablesOK'
    <2>1. t \in 0 .. MaxTime /\ created \in [Ids -> 0 .. MaxTime]
      BY TrailAssumption DEF ArchiveInv, TablesOK
    <2>2. created' \in [Ids -> 0 .. MaxTime]
      BY <1>1, <2>1
    <2>3. entries' \in 0 .. MaxEntries
      BY <1>1, TrailAssumption DEF ArchiveInv, TablesOK, Record
    <2> QED
      BY <1>1, <2>2, <2>3 DEF ArchiveInv, TablesOK
  <1>5. BatchesRecorded'
    BY <1>1, <1>2 DEF ArchiveInv, BatchesRecorded
  <1>6. Attempting'
    BY <1>1 DEF ArchiveInv, Attempting
  <1> QED
    BY <1>3, <1>4, <1>5, <1>6 DEF ArchiveInv

LEMMA TakeKeeps ==
  ASSUME ArchiveInv, NEW w \in Workers, TakeArchive(w)
  PROVE  ArchiveInv'
  <1> DEFINE s == [pc |-> "find", left |-> job, cutoff |-> expired, batch |-> {}]
  <1>1. s \in States /\ s.batch \subseteq 1 .. entries
    BY TrailAssumption DEF ArchiveInv, TablesOK, States
  <1>2. ArchStep(w, s) /\ log' = log /\ archive' = archive /\ job' \in 0 .. Attempts
    BY TrailAssumption DEF TakeArchive
  <1>3. s.pc # "idle" => s.left > 0
    BY DEF TakeArchive, ArchiveInv, TablesOK
  <1> QED
    BY <1>1, <1>2, <1>3, WorkerMoves

LEMMA FindKeeps ==
  ASSUME ArchiveInv, NEW w \in Workers, FindBatch(w)
  PROVE  ArchiveInv'
  <1>1. PICK batch \in Oldest({e \in log : created[e] <= worker[w].cutoff}, BatchSize) :
          ArchStep(w, IF batch = {} THEN IdleWorker
                      ELSE [worker[w] EXCEPT !.pc = "move", !.batch = batch])
    BY DEF FindBatch
  <1> DEFINE found == [worker[w] EXCEPT !.pc = "move", !.batch = batch]
             s == IF batch = {} THEN IdleWorker ELSE found
  <1>2. batch \subseteq 1 .. entries /\ batch \in SUBSET Nat
    BY DEF Oldest, ArchiveInv, EntryInOneTable
  <1>3. worker[w] \in States /\ worker[w].left > 0
    BY DEF FindBatch, ArchiveInv, TablesOK, Attempting
  <1>4. found \in States /\ found.batch = batch /\ found.left = worker[w].left
    BY <1>2, <1>3 DEF States
  <1>5. s \in States /\ s.batch \subseteq 1 .. entries /\ (s.pc # "idle" => s.left > 0)
    <2> HIDE DEF found
    <2> QED
      BY <1>2, <1>3, <1>4, IdleState
  <1>6. ArchStep(w, s) /\ log' = log /\ archive' = archive /\ job' \in 0 .. Attempts
    BY <1>1 DEF FindBatch, ArchiveInv, TablesOK
  <1> HIDE DEF s
  <1> QED
    BY <1>5, <1>6, WorkerMoves

\* The transaction: whatever part of the batch is already in the archive, all
\* of it is there afterwards and none of it in the log.
LEMMA MoveKeeps ==
  ASSUME ArchiveInv, NEW w \in Workers, MoveBatch(w)
  PROVE  ArchiveInv'
  <1> DEFINE batch == worker[w].batch
             s == IF Cardinality(batch) < BatchSize THEN IdleWorker
                  ELSE [worker[w] EXCEPT !.pc = "find", !.batch = {}]
  <1>1. /\ archive' = archive \cup batch /\ log' = log \ batch
        /\ ArchStep(w, s) /\ UNCHANGED job
    BY DEF MoveBatch
  <1>2. batch \subseteq 1 .. entries /\ UNCHANGED <<entries, created, expired>>
    BY <1>1 DEF ArchiveInv, BatchesRecorded, ArchStep
  <1>3. EntryInOneTable'
    BY <1>1, <1>2 DEF ArchiveInv, EntryInOneTable
  <1>4. s \in States /\ s.batch = {} /\ (s.pc # "idle" => s.left > 0)
    <2> DEFINE next == [worker[w] EXCEPT !.pc = "find", !.batch = {}]
    <2>1. worker[w] \in States /\ worker[w].left > 0
      BY DEF MoveBatch, ArchiveInv, TablesOK, Attempting
    <2>2. next \in States /\ next.batch = {} /\ next.left > 0
      BY <2>1 DEF States
    <2>3. s = IdleWorker \/ s = next
      OBVIOUS
    <2> HIDE DEF next, s
    <2> QED
      BY <2>2, <2>3, IdleState
  <1>5. worker' = [worker EXCEPT ![w] = s]
    BY <1>1 DEF ArchStep
  <1> HIDE DEF s
  <1>6. TablesOK'
    BY <1>1, <1>2, <1>4, <1>5 DEF ArchiveInv, TablesOK
  <1>7. BatchesRecorded' /\ Attempting'
    <2> SUFFICES ASSUME NEW v \in Workers
                 PROVE  /\ worker'[v].batch \subseteq 1 .. entries'
                        /\ worker'[v].pc # "idle" => worker'[v].left > 0
      BY DEF BatchesRecorded, Attempting
    <2>1. CASE v = w
      BY <2>1, <1>4, <1>5 DEF ArchiveInv, TablesOK
    <2>2. CASE v # w
      BY <2>2, <1>2, <1>5 DEF ArchiveInv, TablesOK, BatchesRecorded, Attempting
    <2> QED
      BY <2>1, <2>2
  <1> QED
    BY <1>3, <1>6, <1>7 DEF ArchiveInv

LEMMA FailKeeps ==
  ASSUME ArchiveInv, NEW w \in Workers, NEW gone \in BOOLEAN, ArchiveFails(w, gone)
  PROVE  ArchiveInv'
  <1> DEFINE s == IF gone THEN IdleWorker ELSE worker[w]
  <1>0. worker[w] \in States /\ worker[w].left > 0 /\ worker[w].batch \subseteq 1 .. entries
    BY DEF ArchiveFails, ArchiveInv, TablesOK, Attempting, BatchesRecorded
  <1>1. s \in States /\ s.batch \subseteq 1 .. entries /\ (s.pc # "idle" => s.left > 0)
    BY <1>0, IdleState
  <1>2. ArchStep(w, s) /\ log' = log /\ archive' = archive
    BY DEF ArchiveFails
  <1>3. job' \in 0 .. Attempts
    <2>1. worker[w].left \in 0 .. Attempts /\ job' = worker[w].left - 1
      BY <1>0 DEF ArchiveFails, States
    <2> QED
      BY <2>1, <1>0, TrailAssumption
  <1> HIDE DEF s
  <1> QED
    BY <1>1, <1>2, <1>3, WorkerMoves

-----------------------------------------------------------------------------
LEMMA ArchiveStep ==
  ASSUME ArchiveInv, [Next]_vars
  PROVE  ArchiveInv'
  <1>1. ASSUME NEW t \in 1 .. MaxTime, Record(t) PROVE ArchiveInv'
    BY <1>1, RecordKeeps
  <1>2. CASE Expire
    <2>1. /\ expired' = expired + 1
          /\ UNCHANGED <<log, archive, entries, created, job, worker>>
      BY <1>2 DEF Expire
    <2>2. PICK e \in 1 .. entries : created[e] > expired
      BY <1>2 DEF Expire
    <2>3. e \in Ids /\ created[e] \in 0 .. MaxTime /\ expired \in 0 .. MaxTime
      BY TrailAssumption DEF ArchiveInv, TablesOK, Ids
    <2>4. expired' \in 0 .. MaxTime
      BY <2>1, <2>2, <2>3, TrailAssumption
    <2> QED
      BY <2>1, <2>4 DEF ArchiveInv, TablesOK, EntryInOneTable, BatchesRecorded, Attempting
  <1>3. CASE ScheduleArchive
    BY <1>3, TrailAssumption
    DEF ScheduleArchive, tables, ArchiveInv, TablesOK, EntryInOneTable, BatchesRecorded,
        Attempting
  <1>4. ASSUME NEW w \in Workers, TakeArchive(w) PROVE ArchiveInv'
    BY <1>4, TakeKeeps
  <1>5. ASSUME NEW w \in Workers, FindBatch(w) PROVE ArchiveInv'
    BY <1>5, FindKeeps
  <1>6. ASSUME NEW w \in Workers, MoveBatch(w) PROVE ArchiveInv'
    BY <1>6, MoveKeeps
  <1>7. ASSUME NEW w \in Workers, NEW gone \in BOOLEAN, ArchiveFails(w, gone)
        PROVE  ArchiveInv'
    BY <1>7, FailKeeps
  <1>8. ASSUME \/ \E q \in Queries : Type(q)
               \/ Reload \/ LoadMore
               \/ \E i \in 1 .. MaxAsks : Serve(i) \/ Land(i) \/ AskFails(i)
        PROVE  ArchiveInv'
    <2>1. UNCHANGED archiving
      BY <1>8 DEF Type, Reload, LoadMore, Send, Serve, Land, AskFails, tables, archiving
    <2> QED
      BY <2>1, ArchiveQuiet
  <1>9. CASE UNCHANGED vars
    <2>1. UNCHANGED archiving
      BY <1>9 DEF vars, archiving
    <2> QED
      BY <2>1, ArchiveQuiet
  <1> QED
    BY <1>1, <1>2, <1>3, <1>4, <1>5, <1>6, <1>7, <1>8, <1>9 DEF Next

LEMMA ArchiveInvariant == Spec => []ArchiveInv
  BY ArchiveInit, ArchiveStep, PTL DEF Spec

\* The tables, the waiting job and the workers keep their types (AuditLogService,
\* AuditLogArchiveWorker), for any number of workers, entries and attempts.
THEOREM TablesTypeCorrect == Spec => []TablesOK
  <1>1. ArchiveInv => TablesOK
    BY DEF ArchiveInv
  <1> QED
    BY <1>1, ArchiveInvariant, PTL

\* However archive runs overlap, fail or are delivered again, every recorded entry
\* is in exactly one of the two tables (archiveOneBatch's transaction).
THEOREM NoEntryLostOrDoubled == Spec => []EntryInOneTable
  <1>1. ArchiveInv => EntryInOneTable
    BY DEF ArchiveInv
  <1> QED
    BY <1>1, ArchiveInvariant, PTL

-----------------------------------------------------------------------------
(* Parts of a set of entries are finite, and no larger than it. *)
LEMMA PartsFinite ==
  ASSUME NEW n \in Nat, NEW S \in SUBSET (1 .. n)
  PROVE  /\ IsFiniteSet(S) /\ Cardinality(S) \in Nat
         /\ \A T \in SUBSET S : /\ IsFiniteSet(T) /\ Cardinality(T) \in Nat
                                /\ Cardinality(T) <= Cardinality(S)
  <1>1. IsFiniteSet(1 .. n)
    BY FS_Interval
  <1>2. IsFiniteSet(S)
    BY <1>1, FS_Subset
  <1>3. ASSUME NEW T \in SUBSET S
        PROVE  /\ IsFiniteSet(T) /\ Cardinality(T) \in Nat
               /\ Cardinality(T) <= Cardinality(S)
    BY <1>2, FS_Subset, FS_CardinalityType
  <1> QED
    BY <1>2, <1>3, FS_CardinalityType

-----------------------------------------------------------------------------
\* What is archived, or about to be, has expired: no entry is recorded behind it.
\* So the log holds the newest entries, whatever the order of their commits, and
\* what a worker has selected is the oldest of it: the move leaves no hole.
ArchivesExpired ==
  /\ \A e \in archive : created[e] <= expired
  /\ \A w \in Workers : /\ worker[w].cutoff <= expired
                        /\ \A b \in worker[w].batch : created[b] <= expired

LogIsNewest ==
  \A e \in log : \A f \in 1 .. entries : created[f] > created[e] => f \in log

BatchesOldest ==
  \A w \in Workers : \A b \in worker[w].batch : \A e \in log :
    created[e] < created[b] => e \in worker[w].batch

ArchiveOrder == ArchivesExpired /\ LogIsNewest /\ BatchesOldest

LEMMA OrderQuiet ==
  ASSUME ArchiveOrder, UNCHANGED <<log, archive, entries, created, expired, worker>>
  PROVE  ArchiveOrder'
  BY DEF ArchiveOrder, ArchivesExpired, LogIsNewest, BatchesOldest

\* A worker that drops its batch or keeps it, and takes a cutoff that is no later
\* than now.
LEMMA OrderDrops ==
  ASSUME ArchiveInv, ArchiveOrder, NEW w \in Workers, NEW s \in States,
         s.batch \in {{}, worker[w].batch}, s.cutoff <= expired,
         worker' = [worker EXCEPT ![w] = s],
         UNCHANGED <<log, archive, entries, created, expired>>
  PROVE  ArchiveOrder'
  <1>1. \A v \in Workers : worker'[v] = IF v = w THEN s ELSE worker[v]
    BY DEF ArchiveInv, TablesOK
  <1>2. \A v \in Workers : worker'[v].batch \in {{}, worker[v].batch}
    BY <1>1
  <1>3. \A v \in Workers : worker'[v].cutoff <= expired
    BY <1>1 DEF ArchiveOrder, ArchivesExpired
  <1>4. BatchesOldest'
    BY <1>2 DEF ArchiveOrder, BatchesOldest
  <1>5. ArchivesExpired'
    BY <1>2, <1>3 DEF ArchiveOrder, ArchivesExpired
  <1> QED
    BY <1>4, <1>5 DEF ArchiveOrder, LogIsNewest

LEMMA OrderRecord ==
  ASSUME ArchiveInv, ArchiveOrder, NEW t \in 1 .. MaxTime, Record(t)
  PROVE  ArchiveOrder'
  <1> DEFINE n == entries + 1
  <1>1. /\ entries' = n /\ log' = log \cup {n} /\ t > expired
        /\ created' = [created EXCEPT ![n] = t]
        /\ UNCHANGED <<archive, expired, worker>>
    BY DEF Record
  <1>2. /\ n \in Ids /\ n \notin 1 .. entries /\ expired \in Nat
        /\ created \in [Ids -> 0 .. MaxTime] /\ 1 .. entries \subseteq Ids
        /\ 1 .. n = (1 .. entries) \cup {n}
    BY TrailAssumption DEF Record, ArchiveInv, TablesOK, Ids
  <1> HIDE DEF n
  <1>3. created'[n] = t /\ \A e \in 1 .. entries : created'[e] = created[e]
    BY <1>1, <1>2
  <1>4. /\ log \subseteq 1 .. entries /\ archive \subseteq 1 .. entries
        /\ \A w \in Workers : worker[w].batch \subseteq 1 .. entries
        /\ \A e \in 1 .. entries : e \in log \/ e \in archive
    BY DEF ArchiveInv, EntryInOneTable, BatchesRecorded
  <1>5. \A e \in 1 .. entries : created[e] \in Nat
    BY <1>2, TrailAssumption
  <1>6. ArchivesExpired'
    BY <1>1, <1>3, <1>4 DEF ArchiveOrder, ArchivesExpired
  <1>7. LogIsNewest'
    <2> SUFFICES ASSUME NEW e \in log', NEW f \in 1 .. n, created'[f] > created'[e]
                 PROVE  f \in log'
      BY <1>1 DEF LogIsNewest
    <2>1. CASE f = n
      BY <1>1, <2>1
    <2>2. CASE f \in 1 .. entries /\ e \in log
      <3>1. created[f] > created[e]
        BY <1>3, <1>4, <2>2
      <3> QED
        BY <1>1, <2>2, <3>1 DEF ArchiveOrder, LogIsNewest
    <2>3. CASE f \in 1 .. entries /\ e = n
      <3>1. created[f] > t
        BY <1>3, <2>3
      <3>2. ~ (created[f] <= expired)
        BY <1>1, <1>2, <1>5, <2>3, <3>1
      <3>3. f \notin archive
        BY <3>2 DEF ArchiveOrder, ArchivesExpired
      <3> QED
        BY <1>1, <1>4, <2>3, <3>3
    <2> QED
      BY <1>1, <1>2, <2>1, <2>2, <2>3
  <1>8. BatchesOldest'
    <2> SUFFICES ASSUME NEW w \in Workers, NEW b \in worker[w].batch, NEW e \in log',
                        created'[e] < created'[b]
                 PROVE  e \in worker[w].batch
      BY <1>1 DEF BatchesOldest
    <2>1. b \in 1 .. entries /\ created[b] <= expired
      BY <1>4 DEF ArchiveOrder, ArchivesExpired
    <2>2. CASE e = n
      <3>1. t < created[b]
        BY <1>3, <2>1, <2>2
      <3> QED
        BY <1>1, <1>2, <1>5, <2>1, <3>1
    <2>3. CASE e \in log
      <3>1. created[e] < created[b]
        BY <1>3, <1>4, <2>1, <2>3
      <3> QED
        BY <2>3, <3>1 DEF ArchiveOrder, BatchesOldest
    <2> QED
      BY <1>1, <2>2, <2>3
  <1> QED
    BY <1>6, <1>7, <1>8 DEF ArchiveOrder

\* The rows picked are the oldest of those before the cutoff: no other entry of
\* the log is older than one of them.
LEMMA OrderFind ==
  ASSUME ArchiveInv, ArchiveOrder, NEW w \in Workers, FindBatch(w)
  PROVE  ArchiveOrder'
  <1> DEFINE S == {e \in log : created[e] <= worker[w].cutoff}
  <1>1. PICK batch \in Oldest(S, BatchSize) :
          ArchStep(w, IF batch = {} THEN IdleWorker
                      ELSE [worker[w] EXCEPT !.pc = "move", !.batch = batch])
    BY DEF FindBatch
  <1> DEFINE found == [worker[w] EXCEPT !.pc = "move", !.batch = batch]
             s == IF batch = {} THEN IdleWorker ELSE found
  <1>2. UNCHANGED <<log, archive, entries, created, expired>>
    BY DEF FindBatch, ArchStep
  <1>3. worker[w] \in States /\ worker \in [Workers -> States] /\ expired \in Nat
    BY TrailAssumption DEF ArchiveInv, TablesOK
  <1>4. found.batch = batch /\ found.cutoff = worker[w].cutoff
    BY <1>3 DEF States
  <1>5. worker[w].cutoff \in Nat /\ worker[w].cutoff <= expired
    BY <1>3, TrailAssumption DEF States, ArchiveOrder, ArchivesExpired
  <1>6. IdleWorker.batch = {} /\ IdleWorker.cutoff <= expired
    BY <1>3 DEF IdleWorker
  <1>7. s.batch = batch /\ s.cutoff <= expired
    <2> HIDE DEF found
    <2> QED
      BY <1>4, <1>5, <1>6
  <1>8. \A e \in 1 .. entries : created[e] \in Nat
    <2>1. 1 .. entries \subseteq Ids
      BY TrailAssumption DEF ArchiveInv, TablesOK, Ids
    <2> QED
      BY <2>1, TrailAssumption DEF ArchiveInv, TablesOK
  <1>9. log \subseteq 1 .. entries
    BY DEF ArchiveInv, EntryInOneTable
  <1>10. batch \subseteq S /\ \A x \in batch, y \in S \ batch : created[x] <= created[y]
    BY DEF Oldest
  <1>11. ASSUME NEW b \in batch
         PROVE  created[b] <= expired
    <2>1. b \in S
      BY <1>10
    <2>2. created[b] <= worker[w].cutoff /\ created[b] \in Nat
      BY <1>8, <1>9, <2>1
    <2> QED
      BY <1>3, <1>5, <2>2
  <1>12. ASSUME NEW b \in batch, NEW e \in log, created[e] < created[b]
         PROVE  e \in batch
    <2>1. b \in S /\ created[b] \in Nat /\ created[e] \in Nat
      BY <1>8, <1>9, <1>10
    <2>2. e \in S
      BY <1>5, <1>12, <2>1
    <2> QED
      BY <1>10, <1>12, <2>1, <2>2
  <1> HIDE DEF s
  <1>13. \A v \in Workers : worker'[v] = IF v = w THEN s ELSE worker[v]
    BY <1>1, <1>3 DEF ArchStep, s
  <1>14. ArchivesExpired'
    BY <1>2, <1>7, <1>11, <1>13 DEF ArchiveOrder, ArchivesExpired
  <1>15. BatchesOldest'
    BY <1>2, <1>7, <1>12, <1>13 DEF ArchiveOrder, BatchesOldest
  <1> QED
    BY <1>2, <1>14, <1>15 DEF ArchiveOrder, LogIsNewest

LEMMA OrderMove ==
  ASSUME ArchiveInv, ArchiveOrder, NEW w \in Workers, MoveBatch(w)
  PROVE  ArchiveOrder'
  <1> DEFINE s == IF Cardinality(worker[w].batch) < BatchSize THEN IdleWorker
                  ELSE [worker[w] EXCEPT !.pc = "find", !.batch = {}]
  <1>1. /\ log' = log \ worker[w].batch /\ archive' = archive \cup worker[w].batch
        /\ UNCHANGED <<entries, created, expired>> /\ worker' = [worker EXCEPT ![w] = s]
    BY DEF MoveBatch, ArchStep
  <1>2. worker[w] \in States /\ worker \in [Workers -> States] /\ expired \in Nat
    BY TrailAssumption DEF ArchiveInv, TablesOK
  <1>3. s.batch = {} /\ s.cutoff <= expired
    <2> DEFINE next == [worker[w] EXCEPT !.pc = "find", !.batch = {}]
    <2>1. next.batch = {} /\ next.cutoff = worker[w].cutoff
      BY <1>2 DEF States
    <2>2. worker[w].cutoff <= expired
      BY DEF ArchiveOrder, ArchivesExpired
    <2>3. IdleWorker.batch = {} /\ IdleWorker.cutoff <= expired
      BY <1>2 DEF IdleWorker
    <2>4. s = IdleWorker \/ s = next
      OBVIOUS
    <2> HIDE DEF s, next
    <2> QED
      BY <2>1, <2>2, <2>3, <2>4
  <1> HIDE DEF s
  <1>4. \A v \in Workers : worker'[v] = IF v = w THEN s ELSE worker[v]
    BY <1>1, <1>2
  <1>5. ArchivesExpired'
    BY <1>1, <1>3, <1>4 DEF ArchiveOrder, ArchivesExpired
  <1>6. LogIsNewest'
    <2> SUFFICES ASSUME NEW e \in log', NEW f \in 1 .. entries, created[f] > created[e]
                 PROVE  f \in log'
      BY <1>1 DEF LogIsNewest
    <2>1. e \in log /\ e \notin worker[w].batch /\ f \in log
      BY <1>1 DEF ArchiveOrder, LogIsNewest
    <2>2. created[e] < created[f]
      <3>1. e \in 1 .. entries /\ 1 .. entries \subseteq Ids
        BY <2>1, TrailAssumption DEF ArchiveInv, TablesOK, EntryInOneTable, Ids
      <3>2. created[e] \in Nat /\ created[f] \in Nat
        BY <3>1, TrailAssumption DEF ArchiveInv, TablesOK
      <3> QED
        BY <3>2
    <2>3. f \notin worker[w].batch
      BY <2>1, <2>2 DEF ArchiveOrder, BatchesOldest
    <2> QED
      BY <1>1, <2>1, <2>3
  <1>7. BatchesOldest'
    BY <1>1, <1>3, <1>4 DEF ArchiveOrder, BatchesOldest
  <1> QED
    BY <1>5, <1>6, <1>7 DEF ArchiveOrder

LEMMA OrderStep ==
  ASSUME ArchiveInv, ArchiveOrder, [Next]_vars
  PROVE  ArchiveOrder'
  <1>0. worker \in [Workers -> States] /\ expired \in Nat
    BY TrailAssumption DEF ArchiveInv, TablesOK
  <1>1. ASSUME NEW t \in 1 .. MaxTime, Record(t) PROVE ArchiveOrder'
    BY <1>1, OrderRecord
  <1>2. CASE Expire
    <2>1. /\ expired' = expired + 1
          /\ UNCHANGED <<log, archive, entries, created, worker>>
      BY <1>2 DEF Expire
    <2>2. /\ \A w \in Workers : worker[w].cutoff \in Nat
          /\ \A e \in 1 .. entries : created[e] \in Nat
      <3>1. 1 .. entries \subseteq Ids
        BY TrailAssumption DEF ArchiveInv, TablesOK, Ids
      <3> QED
        BY <1>0, <3>1, TrailAssumption DEF ArchiveInv, TablesOK, States
    <2>3. /\ archive \subseteq 1 .. entries
          /\ \A w \in Workers : worker[w].batch \subseteq 1 .. entries
      BY DEF ArchiveInv, EntryInOneTable, BatchesRecorded
    <2>4. ArchivesExpired'
      BY <1>0, <2>1, <2>2, <2>3 DEF ArchiveOrder, ArchivesExpired
    <2> QED
      BY <2>1, <2>4 DEF ArchiveOrder, LogIsNewest, BatchesOldest
  <1>3. CASE ScheduleArchive
    BY <1>3, OrderQuiet DEF ScheduleArchive, tables
  <1>4. ASSUME NEW w \in Workers, TakeArchive(w) PROVE ArchiveOrder'
    <2> DEFINE s == [pc |-> "find", left |-> job, cutoff |-> expired, batch |-> {}]
    <2>1. s \in States /\ s.batch = {} /\ s.cutoff <= expired
      BY <1>0, TrailAssumption DEF ArchiveInv, TablesOK, States
    <2>2. /\ worker' = [worker EXCEPT ![w] = s]
          /\ UNCHANGED <<log, archive, entries, created, expired>>
      BY <1>4 DEF TakeArchive, ArchStep
    <2> HIDE DEF s
    <2> QED
      BY <2>1, <2>2, OrderDrops
  <1>5. ASSUME NEW w \in Workers, FindBatch(w) PROVE ArchiveOrder'
    BY <1>5, OrderFind
  <1>6. ASSUME NEW w \in Workers, MoveBatch(w) PROVE ArchiveOrder'
    BY <1>6, OrderMove
  <1>7. ASSUME NEW w \in Workers, NEW gone \in BOOLEAN, ArchiveFails(w, gone)
        PROVE  ArchiveOrder'
    <2> DEFINE s == IF gone THEN IdleWorker ELSE worker[w]
    <2>1. /\ worker' = [worker EXCEPT ![w] = s]
          /\ UNCHANGED <<log, archive, entries, created, expired>>
      BY <1>7 DEF ArchiveFails, ArchStep
    <2>2. s \in States /\ s.batch \in {{}, worker[w].batch}
      BY <1>0, IdleState
    <2>3. s.cutoff <= expired
      <3>1. IdleWorker.cutoff <= expired
        BY <1>0 DEF IdleWorker
      <3> QED
        BY <3>1 DEF ArchiveOrder, ArchivesExpired
    <2> HIDE DEF s
    <2> QED
      BY <2>1, <2>2, <2>3, OrderDrops
  <1>8. ASSUME \/ \E q \in Queries : Type(q)
               \/ Reload \/ LoadMore
               \/ \E i \in 1 .. MaxAsks : Serve(i) \/ Land(i) \/ AskFails(i)
        PROVE  ArchiveOrder'
    <2>1. UNCHANGED <<log, archive, entries, created, expired, worker>>
      BY <1>8 DEF Type, Reload, LoadMore, Send, Serve, Land, AskFails, tables
    <2> QED
      BY <2>1, OrderQuiet
  <1>9. CASE UNCHANGED vars
    BY <1>9, OrderQuiet DEF vars
  <1> QED
    BY <1>1, <1>2, <1>3, <1>4, <1>5, <1>6, <1>7, <1>8, <1>9 DEF Next

LEMMA OrderInit == Init => ArchiveOrder
  <1> SUFFICES ASSUME Init PROVE ArchiveOrder
    OBVIOUS
  <1>1. log = {} /\ archive = {} /\ expired = 0
    BY DEF Init
  <1>2. \A w \in Workers : worker[w].batch = {} /\ worker[w].cutoff = 0
    BY DEF Init, IdleWorker
  <1> QED
    BY <1>1, <1>2 DEF ArchiveOrder, ArchivesExpired, LogIsNewest, BatchesOldest

-----------------------------------------------------------------------------
\* What a list of the page is, in terms of the n entries recorded and of their
\* stamps c: rows of its search, with no entry left out between two of them, and
\* deep enough that the count of its rows, the next page's skip, does not reach
\* below its last one.
ClassOf(q, n) == {e \in 1 .. n : q = "" \/ e % 2 = 1}
FromRow(e, q, n, c) == {x \in ClassOf(q, n) : c[x] >= c[e]}

\* e was committed before one of the two rows, and is dated between them.
Between(e, row, next, c) == (e < row \/ e < next) /\ c[next] < c[e] /\ c[e] < c[row]

NoGap(s, q, n, c) ==
  \A i \in 1 .. Len(s) - 1 : \A e \in ClassOf(q, n) : ~ Between(e, s[i], s[i + 1], c)
Deep(s, q, d, n, c) == s # <<>> => Cardinality(FromRow(s[Len(s)], q, n, c)) >= d
Whole(s, q, d, n, c) ==
  s \in Seq(ClassOf(q, n)) /\ NoGap(s, q, n, c) /\ Deep(s, q, d, n, c)

\* A page that goes on where the list ends.
Adjoins(s, r, q, n, c) ==
  s # <<>> /\ r # <<>> => \A e \in ClassOf(q, n) : ~ Between(e, s[Len(s)], r[1], c)

LEMMA ClassFacts ==
  ASSUME NEW n \in Nat, NEW q
  PROVE  /\ ClassOf(q, n) \in SUBSET (1 .. n)
         /\ \A e, c : FromRow(e, q, n, c) \in SUBSET (1 .. n)
  BY DEF ClassOf, FromRow

\* An entry recorded leaves the stamps of the others as they are.
LEMMA ClassGrows ==
  ASSUME NEW n \in Nat, NEW q
  PROVE  /\ ClassOf(q, n) \subseteq ClassOf(q, n + 1)
         /\ \A e \in ClassOf(q, n + 1) : e \in ClassOf(q, n) \/ e = n + 1
  <1>1. \A e \in 1 .. n : e \in 1 .. n + 1
    OBVIOUS
  <1>2. \A e \in 1 .. n + 1 : e \in 1 .. n \/ e = n + 1
    OBVIOUS
  <1> QED
    BY <1>1, <1>2 DEF ClassOf

\* It is committed after every row, whatever its stamp.
LEMMA BetweenGrows ==
  ASSUME NEW n \in Nat, NEW q, NEW c, NEW d, \A x \in 1 .. n : d[x] = c[x],
         NEW e \in ClassOf(q, n + 1), NEW row \in 1 .. n, NEW next \in 1 .. n,
         Between(e, row, next, d)
  PROVE  e \in ClassOf(q, n) /\ Between(e, row, next, c)
  <1>1. e # n + 1
    BY DEF Between
  <1>2. e \in ClassOf(q, n) /\ e \in 1 .. n
    BY <1>1, ClassGrows, ClassFacts
  <1> QED
    BY <1>2 DEF Between

LEMMA WholeGrows ==
  ASSUME NEW n \in Nat, NEW q, NEW k \in Nat, NEW c, NEW d,
         \A x \in 1 .. n : d[x] = c[x], NEW s, Whole(s, q, k, n, c)
  PROVE  Whole(s, q, k, n + 1, d)
  <1>1. s \in Seq(ClassOf(q, n)) /\ Len(s) \in Nat
    BY DEF Whole
  <1>2. \A i \in 1 .. Len(s) : s[i] \in ClassOf(q, n) /\ s[i] \in 1 .. n
    BY <1>1, ClassFacts
  <1>3. s \in Seq(ClassOf(q, n + 1))
    BY <1>1, ClassGrows
  <1>4. NoGap(s, q, n + 1, d)
    <2> SUFFICES ASSUME NEW i \in 1 .. Len(s) - 1, NEW e \in ClassOf(q, n + 1),
                        Between(e, s[i], s[i + 1], d)
                 PROVE  FALSE
      BY DEF NoGap
    <2> DEFINE row == s[i]
               next == s[i + 1]
    <2>1. row \in 1 .. n /\ next \in 1 .. n /\ Between(e, row, next, d)
      BY <1>1, <1>2
    <2>2. ~ Between(e, row, next, c) \/ e \notin ClassOf(q, n)
      BY DEF Whole, NoGap
    <2> HIDE DEF row, next
    <2> QED
      BY <2>1, <2>2, BetweenGrows
  <1>5. Deep(s, q, k, n + 1, d)
    <2> SUFFICES ASSUME s # <<>>
                 PROVE  Cardinality(FromRow(s[Len(s)], q, n + 1, d)) >= k
      BY DEF Deep
    <2> DEFINE z == s[Len(s)]
               A == FromRow(z, q, n, c)
               B == FromRow(z, q, n + 1, d)
    <2>0. z \in 1 .. n
      BY <1>1, <1>2
    <2>1. A \subseteq B
      <3> HIDE DEF z
      <3>1. \A x \in ClassOf(q, n) : x \in ClassOf(q, n + 1) /\ d[x] = c[x]
        BY ClassGrows, ClassFacts
      <3> QED
        BY <2>0, <3>1 DEF FromRow
    <2>2. B \in SUBSET (1 .. n + 1) /\ n + 1 \in Nat
      <3>1. n + 1 \in Nat
        OBVIOUS
      <3> QED
        BY <3>1, ClassFacts
    <2>3. Cardinality(A) >= k
      BY DEF Whole, Deep
    <2> HIDE DEF A, B
    <2>4. Cardinality(A) <= Cardinality(B) /\ Cardinality(A) \in Nat
          /\ Cardinality(B) \in Nat
      BY <2>1, <2>2, PartsFinite
    <2>5. Cardinality(B) >= k
      BY <2>3, <2>4
    <2> QED
      BY <2>5 DEF B
  <1> QED
    BY <1>3, <1>4, <1>5 DEF Whole

LEMMA AdjoinsGrows ==
  ASSUME NEW n \in Nat, NEW q, NEW c, NEW d, \A x \in 1 .. n : d[x] = c[x],
         NEW s \in Seq(ClassOf(q, n)), NEW r \in Seq(ClassOf(q, n)),
         Adjoins(s, r, q, n, c)
  PROVE  Adjoins(s, r, q, n + 1, d)
  <1> SUFFICES ASSUME s # <<>>, r # <<>>, NEW e \in ClassOf(q, n + 1),
                      Between(e, s[Len(s)], r[1], d)
               PROVE  FALSE
    BY DEF Adjoins
  <1>1. s[Len(s)] \in 1 .. n /\ r[1] \in 1 .. n
    <2>1. s[Len(s)] \in ClassOf(q, n) /\ r[1] \in ClassOf(q, n)
      OBVIOUS
    <2> QED
      BY <2>1, ClassFacts
  <1> DEFINE row == s[Len(s)]
             next == r[1]
  <1>2. ~ Between(e, row, next, c) \/ e \notin ClassOf(q, n)
    BY DEF Adjoins
  <1>3. row \in 1 .. n /\ next \in 1 .. n /\ Between(e, row, next, d)
    BY <1>1
  <1> HIDE DEF row, next
  <1> QED
    BY <1>2, <1>3, BetweenGrows

\* A list and the page that goes on from it are one list.
LEMMA WholeJoins ==
  ASSUME NEW n \in Nat, NEW q, NEW c, NEW s, NEW r,
         Whole(s, q, Len(s), n, c), Whole(r, q, Len(s) + Len(r), n, c),
         Adjoins(s, r, q, n, c)
  PROVE  Whole(s \o r, q, Len(s \o r), n, c)
  <1> DEFINE t == s \o r
  <1>1. /\ s \in Seq(ClassOf(q, n)) /\ r \in Seq(ClassOf(q, n))
        /\ Len(s) \in Nat /\ Len(r) \in Nat
    BY DEF Whole
  <1>2. /\ t \in Seq(ClassOf(q, n)) /\ Len(t) = Len(s) + Len(r)
        /\ \A i \in 1 .. Len(t) : t[i] = IF i <= Len(s) THEN s[i] ELSE r[i - Len(s)]
    BY <1>1
  <1> HIDE DEF t
  <1>3. NoGap(t, q, n, c)
    <2> SUFFICES ASSUME NEW i \in 1 .. Len(t) - 1, NEW e \in ClassOf(q, n),
                        Between(e, t[i], t[i + 1], c)
                 PROVE  FALSE
      BY DEF NoGap
    <2>0. i \in 1 .. Len(t) /\ i + 1 \in 1 .. Len(t) /\ i \in Nat
      BY <1>1, <1>2
    <2>1. CASE i < Len(s)
      <3>1. t[i] = s[i] /\ t[i + 1] = s[i + 1] /\ i \in 1 .. Len(s) - 1
        BY <1>1, <1>2, <2>0, <2>1
      <3> QED
        BY <3>1 DEF Whole, NoGap
    <2>2. CASE i = Len(s)
      <3>1. t[i] = s[Len(s)] /\ t[i + 1] = r[1] /\ s # <<>> /\ r # <<>>
        BY <1>1, <1>2, <2>0, <2>2
      <3> QED
        BY <3>1 DEF Adjoins
    <2>3. CASE i > Len(s)
      <3> DEFINE j == i - Len(s)
      <3>1. t[i] = r[j] /\ j \in 1 .. Len(r) - 1
        BY <1>1, <1>2, <2>0, <2>3
      <3>2. t[i + 1] = r[j + 1]
        <4>1. ~(i + 1 <= Len(s)) /\ (i + 1) - Len(s) = j + 1
          BY <1>1, <2>0, <2>3
        <4> QED
          BY <1>2, <2>0, <4>1
      <3> QED
        BY <3>1, <3>2 DEF Whole, NoGap
    <2> QED
      BY <1>1, <2>0, <2>1, <2>2, <2>3
  <1>4. Deep(t, q, Len(t), n, c)
    <2>1. CASE r = <<>>
      <3>1. t = s
        BY <1>1, <2>1 DEF t
      <3> QED
        BY <3>1 DEF Whole
    <2>2. CASE r # <<>>
      <3>1. Len(r) # 0
        BY <1>1, <2>2
      <3>2. t[Len(t)] = r[Len(r)]
        <4>1. /\ Len(t) \in 1 .. Len(t) /\ ~(Len(t) <= Len(s))
              /\ Len(t) - Len(s) = Len(r)
          BY <1>1, <1>2, <3>1
        <4> QED
          BY <1>2, <4>1
      <3> QED
        BY <1>2, <2>2, <3>2 DEF Whole, Deep
    <2> QED
      BY <2>1, <2>2
  <1> QED
    BY <1>2, <1>3, <1>4 DEF Whole, t

-----------------------------------------------------------------------------
(* The rows of a served page are hits, each at its place by createdAt. *)
LEMMA PageRows ==
  ASSUME NEW n \in Nat, NEW S \in SUBSET (1 .. n), NEW skip \in Nat,
         NEW r \in PagesOf(S, skip)
  PROVE  r \in Seq(S) /\ \A j \in 1 .. Len(r) : r[j] \in S /\ At(r[j], S, skip + j)
  <1> DEFINE k == PageLength(S, skip)
  <1>1. k \in Nat
    <2>1. Cardinality(S) \in Nat /\ PageSize \in Nat
      BY PartsFinite, TrailAssumption
    <2> QED
      BY <2>1 DEF PageLength, Least
  <1>2. r \in [1 .. k -> S] /\ \A i \in DOMAIN r : At(r[i], S, skip + i)
    BY DEF PagesOf
  <1> HIDE DEF k
  <1>3. r \in Seq(S) /\ Len(r) = k
    BY <1>1, <1>2
  <1> QED
    BY <1>2, <1>3

\* What a search finds when the log holds the newest entries.
NewestOf(S, q, n) ==
  /\ S \subseteq ClassOf(q, n)
  /\ \A e \in S : \A f \in ClassOf(q, n) : created[f] > created[e] => f \in S

\* An entry next to those of A, all of them newer than the hit b: so many hits
\* come before b.
LEMMA ManyNewer ==
  ASSUME NEW n \in Nat, NEW q, NEW S, NewestOf(S, q, n), NEW b \in S,
         NEW A \in SUBSET ClassOf(q, n), NEW e \in ClassOf(q, n) \ A,
         created[e] > created[b], \A x \in A : created[x] > created[b]
  PROVE  /\ Cardinality(A) \in Nat /\ Cardinality(Newer(b, S)) \in Nat
         /\ Cardinality(Newer(b, S)) >= Cardinality(A) + 1
  <1>1. ClassOf(q, n) \in SUBSET (1 .. n)
    BY ClassFacts
  <1>2. A \cup {e} \subseteq Newer(b, S)
    BY DEF NewestOf, Newer
  <1>3. Newer(b, S) \in SUBSET (1 .. n) /\ A \in SUBSET (1 .. n)
    BY <1>1 DEF Newer, NewestOf
  <1>4. /\ Cardinality(A \cup {e}) <= Cardinality(Newer(b, S))
        /\ Cardinality(Newer(b, S)) \in Nat
    BY <1>2, <1>3, PartsFinite
  <1>5. IsFiniteSet(A) /\ Cardinality(A) \in Nat
    BY <1>3, PartsFinite
  <1>6. Cardinality(A \cup {e}) = Cardinality(A) + 1
    BY <1>5, FS_AddElement
  <1> QED
    BY <1>4, <1>5, <1>6

LEMMA PageIsWhole ==
  ASSUME NEW n \in Nat, NEW q, NEW S, NewestOf(S, q, n), NEW skip \in Nat,
         NEW r \in PagesOf(S, skip), \A x \in 1 .. n : created[x] \in Nat
  PROVE  Whole(r, q, skip + Len(r), n, created)
  <1>0. /\ S \in SUBSET (1 .. n) /\ S \subseteq ClassOf(q, n)
        /\ ClassOf(q, n) \in SUBSET (1 .. n)
    BY ClassFacts DEF NewestOf
  <1>1. r \in Seq(S) /\ \A j \in 1 .. Len(r) : r[j] \in S /\ At(r[j], S, skip + j)
    BY <1>0, PageRows
  <1>2. r \in Seq(ClassOf(q, n)) /\ Len(r) \in Nat
    <2>1. r \in Seq(S) /\ S \subseteq ClassOf(q, n)
      BY <1>0, <1>1
    <2> QED
      BY <2>1
  <1>3. \A x \in S : /\ NotOlder(x, S) \in SUBSET S
                     /\ Cardinality(NotOlder(x, S)) \in Nat
    <2>1. \A x \in S : NotOlder(x, S) \in SUBSET S
      BY DEF NotOlder
    <2> QED
      BY <1>0, <2>1, PartsFinite
  <1>4. NoGap(r, q, n, created)
    <2> SUFFICES ASSUME NEW i \in 1 .. Len(r) - 1, NEW e \in ClassOf(q, n),
                        Between(e, r[i], r[i + 1], created)
                 PROVE  FALSE
      BY DEF NoGap
    <2>1. i \in 1 .. Len(r) /\ i + 1 \in 1 .. Len(r) /\ i \in Nat
      BY <1>2
    <2> DEFINE a == r[i]
               b == r[i + 1]
               A == NotOlder(a, S)
    <2>2. a \in S /\ b \in S /\ At(a, S, skip + i) /\ At(b, S, skip + (i + 1))
      BY <1>1, <2>1
    <2>3. created[b] < created[e] /\ created[e] < created[a]
      BY DEF Between
    <2> HIDE DEF a, b
    <2>4. created[a] \in Nat /\ created[b] \in Nat /\ created[e] \in Nat
          /\ \A x \in S : created[x] \in Nat
      BY <1>0, <2>2
    <2>5. e \notin A /\ \A x \in A : created[x] > created[b]
      BY <2>3, <2>4 DEF NotOlder
    <2>6. A \in SUBSET ClassOf(q, n) /\ created[e] > created[b]
      BY <1>0, <2>3, <2>4 DEF NotOlder
    <2> HIDE DEF A
    <2>7. /\ Cardinality(A) \in Nat /\ Cardinality(Newer(b, S)) \in Nat
          /\ Cardinality(Newer(b, S)) >= Cardinality(A) + 1
      BY <2>2, <2>5, <2>6, ManyNewer
    <2>8. Cardinality(Newer(b, S)) < skip + (i + 1) /\ skip + i <= Cardinality(A)
      BY <2>2 DEF At, A
    <2> QED
      BY <2>1, <2>7, <2>8
  <1>5. Deep(r, q, skip + Len(r), n, created)
    <2> SUFFICES ASSUME r # <<>>
                 PROVE  Cardinality(FromRow(r[Len(r)], q, n, created)) >= skip + Len(r)
      BY DEF Deep
    <2> DEFINE z == r[Len(r)]
               A == NotOlder(z, S)
               B == FromRow(z, q, n, created)
    <2>1. z \in S /\ At(z, S, skip + Len(r))
      <3>1. Len(r) \in 1 .. Len(r)
        BY <1>2
      <3> QED
        BY <1>1, <3>1
    <2>2. skip + Len(r) <= Cardinality(A)
      BY <2>1 DEF At
    <2> HIDE DEF z
    <2>3. A \subseteq B /\ B \in SUBSET (1 .. n)
      BY <1>0, ClassFacts DEF NotOlder, FromRow
    <2>4. Cardinality(A) \in Nat
      BY <1>3, <2>1
    <2> HIDE DEF A, B
    <2>5. Cardinality(A) <= Cardinality(B) /\ Cardinality(B) \in Nat
      BY <2>3, PartsFinite
    <2>6. Cardinality(B) >= skip + Len(r)
      BY <1>2, <2>2, <2>4, <2>5
    <2> QED
      BY <2>6 DEF B, z
  <1> QED
    BY <1>2, <1>4, <1>5 DEF Whole

LEMMA PageAdjoins ==
  ASSUME NEW n \in Nat, NEW q, NEW S, NewestOf(S, q, n), NEW skip \in Nat,
         NEW s \in Seq(ClassOf(q, n)), Deep(s, q, skip, n, created),
         NEW r \in PagesOf(S, skip), \A x \in 1 .. n : created[x] \in Nat
  PROVE  Adjoins(s, r, q, n, created)
  <1>0. /\ S \in SUBSET (1 .. n) /\ S \subseteq ClassOf(q, n)
        /\ ClassOf(q, n) \in SUBSET (1 .. n)
    BY ClassFacts DEF NewestOf
  <1>1. r \in Seq(S) /\ \A j \in 1 .. Len(r) : r[j] \in S /\ At(r[j], S, skip + j)
    BY <1>0, PageRows
  <1> SUFFICES ASSUME s # <<>>, r # <<>>, NEW e \in ClassOf(q, n),
                      Between(e, s[Len(s)], r[1], created)
               PROVE  FALSE
    BY DEF Adjoins
  <1> DEFINE z == s[Len(s)]
             b == r[1]
             A == FromRow(z, q, n, created)
  <1>2. z \in ClassOf(q, n) /\ b \in S /\ At(b, S, skip + 1)
    BY <1>1
  <1>3. created[b] < created[e] /\ created[e] < created[z]
    BY DEF Between
  <1>4. Cardinality(A) >= skip
    BY DEF Deep
  <1> HIDE DEF z, b
  <1>5. created[z] \in Nat /\ created[b] \in Nat /\ created[e] \in Nat
        /\ \A x \in ClassOf(q, n) : created[x] \in Nat
    BY <1>0, <1>2
  <1>6. e \notin A /\ A \in SUBSET ClassOf(q, n)
    BY <1>3, <1>5 DEF FromRow
  <1>7. created[e] > created[b] /\ \A x \in A : created[x] > created[b]
    BY <1>3, <1>5 DEF FromRow
  <1> HIDE DEF A
  <1>8. /\ Cardinality(A) \in Nat /\ Cardinality(Newer(b, S)) \in Nat
        /\ Cardinality(Newer(b, S)) >= Cardinality(A) + 1
    BY <1>2, <1>6, <1>7, ManyNewer
  <1>9. Cardinality(Newer(b, S)) < skip + 1
    BY <1>2 DEF At
  <1> QED
    BY <1>4, <1>8, <1>9

LEMMA HitsAreNewest ==
  ASSUME ArchiveInv, LogIsNewest, NEW q
  PROVE  NewestOf(Hits(q), q, entries)
  <1>1. log \subseteq 1 .. entries
    BY DEF ArchiveInv, EntryInOneTable
  <1> QED
    BY <1>1 DEF NewestOf, LogIsNewest, Hits, ClassOf

LEMMA StampsTyped ==
  ASSUME ArchiveInv
  PROVE  /\ entries \in Nat /\ entries \in 0 .. MaxEntries /\ 1 .. entries \subseteq Ids
         /\ \A x \in 1 .. entries : created[x] \in Nat
  <1>1. entries \in Nat /\ entries \in 0 .. MaxEntries /\ 1 .. entries \subseteq Ids
    BY TrailAssumption DEF ArchiveInv, TablesOK, Ids
  <1> QED
    BY <1>1, TrailAssumption DEF ArchiveInv, TablesOK

\* The rows of a list are recorded entries.
LEMMA WholeTyped ==
  ASSUME NEW n \in 0 .. MaxEntries, NEW q, NEW d, NEW s, NEW c, Whole(s, q, d, n, c)
  PROVE  s \in Seq(Ids)
  <1>1. ClassOf(q, n) \subseteq Ids
    <2>1. ClassOf(q, n) \subseteq 1 .. n
      BY DEF ClassOf
    <2>2. 1 .. n \subseteq Ids
      BY TrailAssumption DEF Ids
    <2> QED
      BY <2>1, <2>2
  <1>2. s \in Seq(ClassOf(q, n))
    BY DEF Whole
  <1> QED
    BY <1>1, <1>2

-----------------------------------------------------------------------------
AskStates == [at : {"unsent", "waiting", "served", "landed"}, kind : {"reload", "more"},
              q : Queries, skip : Nat, rows : Seq(Ids), more : BOOLEAN]

PagesOK ==
  /\ faults \in 0 .. MaxFaults
  /\ items \in Seq(Ids) /\ listed \in Queries /\ box \in Queries
  /\ hasMore \in BOOLEAN
  /\ asks \in 0 .. MaxAsks /\ current \in 0 .. asks
  /\ ask \in [1 .. MaxAsks -> AskStates]
  /\ crossed \in BOOLEAN

Pending(i) == ask[i].at \in {"waiting", "served"}

\* A reload asks for the first page, and what was served is a whole page.
AsksSound ==
  \A i \in 1 .. MaxAsks :
    /\ i > asks => ask[i].at = "unsent"
    /\ ask[i].kind = "reload" => ask[i].skip = 0
    /\ ask[i].at = "served" =>
         Whole(ask[i].rows, ask[i].q, ask[i].skip + Len(ask[i].rows), entries, created)

\* While Load More has not crossed a reload or a search, the one under way is
\* alone, asks for what follows the list, and gets a page that adjoins it.
MoreFollows ==
  \A i \in 1 .. MaxAsks :
    ask[i].kind = "more" /\ Pending(i) =>
      /\ ask[i].q = listed /\ ask[i].skip = Len(items)
      /\ \A j \in 1 .. MaxAsks : Pending(j) => j = i
      /\ ask[i].at = "served" => Adjoins(items, ask[i].rows, listed, entries, created)

OnCourse == ~ crossed => Whole(items, listed, Len(items), entries, created) /\ MoreFollows

PagesInv == PagesOK /\ AsksSound /\ OnCourse

AuditInv == ArchiveInv /\ ArchiveOrder /\ PagesInv

-----------------------------------------------------------------------------
LEMMA NoAskState == /\ NoAsk \in AskStates
                    /\ NoAsk.kind = "reload" /\ NoAsk.skip = 0
  <1>1. <<>> \in Seq(Ids) /\ "" \in Queries
    BY DEF Queries
  <1> QED
    BY <1>1 DEF NoAsk, AskStates

LEMMA AskTakes ==
  ASSUME PagesOK, NEW i \in 1 .. MaxAsks, NEW s \in AskStates,
         ask' = [ask EXCEPT ![i] = s]
  PROVE  /\ ask' \in [1 .. MaxAsks -> AskStates] /\ ask'[i] = s
         /\ \A j \in 1 .. MaxAsks \ {i} : ask'[j] = ask[j]
  BY DEF PagesOK

LEMMA PagesInit == Init => PagesInv
  <1> SUFFICES ASSUME Init PROVE PagesInv
    OBVIOUS
  <1>1. PagesOK
    <2>1. <<>> \in Seq(Ids) /\ "" \in Queries
      BY DEF Queries
    <2>2. /\ 0 \in 0 .. MaxFaults /\ 0 \in 0 .. MaxAsks /\ 0 \in 0 .. 0
      BY TrailAssumption
    <2>3. ask \in [1 .. MaxAsks -> AskStates]
      BY NoAskState DEF Init
    <2> QED
      BY <2>1, <2>2, <2>3 DEF Init, PagesOK
  <1>2. \A i \in 1 .. MaxAsks : ask[i] = NoAsk
    BY DEF Init
  <1>3. NoAsk.at = "unsent" /\ NoAsk.skip = 0
    BY DEF NoAsk
  <1>4. AsksSound
    BY <1>2, <1>3 DEF AsksSound
  <1>5. MoreFollows
    BY <1>2, <1>3 DEF MoreFollows, Pending
  <1>6. Whole(items, listed, Len(items), entries, created)
    <2>1. items = <<>> /\ Len(<<>>) = 0 /\ <<>> \in Seq(ClassOf(listed, entries))
      <3>1. items = <<>>
        BY DEF Init
      <3>2. <<>> \in Seq(ClassOf(listed, entries)) /\ Len(<<>>) = 0
        OBVIOUS
      <3> QED
        BY <3>1, <3>2
    <2>2. NoGap(<<>>, listed, entries, created)
      <3>1. 1 .. Len(<<>>) - 1 = {}
        OBVIOUS
      <3> QED
        BY <3>1 DEF NoGap
    <2> QED
      BY <2>1, <2>2 DEF Whole, Deep
  <1> QED
    BY <1>1, <1>4, <1>5, <1>6 DEF PagesInv, OnCourse

\* Steps of the archive's half, and what they leave alone.
LEMMA PagesQuiet ==
  ASSUME PagesInv, UNCHANGED <<entries, created, page>>, faults' \in 0 .. MaxFaults
  PROVE  PagesInv'
  <1> USE DEF page
  <1>1. PagesOK'
    BY DEF PagesInv, PagesOK
  <1>2. AsksSound'
    BY DEF PagesInv, AsksSound
  <1>3. MoreFollows <=> MoreFollows'
    BY DEF MoreFollows, Pending
  <1> QED
    BY <1>1, <1>2, <1>3 DEF PagesInv, OnCourse

LEMMA PagesRecord ==
  ASSUME ArchiveInv, PagesInv, NEW t \in 1 .. MaxTime, Record(t)
  PROVE  PagesInv'
  <1>1. /\ entries' = entries + 1 /\ faults' = faults /\ UNCHANGED page
        /\ created' = [created EXCEPT ![entries + 1] = t] /\ entries \in Nat
    BY TrailAssumption DEF Record, ArchiveInv, TablesOK
  <1>a. \A x \in 1 .. entries : created'[x] = created[x]
    <2>1. 1 .. entries \subseteq Ids /\ entries + 1 \notin 1 .. entries
      BY StampsTyped
    <2> QED
      BY <1>1, <2>1 DEF ArchiveInv, TablesOK
  <1>2. PagesOK'
    BY <1>1 DEF PagesInv, PagesOK, page
  <1>b. ASSUME NEW i \in 1 .. MaxAsks, ask[i].at = "served"
        PROVE  /\ Whole(ask[i].rows, ask[i].q, ask[i].skip + Len(ask[i].rows), entries,
                        created)
               /\ ask[i].rows \in Seq(ClassOf(ask[i].q, entries))
    BY <1>b DEF PagesInv, AsksSound, Whole
  <1>3. AsksSound'
    <2> SUFFICES ASSUME NEW i \in 1 .. MaxAsks, ask[i].at = "served"
                 PROVE  Whole(ask[i].rows, ask[i].q, ask[i].skip + Len(ask[i].rows),
                              entries + 1, created')
      BY <1>1 DEF PagesInv, AsksSound, page
    <2>1. Whole(ask[i].rows, ask[i].q, ask[i].skip + Len(ask[i].rows), entries, created)
      BY <1>b
    <2>2. ask[i].skip + Len(ask[i].rows) \in Nat
      <3>1. ask[i].skip \in Nat /\ ask[i].rows \in Seq(Ids)
        BY DEF PagesInv, PagesOK, AskStates
      <3> QED
        BY <3>1
    <2> QED
      BY <1>1, <1>a, <2>1, <2>2, WholeGrows
  <1>4. OnCourse'
    <2> SUFFICES ASSUME ~ crossed
                 PROVE  /\ Whole(items', listed', Len(items'), entries', created')
                        /\ MoreFollows'
      BY <1>1 DEF OnCourse, page
    <2>1. Whole(items, listed, Len(items), entries, created) /\ MoreFollows
      BY DEF PagesInv, OnCourse
    <2>2. items \in Seq(ClassOf(listed, entries)) /\ Len(items) \in Nat
      BY <2>1 DEF Whole
    <2>3. Whole(items, listed, Len(items), entries + 1, created')
      BY <1>1, <1>a, <2>1, <2>2, WholeGrows
    <2>4. \A r \in Seq(ClassOf(listed, entries)) :
            Adjoins(items, r, listed, entries, created)
              => Adjoins(items, r, listed, entries + 1, created')
      BY <1>1, <1>a, <2>2, AdjoinsGrows
    <2>5. MoreFollows'
      <3> SUFFICES ASSUME NEW i \in 1 .. MaxAsks, ask[i].kind = "more", Pending(i)
                   PROVE  /\ ask[i].q = listed /\ ask[i].skip = Len(items)
                          /\ \A j \in 1 .. MaxAsks : Pending(j) => j = i
                          /\ ask[i].at = "served" =>
                               Adjoins(items, ask[i].rows, listed, entries + 1, created')
        BY <1>1 DEF MoreFollows, Pending, page
      <3>1. /\ ask[i].q = listed /\ ask[i].skip = Len(items)
            /\ \A j \in 1 .. MaxAsks : Pending(j) => j = i
            /\ ask[i].at = "served" =>
                 Adjoins(items, ask[i].rows, listed, entries, created)
        BY <2>1 DEF MoreFollows
      <3>2. ask[i].at = "served" =>
              Adjoins(items, ask[i].rows, listed, entries + 1, created')
        BY <1>b, <2>4, <3>1
      <3> QED
        BY <3>1, <3>2
    <2> QED
      BY <1>1, <2>3, <2>5 DEF page
  <1> QED
    BY <1>2, <1>3, <1>4 DEF PagesInv

LEMMA PagesType ==
  ASSUME PagesInv, NEW q \in Queries, Type(q)
  PROVE  PagesInv'
  <1>1. box' = q /\ UNCHANGED <<entries, created, faults, items, listed, hasMore, current,
                                ask, asks, crossed>>
    BY DEF Type, tables
  <1>2. PagesOK'
    BY <1>1 DEF PagesInv, PagesOK
  <1>3. AsksSound'
    BY <1>1 DEF PagesInv, AsksSound
  <1>4. MoreFollows <=> MoreFollows'
    BY <1>1 DEF MoreFollows, Pending
  <1> QED
    BY <1>1, <1>2, <1>3, <1>4 DEF PagesInv, OnCourse

\* A request goes out: for the first page, or for the rows after the list's.
LEMMA PagesSend ==
  ASSUME PagesInv, NEW kind \in {"reload", "more"}, NEW skip \in Nat, Send(kind, skip),
         kind = "reload" => skip = 0,
         current' \in {current, asks + 1}, crossed' \in BOOLEAN,
         ~ crossed' => ~ crossed /\ ~ UnderWay("more"),
         kind = "more" /\ ~ crossed' =>
           skip = Len(items) /\ box = listed /\ ~ UnderWay("reload")
  PROVE  PagesInv'
  <1> DEFINE i == asks + 1
             s == [NoAsk EXCEPT !.at = "waiting", !.kind = kind, !.q = box, !.skip = skip]
  <1>0. /\ asks' = asks + 1 /\ asks < MaxAsks /\ ask' = [ask EXCEPT ![i] = s]
        /\ UNCHANGED <<entries, created, faults, items, listed, hasMore, box>>
    BY DEF Send, tables
  <1>1. /\ s \in AskStates /\ s.at = "waiting" /\ s.kind = kind /\ s.q = box
        /\ s.skip = skip
    <2>1. box \in Queries
      BY DEF PagesInv, PagesOK
    <2>2. PICK t \in AskStates : t = NoAsk
      BY NoAskState
    <2>3. s = [t EXCEPT !.at = "waiting", !.kind = kind, !.q = box, !.skip = skip]
      BY <2>2
    <2> HIDE DEF s
    <2> QED
      BY <2>1, <2>3 DEF AskStates
  <1> HIDE DEF s
  <1>2. i \in 1 .. MaxAsks /\ asks \in Nat /\ asks \in 0 .. MaxAsks
    BY <1>0, TrailAssumption DEF PagesInv, PagesOK
  <1>3. /\ ask' \in [1 .. MaxAsks -> AskStates] /\ ask'[i] = s
        /\ \A j \in 1 .. MaxAsks \ {i} : ask'[j] = ask[j]
    <2> HIDE DEF i
    <2> QED
      BY <1>0, <1>1, <1>2, AskTakes DEF PagesInv
  <1>4. PagesOK'
    <2>1. asks' \in 0 .. MaxAsks /\ current' \in 0 .. asks'
      BY <1>0, <1>2, TrailAssumption DEF PagesInv, PagesOK
    <2> QED
      BY <1>0, <1>3, <2>1 DEF PagesInv, PagesOK
  <1>5. AsksSound'
    <2> SUFFICES ASSUME NEW j \in 1 .. MaxAsks
                 PROVE  /\ j > asks' => ask'[j].at = "unsent"
                        /\ ask'[j].kind = "reload" => ask'[j].skip = 0
                        /\ ask'[j].at = "served" =>
                             Whole(ask'[j].rows, ask'[j].q,
                                   ask'[j].skip + Len(ask'[j].rows), entries', created')
      BY DEF AsksSound
    <2>1. CASE j = i
      BY <1>0, <1>1, <1>2, <1>3, <2>1
    <2>2. CASE j # i
      <3>1. ask'[j] = ask[j] /\ (j > asks' => j > asks)
        BY <1>0, <1>2, <1>3, <2>2
      <3> QED
        BY <1>0, <3>1 DEF PagesInv, AsksSound
    <2> QED
      BY <2>1, <2>2
  <1>6. ASSUME ~ crossed'
        PROVE  MoreFollows'
    <2>1. \A j \in 1 .. MaxAsks \ {i} : Pending(j) => j \in 1 .. asks
      BY <1>2 DEF PagesInv, AsksSound, Pending
    <2>2. \A j \in 1 .. MaxAsks \ {i} : Pending(j)' <=> Pending(j)
      BY <1>3 DEF Pending
    <2>3. \A j \in 1 .. MaxAsks \ {i} : Pending(j) => ask[j].kind # "more"
      BY <1>6, <2>1 DEF UnderWay, Pending
    <2>4. ASSUME kind = "more", NEW j \in 1 .. MaxAsks \ {i}
          PROVE  ~ Pending(j)
      <3>1. ask[j].kind \in {"reload", "more"}
        BY DEF PagesInv, PagesOK, AskStates
      <3> QED
        BY <1>6, <2>1, <2>3, <2>4, <3>1 DEF UnderWay, Pending
    <2> SUFFICES ASSUME NEW j \in 1 .. MaxAsks, ask'[j].kind = "more", Pending(j)'
                 PROVE  /\ ask'[j].q = listed' /\ ask'[j].skip = Len(items')
                        /\ \A k \in 1 .. MaxAsks : Pending(k)' => k = j
                        /\ ask'[j].at = "served" =>
                             Adjoins(items', ask'[j].rows, listed', entries', created')
      BY DEF MoreFollows
    <2>5. j = i
      BY <1>3, <2>2, <2>3
    <2>6. kind = "more"
      BY <1>1, <1>3, <2>5
    <2> QED
      BY <1>0, <1>1, <1>3, <1>6, <2>2, <2>4, <2>5, <2>6
  <1> QED
    BY <1>0, <1>4, <1>5, <1>6 DEF PagesInv, OnCourse

LEMMA PagesReload ==
  ASSUME PagesInv, Reload
  PROVE  PagesInv'
  <1>1. crossed' \in BOOLEAN /\ (~ crossed' => ~ crossed /\ ~ UnderWay("more"))
    BY Zenon DEF Reload
  <1>2. Send("reload", 0) /\ current' = asks + 1
    BY DEF Reload
  <1> QED
    BY <1>1, <1>2, PagesSend

LEMMA PagesLoadMore ==
  ASSUME PagesInv, LoadMore
  PROVE  PagesInv'
  <1>1. crossed' \in BOOLEAN
        /\ (~ crossed' => ~ crossed /\ ~ UnderWay("reload") /\ box = listed)
    BY Zenon DEF LoadMore
  <1>2. /\ Send("more", Len(items)) /\ current' = current /\ ~ UnderWay("more")
        /\ Len(items) \in Nat
    BY DEF LoadMore, PagesInv, PagesOK
  <1> QED
    BY <1>1, <1>2, PagesSend

\* The answer to a request, computed from the log as it is when it is served.
LEMMA PagesServe ==
  ASSUME ArchiveInv, ArchiveOrder, PagesInv, NEW i \in 1 .. MaxAsks, Serve(i)
  PROVE  PagesInv'
  <1>0. /\ ask[i].at = "waiting"
        /\ UNCHANGED <<entries, created, faults, items, listed, hasMore, box, current,
                       asks, crossed>>
    BY DEF Serve, tables
  <1>1. ask[i] \in AskStates /\ ask \in [1 .. MaxAsks -> AskStates]
    BY DEF PagesInv, PagesOK
  <1>2. PICK p \in PagesOf(Hits(ask[i].q), ask[i].skip) :
          ask' = [ask EXCEPT ![i].at = "served", ![i].rows = p,
                             ![i].more = ask[i].skip + PageSize < Cardinality(Hits(ask[i].q))]
    BY DEF Serve
  <1>3. PICK b \in BOOLEAN : b = (ask[i].skip + PageSize < Cardinality(Hits(ask[i].q)))
    <2> DEFINE P == ask[i].skip + PageSize < Cardinality(Hits(ask[i].q))
    <2>1. P \in BOOLEAN
      <3>1. ask[i].skip + PageSize \in Nat
        BY <1>1, TrailAssumption DEF AskStates
      <3>2. Cardinality(Hits(ask[i].q)) \in Nat
        <4>1. log \in SUBSET (1 .. entries) /\ entries \in Nat
          BY TrailAssumption DEF ArchiveInv, TablesOK, EntryInOneTable
        <4>2. Hits(ask[i].q) \in SUBSET (1 .. entries)
          BY <4>1 DEF Hits
        <4> QED
          BY <4>1, <4>2, PartsFinite
      <3> QED
        BY <3>1, <3>2
    <2> HIDE DEF P
    <2>2. \E b \in BOOLEAN : b = P
      BY <2>1
    <2> QED
      BY <2>2 DEF P
  <1>4. ask' = [ask EXCEPT ![i].at = "served", ![i].rows = p, ![i].more = b]
    BY <1>2, <1>3
  <1>5. /\ NewestOf(Hits(ask[i].q), ask[i].q, entries) /\ entries \in Nat
        /\ entries \in 0 .. MaxEntries /\ \A x \in 1 .. entries : created[x] \in Nat
    BY HitsAreNewest, StampsTyped DEF ArchiveOrder
  <1>6. ask[i].skip \in Nat /\ ask[i].q \in Queries
    BY <1>1 DEF AskStates
  <1>7. Whole(p, ask[i].q, ask[i].skip + Len(p), entries, created)
    BY <1>2, <1>5, <1>6, PageIsWhole
  <1>8. p \in Seq(Ids)
    BY <1>5, <1>7, WholeTyped
  <1> DEFINE s == [ask[i] EXCEPT !.at = "served", !.rows = p, !.more = b]
  <1>9. /\ s \in AskStates /\ s.at = "served" /\ s.rows = p /\ s.kind = ask[i].kind
        /\ s.q = ask[i].q /\ s.skip = ask[i].skip
    BY <1>1, <1>3, <1>8 DEF AskStates
  <1>10. ask' = [ask EXCEPT ![i] = s]
    BY <1>1, <1>4 DEF AskStates
  <1> HIDE DEF s
  <1>11. /\ ask' \in [1 .. MaxAsks -> AskStates] /\ ask'[i] = s
         /\ \A j \in 1 .. MaxAsks \ {i} : ask'[j] = ask[j]
    BY <1>9, <1>10, AskTakes DEF PagesInv
  <1>12. PagesOK'
    BY <1>0, <1>11 DEF PagesInv, PagesOK
  <1>13. AsksSound'
    <2> SUFFICES ASSUME NEW j \in 1 .. MaxAsks
                 PROVE  /\ j > asks' => ask'[j].at = "unsent"
                        /\ ask'[j].kind = "reload" => ask'[j].skip = 0
                        /\ ask'[j].at = "served" =>
                             Whole(ask'[j].rows, ask'[j].q,
                                   ask'[j].skip + Len(ask'[j].rows), entries', created')
      BY DEF AsksSound
    <2>1. CASE j = i
      <3>1. ~ (i > asks) /\ (ask[i].kind = "reload" => ask[i].skip = 0)
        BY <1>0 DEF PagesInv, AsksSound
      <3> QED
        BY <1>0, <1>7, <1>9, <1>11, <2>1, <3>1
    <2>2. CASE j # i
      BY <1>0, <1>11, <2>2 DEF PagesInv, AsksSound
    <2> QED
      BY <2>1, <2>2
  <1>14. ASSUME ~ crossed
         PROVE  MoreFollows'
    <2>1. Whole(items, listed, Len(items), entries, created) /\ MoreFollows
      BY <1>14 DEF PagesInv, OnCourse
    <2>2. \A j \in 1 .. MaxAsks : Pending(j)' <=> Pending(j)
      BY <1>0, <1>9, <1>11 DEF Pending
    <2> SUFFICES ASSUME NEW j \in 1 .. MaxAsks, ask'[j].kind = "more", Pending(j)'
                 PROVE  /\ ask'[j].q = listed' /\ ask'[j].skip = Len(items')
                        /\ \A k \in 1 .. MaxAsks : Pending(k)' => k = j
                        /\ ask'[j].at = "served" =>
                             Adjoins(items', ask'[j].rows, listed', entries', created')
      BY DEF MoreFollows
    <2>3. /\ ask'[j].kind = ask[j].kind /\ ask'[j].q = ask[j].q
          /\ ask'[j].skip = ask[j].skip
      BY <1>9, <1>11
    <2>4. /\ ask[j].q = listed /\ ask[j].skip = Len(items)
          /\ \A k \in 1 .. MaxAsks : Pending(k) => k = j
          /\ ask[j].at = "served" => Adjoins(items, ask[j].rows, listed, entries, created)
      BY <2>1, <2>2, <2>3 DEF MoreFollows
    <2>5. j = i
      BY <1>0, <2>4 DEF Pending
    <2>6. Adjoins(items, p, listed, entries, created)
      <3>1. items \in Seq(ClassOf(listed, entries))
            /\ Deep(items, listed, Len(items), entries, created) /\ Len(items) \in Nat
        BY <2>1 DEF Whole
      <3> QED
        BY <1>2, <1>5, <2>4, <2>5, <3>1, PageAdjoins
    <2> QED
      BY <1>0, <1>9, <1>11, <2>2, <2>3, <2>4, <2>5, <2>6
  <1> QED
    BY <1>0, <1>12, <1>13, <1>14 DEF PagesInv, OnCourse

\* A request that is over leaves the list's half of the invariant to its caller.
LEMMA AskEnds ==
  ASSUME PagesInv, NEW i \in 1 .. MaxAsks,
         ask' = [ask EXCEPT ![i] = [NoAsk EXCEPT !.at = "landed"]],
         ask[i].at \in {"waiting", "served"}, UNCHANGED <<entries, created, asks>>
  PROVE  /\ ask' \in [1 .. MaxAsks -> AskStates] /\ AsksSound'
         /\ ~ Pending(i)' /\ ask'[i].kind = "reload"
         /\ \A j \in 1 .. MaxAsks \ {i} : ask'[j] = ask[j]
  <1> DEFINE s == [NoAsk EXCEPT !.at = "landed"]
  <1>1. s \in AskStates /\ s.at = "landed" /\ s.kind = "reload" /\ s.skip = 0
    <2>1. PICK t \in AskStates : t = NoAsk /\ t.kind = "reload" /\ t.skip = 0
      BY NoAskState
    <2>2. s = [t EXCEPT !.at = "landed"]
      BY <2>1
    <2> HIDE DEF s
    <2> QED
      BY <2>1, <2>2 DEF AskStates
  <1> HIDE DEF s
  <1>2. /\ ask' \in [1 .. MaxAsks -> AskStates] /\ ask'[i] = s
        /\ \A j \in 1 .. MaxAsks \ {i} : ask'[j] = ask[j]
    <2>1. ask' = [ask EXCEPT ![i] = s]
      BY DEF s
    <2> QED
      BY <1>1, <2>1, AskTakes DEF PagesInv
  <1>3. AsksSound'
    <2> SUFFICES ASSUME NEW j \in 1 .. MaxAsks
                 PROVE  /\ j > asks' => ask'[j].at = "unsent"
                        /\ ask'[j].kind = "reload" => ask'[j].skip = 0
                        /\ ask'[j].at = "served" =>
                             Whole(ask'[j].rows, ask'[j].q,
                                   ask'[j].skip + Len(ask'[j].rows), entries', created')
      BY DEF AsksSound
    <2>1. CASE j = i
      <3>1. ~ (i > asks)
        BY DEF PagesInv, AsksSound
      <3> QED
        BY <1>1, <1>2, <2>1, <3>1
    <2>2. CASE j # i
      BY <1>2, <2>2 DEF PagesInv, AsksSound
    <2> QED
      BY <2>1, <2>2
  <1> QED
    BY <1>1, <1>2, <1>3 DEF Pending

LEMMA PagesFail ==
  ASSUME PagesInv, NEW i \in 1 .. MaxAsks, AskFails(i)
  PROVE  PagesInv'
  <1>0. /\ ask' = [ask EXCEPT ![i] = [NoAsk EXCEPT !.at = "landed"]]
        /\ ask[i].at \in {"waiting", "served"} /\ faults' = faults + 1
        /\ faults < MaxFaults
        /\ UNCHANGED <<entries, created, items, listed, hasMore, box, current, asks,
                       crossed>>
    BY DEF AskFails, tables
  <1>1. /\ ask' \in [1 .. MaxAsks -> AskStates] /\ AsksSound'
        /\ ~ Pending(i)' /\ ask'[i].kind = "reload"
        /\ \A j \in 1 .. MaxAsks \ {i} : ask'[j] = ask[j]
    BY <1>0, AskEnds
  <1>2. PagesOK'
    <2>1. faults' \in 0 .. MaxFaults
      BY <1>0, TrailAssumption DEF PagesInv, PagesOK
    <2> QED
      BY <1>0, <1>1, <2>1 DEF PagesInv, PagesOK
  <1>3. MoreFollows => MoreFollows'
    <2>1. \A j \in 1 .. MaxAsks : Pending(j)' => Pending(j) /\ j # i
      BY <1>1 DEF Pending
    <2> QED
      BY <1>0, <1>1, <2>1 DEF MoreFollows
  <1> QED
    BY <1>0, <1>1, <1>2, <1>3 DEF PagesInv, OnCourse

\* An answer lands: a page is appended, a fresh reload replaces the list.
LEMMA PagesLand ==
  ASSUME ArchiveInv, PagesInv, NEW i \in 1 .. MaxAsks, Land(i)
  PROVE  PagesInv'
  <1>0. /\ ask' = [ask EXCEPT ![i] = [NoAsk EXCEPT !.at = "landed"]]
        /\ ask[i].at = "served"
        /\ UNCHANGED <<entries, created, faults, box, current, asks, crossed>>
    BY DEF Land, tables
  <1>1. /\ ask' \in [1 .. MaxAsks -> AskStates] /\ AsksSound'
        /\ ~ Pending(i)' /\ ask'[i].kind = "reload"
        /\ \A j \in 1 .. MaxAsks \ {i} : ask'[j] = ask[j]
    BY <1>0, AskEnds
  <1>2. ask[i] \in AskStates
    BY DEF PagesInv, PagesOK
  <1>3. /\ ask[i].q \in Queries /\ ask[i].rows \in Seq(Ids) /\ ask[i].more \in BOOLEAN
        /\ ask[i].skip \in Nat
    BY <1>2 DEF AskStates
  <1>4. Whole(ask[i].rows, ask[i].q, ask[i].skip + Len(ask[i].rows), entries, created)
    BY <1>0 DEF PagesInv, AsksSound
  <1>5. \A j \in 1 .. MaxAsks : Pending(j)' => Pending(j) /\ j # i
    BY <1>1 DEF Pending
  <1>6. entries \in Nat
    BY TrailAssumption DEF ArchiveInv, TablesOK
  <1>7. CASE ask[i].kind = "more"
    <2>1. items' = items \o ask[i].rows /\ listed' = listed /\ hasMore' = ask[i].more
      BY <1>7 DEF Land
    <2>2. PagesOK'
      <3>1. items \o ask[i].rows \in Seq(Ids)
        BY <1>3 DEF PagesInv, PagesOK
      <3> QED
        BY <1>0, <1>1, <1>3, <2>1, <3>1 DEF PagesInv, PagesOK
    <2>3. ASSUME ~ crossed
          PROVE  /\ Whole(items', listed', Len(items'), entries', created')
                 /\ MoreFollows'
      <3>1. Whole(items, listed, Len(items), entries, created) /\ MoreFollows
        BY <2>3 DEF PagesInv, OnCourse
      <3>2. /\ ask[i].q = listed /\ ask[i].skip = Len(items)
            /\ \A j \in 1 .. MaxAsks : Pending(j) => j = i
            /\ Adjoins(items, ask[i].rows, listed, entries, created)
        BY <1>0, <1>7, <3>1 DEF MoreFollows, Pending
      <3>3. Whole(items', listed', Len(items'), entries', created')
        BY <1>0, <1>4, <1>6, <2>1, <3>1, <3>2, WholeJoins
      <3>4. MoreFollows'
        BY <1>5, <3>2 DEF MoreFollows
      <3> QED
        BY <3>3, <3>4
    <2> QED
      BY <1>0, <1>1, <2>2, <2>3 DEF PagesInv, OnCourse
  <1>8. CASE ask[i].kind = "reload" /\ i = current
    <2>1. items' = ask[i].rows /\ listed' = ask[i].q /\ hasMore' = ask[i].more
      BY <1>8 DEF Land
    <2>2. PagesOK'
      BY <1>0, <1>1, <1>3, <2>1 DEF PagesInv, PagesOK
    <2>3. ASSUME ~ crossed
          PROVE  /\ Whole(items', listed', Len(items'), entries', created')
                 /\ MoreFollows'
      <3>1. MoreFollows
        BY <2>3 DEF PagesInv, OnCourse
      <3>2. ask[i].skip = 0
        BY <1>8 DEF PagesInv, AsksSound
      <3>3. 0 + Len(ask[i].rows) = Len(ask[i].rows)
        BY <1>3
      <3>4. Whole(items', listed', Len(items'), entries', created')
        BY <1>0, <1>4, <2>1, <3>2, <3>3
      <3>5. \A j \in 1 .. MaxAsks : Pending(j)' => ask'[j].kind # "more"
        <4>1. \A j \in 1 .. MaxAsks : Pending(j) /\ ask[j].kind = "more" => i = j
          BY <1>0, <3>1 DEF MoreFollows, Pending
        <4> QED
          BY <1>1, <1>5, <4>1
      <3> QED
        BY <3>4, <3>5 DEF MoreFollows
    <2> QED
      BY <1>0, <1>1, <2>2, <2>3 DEF PagesInv, OnCourse
  <1>9. CASE ask[i].kind = "reload" /\ i # current
    <2>1. items' = items /\ listed' = listed /\ hasMore' = hasMore
      BY <1>9 DEF Land
    <2>2. PagesOK'
      BY <1>0, <1>1, <2>1 DEF PagesInv, PagesOK
    <2>3. MoreFollows => MoreFollows'
      BY <1>0, <1>1, <1>5, <2>1 DEF MoreFollows
    <2> QED
      BY <1>0, <1>1, <2>1, <2>2, <2>3 DEF PagesInv, OnCourse
  <1>10. ask[i].kind \in {"reload", "more"}
    BY <1>2 DEF AskStates
  <1> QED
    BY <1>7, <1>8, <1>9, <1>10

-----------------------------------------------------------------------------
LEMMA PagesStep ==
  ASSUME AuditInv, [Next]_vars
  PROVE  PagesInv'
  <1>0. ArchiveInv /\ ArchiveOrder /\ PagesInv /\ faults \in 0 .. MaxFaults
    BY DEF AuditInv, PagesInv, PagesOK
  <1>1. ASSUME NEW t \in 1 .. MaxTime, Record(t) PROVE PagesInv'
    BY <1>0, <1>1, PagesRecord
  <1>2. ASSUME \/ Expire \/ ScheduleArchive
               \/ \E w \in Workers : TakeArchive(w) \/ FindBatch(w) \/ MoveBatch(w)
        PROVE  PagesInv'
    <2>1. UNCHANGED <<entries, created, page>> /\ faults' = faults
      BY <1>2 DEF Expire, ScheduleArchive, TakeArchive, FindBatch, MoveBatch, ArchStep,
                  tables, page
    <2> QED
      BY <1>0, <2>1, PagesQuiet
  <1>3. ASSUME NEW w \in Workers, NEW gone \in BOOLEAN, ArchiveFails(w, gone)
        PROVE  PagesInv'
    <2>1. UNCHANGED <<entries, created, page>> /\ faults' = faults + 1 /\ faults < MaxFaults
      BY <1>3 DEF ArchiveFails, ArchStep, page
    <2>2. faults' \in 0 .. MaxFaults
      BY <1>0, <2>1, TrailAssumption
    <2> QED
      BY <1>0, <2>1, <2>2, PagesQuiet
  <1>4. ASSUME NEW q \in Queries, Type(q) PROVE PagesInv'
    BY <1>0, <1>4, PagesType
  <1>5. CASE Reload
    BY <1>0, <1>5, PagesReload
  <1>6. CASE LoadMore
    BY <1>0, <1>6, PagesLoadMore
  <1>7. ASSUME NEW i \in 1 .. MaxAsks, Serve(i) PROVE PagesInv'
    BY <1>0, <1>7, PagesServe
  <1>8. ASSUME NEW i \in 1 .. MaxAsks, Land(i) PROVE PagesInv'
    BY <1>0, <1>8, PagesLand
  <1>9. ASSUME NEW i \in 1 .. MaxAsks, AskFails(i) PROVE PagesInv'
    BY <1>0, <1>9, PagesFail
  <1>10. CASE UNCHANGED vars
    <2>1. UNCHANGED <<entries, created, page>> /\ faults' = faults
      BY <1>10 DEF vars, page
    <2> QED
      BY <1>0, <2>1, PagesQuiet
  <1> QED
    BY <1>1, <1>2, <1>3, <1>4, <1>5, <1>6, <1>7, <1>8, <1>9, <1>10 DEF Next

LEMMA AuditInvariant == Spec => []AuditInv
  <1>1. Init => AuditInv
    BY ArchiveInit, OrderInit, PagesInit DEF AuditInv
  <1>2. AuditInv /\ [Next]_vars => AuditInv'
    BY ArchiveStep, OrderStep, PagesStep DEF AuditInv
  <1> QED
    BY <1>1, <1>2, PTL DEF Spec

LEMMA TrailTyped ==
  ASSUME AuditInv
  PROVE  TypeOK
  <1>1. /\ entries \in 0 .. MaxEntries /\ expired \in 0 .. MaxTime
        /\ created \in [Ids -> 0 .. MaxTime] /\ job \in 0 .. Attempts
    BY DEF AuditInv, ArchiveInv, TablesOK
  <1>2. 1 .. entries \subseteq Ids
    BY <1>1, TrailAssumption DEF Ids
  <1>3. log \subseteq Ids /\ archive \subseteq Ids
    BY <1>2 DEF AuditInv, ArchiveInv, EntryInOneTable
  <1>4. worker \in [Workers -> [pc : {"idle", "find", "move"}, left : 0 .. Attempts,
                                cutoff : 0 .. MaxTime, batch : SUBSET Ids]]
    <2>1. /\ worker \in [Workers -> States]
          /\ \A w \in Workers : worker[w].batch \subseteq Ids
      BY <1>2 DEF AuditInv, ArchiveInv, TablesOK, BatchesRecorded
    <2>2. \A s \in States : s.batch \subseteq Ids =>
            s \in [pc : {"idle", "find", "move"}, left : 0 .. Attempts,
                   cutoff : 0 .. MaxTime, batch : SUBSET Ids]
      BY DEF States
    <2> QED
      BY <2>1, <2>2
  <1>5. \A i \in 1 .. MaxAsks :
          /\ ask[i].at \in {"unsent", "waiting", "served", "landed"}
          /\ ask[i].kind \in {"reload", "more"} /\ ask[i].q \in Queries
          /\ ask[i].skip \in Nat /\ ask[i].rows \in Seq(Ids) /\ ask[i].more \in BOOLEAN
    BY DEF AuditInv, PagesInv, PagesOK, AskStates
  <1> QED
    BY <1>1, <1>3, <1>4, <1>5 DEF TypeOK, AuditInv, PagesInv, PagesOK

LEMMA OnCourseShowsAll ==
  ASSUME AuditInv
  PROVE  NoEntryBetweenIsMissing
  <1> SUFFICES ASSUME ~ crossed, NEW i \in 1 .. Len(items) - 1, NEW e \in Hits(listed),
                      Between(e, items[i], items[i + 1], created)
               PROVE  FALSE
    BY DEF NoEntryBetweenIsMissing, Between
  <1>1. NoGap(items, listed, entries, created)
    BY DEF AuditInv, PagesInv, OnCourse, Whole
  <1>2. Hits(listed) \subseteq ClassOf(listed, entries)
    BY DEF AuditInv, ArchiveInv, EntryInOneTable, Hits, ClassOf
  <1> QED
    BY <1>1, <1>2 DEF NoGap

\* The audit trail keeps its types, page and archive (AuditLogService,
\* AuditLogArchiveWorker, usePaginatedList).
THEOREM AuditTypeCorrect == Spec => []TypeOK
  BY AuditInvariant, TrailTyped, PTL

\* Of the entries committed before one of two neighbouring rows, a list whose Load
\* More never crossed a reload or a search leaves none out that is dated between
\* them, in whatever order stamps commit, whatever is recorded or archived between
\* its pages, for every page size and batch size (usePaginatedList, search()).
THEOREM ListHasNoHole == Spec => []NoEntryBetweenIsMissing
  BY AuditInvariant, OnCourseShowsAll, PTL
=============================================================================
