----------------------------- MODULE AuditTrail -----------------------------
(***************************************************************************)
(* The audit log over time: entries are recorded (AuditLogService), moved  *)
(* to the archive ninety days later by a recurring job                     *)
(* (AuditLogArchiveWorker, AuditLogArchiveService), and listed page by     *)
(* page, newest first, in the admin's audit section (AuditLogService.search*)
(* behind AdminAuditSection.tsx and lib/usePaginatedList.ts).              *)
(*                                                                         *)
(* An entry is the number of its commit.  Its createdAt is stamped before  *)
(* that, by the clock of its replica: entries may commit in another order  *)
(* than their stamps, and share one.  "expired" is the time ninety days    *)
(* ago.  A search finds the odd numbers, no search finds them all.         *)
(***************************************************************************)
EXTENDS Naturals, FiniteSets, Sequences

CONSTANTS Workers,      \* archive workers, one per replica
          BatchSize,    \* ARCHIVE_BATCH_SIZE
          PageSize,     \* usePaginatedList's pageSize
          Attempts,     \* attempts of the archive job
          MaxEntries,   \* bound: entries
          MaxTime,      \* bound: times of createdAt
          MaxAsks,      \* bound: list requests of the page
          MaxFaults     \* bound: failing statements and crashes

ASSUME TrailAssumption ==
  /\ BatchSize \in Nat \ {0} /\ PageSize \in Nat \ {0} /\ Attempts \in Nat \ {0}
  /\ MaxEntries \in Nat /\ MaxTime \in Nat /\ MaxAsks \in Nat /\ MaxFaults \in Nat

VARIABLES log,       \* the AuditLog table
          archive,   \* the AuditLogArchive table
          entries,   \* entries recorded so far
          created,   \* ... and their createdAt, 0 before that
          expired,
          job,       \* the waiting archive job: attempts left, 0 is none
          worker,    \* the archive jobs being processed
          faults,
          items,     \* the page's rows
          listed,    \* ... and the search of the reload they started from
          hasMore,   \* the Load More button is there
          box,       \* the search box, applied 300 ms after the last key
          current,   \* useRequestGuard: the last reload's number
          ask,       \* per list request: where it is
          asks,
          crossed    \* history: a Load More went out next to a reload, or under
                     \* a search not yet applied

vars == <<log, archive, entries, created, expired, job, worker, faults, items, listed,
          hasMore, box, current, ask, asks, crossed>>

tables == <<log, archive, entries, created, expired>>
page   == <<items, listed, hasMore, box, current, ask, asks, crossed>>

Ids == 1 .. MaxEntries
Queries == {"", "q"}
Hits(q) == {e \in log : q = "" \/ e % 2 = 1}

IdleWorker == [pc |-> "idle", left |-> 0, cutoff |-> 0, batch |-> {}]
NoAsk == [at |-> "unsent", kind |-> "reload", q |-> "", skip |-> 0, rows |-> <<>>,
          more |-> FALSE]

TypeOK ==
  /\ log \subseteq Ids /\ archive \subseteq Ids
  /\ entries \in 0 .. MaxEntries
  /\ created \in [Ids -> 0 .. MaxTime] /\ expired \in 0 .. MaxTime
  /\ job \in 0 .. Attempts
  /\ worker \in [Workers -> [pc : {"idle", "find", "move"}, left : 0 .. Attempts,
                             cutoff : 0 .. MaxTime, batch : SUBSET Ids]]
  /\ faults \in 0 .. MaxFaults
  /\ items \in Seq(Ids) /\ listed \in Queries /\ box \in Queries
  /\ hasMore \in BOOLEAN
  /\ asks \in 0 .. MaxAsks /\ current \in 0 .. asks
  /\ \A i \in 1 .. MaxAsks :
       /\ ask[i].at \in {"unsent", "waiting", "served", "landed"}
       /\ ask[i].kind \in {"reload", "more"} /\ ask[i].q \in Queries
       /\ ask[i].skip \in Nat /\ ask[i].rows \in Seq(Ids) /\ ask[i].more \in BOOLEAN
  /\ crossed \in BOOLEAN

Init ==
  /\ log = {} /\ archive = {} /\ entries = 0
  /\ created = [e \in Ids |-> 0] /\ expired = 0
  /\ job = 0
  /\ worker = [w \in Workers |-> IdleWorker]
  /\ faults = 0
  /\ items = <<>> /\ listed = "" /\ hasMore = FALSE /\ box = "" /\ current = 0
  /\ ask = [i \in 1 .. MaxAsks |-> NoAsk]
  /\ asks = 0
  /\ crossed = FALSE

-----------------------------------------------------------------------------
(* The tables.                                                             *)

\* record(): one insert, of any admin operation (Casework!RecordChange),
\* stamped t, which is not ninety days ago.
Record(t) == /\ entries < MaxEntries
             /\ t > expired
             /\ entries' = entries + 1
             /\ log' = log \cup {entries + 1}
             /\ created' = [created EXCEPT ![entries + 1] = t]
             /\ UNCHANGED <<archive, expired, job, worker, faults, page>>

\* Ninety days go by for the oldest entry still younger.
Expire == /\ \E e \in 1 .. entries : created[e] > expired
          /\ expired' = expired + 1
          /\ UNCHANGED <<log, archive, entries, created, job, worker, faults, page>>

\* The job scheduler's cron.
ScheduleArchive == /\ job = 0
                   /\ job' = Attempts
                   /\ UNCHANGED <<tables, worker, faults, page>>

ArchStep(w, s) == /\ worker' = [worker EXCEPT ![w] = s]
                  /\ UNCHANGED <<entries, created, expired, page>>

\* The mutant of TakeArchive: the cutoff travels in the data of the repeated job.
TakeArchiveOldCutoff(w) ==
  /\ worker[w].pc = "idle" /\ job > 0
  /\ job' = 0
  /\ ArchStep(w, [pc |-> "find", left |-> job, cutoff |-> 0, batch |-> {}])
  /\ UNCHANGED <<log, archive, faults>>

\* archiveExpiredLogs(): the cutoff is taken anew by every run.
TakeArchive(w) ==
  /\ worker[w].pc = "idle" /\ job > 0
  /\ job' = 0
  /\ ArchStep(w, [pc |-> "find", left |-> job, cutoff |-> expired, batch |-> {}])
  /\ UNCHANGED <<log, archive, faults>>

\* The n rows of S that are first by createdAt; nothing orders equal ones.
Least(a, b) == IF a < b THEN a ELSE b
Oldest(S, n) == {B \in SUBSET S : /\ Cardinality(B) = Least(n, Cardinality(S))
                                  /\ \A x \in B, y \in S \ B : created[x] <= created[y]}

\* archiveOneBatch(): the oldest rows before the cutoff.
FindBatch(w) ==
  /\ worker[w].pc = "find"
  /\ \E batch \in Oldest({e \in log : created[e] <= worker[w].cutoff}, BatchSize) :
       ArchStep(w, IF batch = {} THEN IdleWorker
                   ELSE [worker[w] EXCEPT !.pc = "move", !.batch = batch])
  /\ UNCHANGED <<log, archive, job, faults>>

\* The mutant of MoveBatch: the delete repeats the cutoff, not the ids.
MoveBatchByCutoff(w) ==
  LET batch == worker[w].batch IN
  /\ worker[w].pc = "move"
  /\ archive' = archive \cup batch
  /\ log' = {e \in log : created[e] > worker[w].cutoff}
  /\ ArchStep(w, IF Cardinality(batch) < BatchSize THEN IdleWorker
                 ELSE [worker[w] EXCEPT !.pc = "find", !.batch = {}])
  /\ UNCHANGED <<job, faults>>

\* createMany with skipDuplicates and deleteMany of the batch's ids, in one
\* transaction; a full batch asks for the next.
MoveBatch(w) ==
  LET batch == worker[w].batch IN
  /\ worker[w].pc = "move"
  /\ archive' = archive \cup batch
  /\ log' = log \ batch
  /\ ArchStep(w, IF Cardinality(batch) < BatchSize THEN IdleWorker
                 ELSE [worker[w] EXCEPT !.pc = "find", !.batch = {}])
  /\ UNCHANGED <<job, faults>>

\* A statement fails, or the replica goes down and the job is redelivered
\* while it may still be at work: a retry starts over with a new cutoff.  The
\* last attempt's failure goes to AUDIT_ARCHIVE_DLQ and leaves no job.
ArchiveFails(w, gone) ==
  /\ worker[w].pc # "idle" /\ job = 0
  /\ faults < MaxFaults
  /\ faults' = faults + 1
  /\ job' = worker[w].left - 1
  /\ ArchStep(w, IF gone THEN IdleWorker ELSE worker[w])
  /\ UNCHANGED <<log, archive>>

-----------------------------------------------------------------------------
(* The page.                                                               *)

\* search(): newest first by createdAt alone, the page cut after the search.
Newer(e, S) == {x \in S : created[x] > created[e]}
NotOlder(e, S) == {x \in S : created[x] >= created[e]}
At(e, S, place) == /\ Cardinality(Newer(e, S)) < place
                   /\ place <= Cardinality(NotOlder(e, S))
PageLength(S, skip) ==
  IF skip < Cardinality(S) THEN Least(PageSize, Cardinality(S) - skip) ELSE 0
PagesOf(S, skip) ==
  {rows \in [1 .. PageLength(S, skip) -> S] :
     /\ \A i \in DOMAIN rows : At(rows[i], S, skip + i)
     /\ \A i, j \in DOMAIN rows : rows[i] = rows[j] => i = j}

UnderWay(kind) == \E i \in 1 .. asks : /\ ask[i].kind = kind
                                       /\ ask[i].at \in {"waiting", "served"}

\* Both take the search from the box as it stands.
Send(kind, skip) ==
  /\ asks < MaxAsks
  /\ asks' = asks + 1
  /\ ask' = [ask EXCEPT ![asks + 1] = [NoAsk EXCEPT !.at = "waiting", !.kind = kind,
                                                    !.q = box, !.skip = skip]]
  /\ UNCHANGED <<tables, job, worker, faults, items, listed, hasMore, box>>

\* SearchBox: the keys; the reload follows when its timer fires, while the
\* bound leaves one.
Type(q) == /\ box # q /\ asks < MaxAsks
           /\ box' = q
           /\ UNCHANGED <<tables, job, worker, faults, items, listed, hasMore,
                          current, ask, asks, crossed>>

\* reload(): on mount, from the search box's timer, after an operation.
Reload == /\ Send("reload", 0)
          /\ current' = asks + 1
          /\ crossed' = (crossed \/ UnderWay("more"))

\* The mutant of LoadMore: skip is a position, not a count.
LoadMoreSkips == /\ hasMore /\ ~ UnderWay("more")
                 /\ Send("more", Len(items) + 1)
                 /\ crossed' = (crossed \/ UnderWay("reload") \/ box # listed)
                 /\ UNCHANGED current

\* loadMore(): the button is disabled while one is under way, and only then.
LoadMore == /\ hasMore /\ ~ UnderWay("more")
            /\ Send("more", Len(items))
            /\ crossed' = (crossed \/ UnderWay("reload") \/ box # listed)
            /\ UNCHANGED current

Serve(i) ==
  LET hits == Hits(ask[i].q) IN
  /\ ask[i].at = "waiting"
  /\ \E rows \in PagesOf(hits, ask[i].skip) :
       ask' = [ask EXCEPT ![i].at = "served", ![i].rows = rows,
                          ![i].more = ask[i].skip + PageSize < Cardinality(hits)]
  /\ UNCHANGED <<tables, job, worker, faults, items, listed, hasMore, box, current,
                 asks, crossed>>

\* A reload's answer is dropped when it is stale; a page more never is.
Land(i) ==
  LET more  == ask[i].kind = "more"
      fresh == ask[i].kind = "reload" /\ i = current IN
  /\ ask[i].at = "served"
  /\ ask' = [ask EXCEPT ![i] = [NoAsk EXCEPT !.at = "landed"]]
  /\ items' = CASE more -> items \o ask[i].rows [] fresh -> ask[i].rows
                [] OTHER -> items
  /\ listed' = IF fresh THEN ask[i].q ELSE listed
  /\ hasMore' = IF more \/ fresh THEN ask[i].more ELSE hasMore
  /\ UNCHANGED <<tables, job, worker, faults, box, current, asks, crossed>>

\* The catch branch of both: the list stays as it is.
AskFails(i) ==
  /\ ask[i].at = "waiting" /\ faults < MaxFaults
  /\ faults' = faults + 1
  /\ ask' = [ask EXCEPT ![i] = [NoAsk EXCEPT !.at = "landed"]]
  /\ UNCHANGED <<tables, job, worker, items, listed, hasMore, box, current, asks,
                 crossed>>

-----------------------------------------------------------------------------
Next == \/ \E t \in 1 .. MaxTime : Record(t)
        \/ Expire \/ ScheduleArchive
        \/ \E w \in Workers : \/ TakeArchive(w) \/ FindBatch(w) \/ MoveBatch(w)
                              \/ \E gone \in BOOLEAN : ArchiveFails(w, gone)
        \/ \E q \in Queries : Type(q)
        \/ Reload \/ LoadMore
        \/ \E i \in 1 .. MaxAsks : Serve(i) \/ Land(i) \/ AskFails(i)

Spec == Init /\ [][Next]_vars

\* The cron recurs, some worker takes its job, and a job at work goes on.
FairSpec == /\ Spec /\ WF_vars(ScheduleArchive)
            /\ WF_vars(\E w \in Workers : TakeArchive(w))
            /\ \A w \in Workers : WF_vars(FindBatch(w) \/ MoveBatch(w))

-----------------------------------------------------------------------------
(* Properties.                                                             *)

\* Each recorded entry is in one of the two tables, whenever archive jobs
\* fail, are redelivered or overlap (archiveOneBatch).
EntryInOneTable == log \cap archive = {} /\ log \cup archive = 1 .. entries

\* Again and again no expired entry is left outside the archive, failures of a
\* job or of all its attempts notwithstanding (archiveExpiredLogs,
\* registerRepeatableJob).
ExpiredGetsArchived ==
  []<>({e \in 1 .. entries : created[e] <= expired} \subseteq archive)

\* Of the entries committed before one of two neighbouring rows, a list whose
\* Load More never crossed a reload or a search leaves none out that is dated
\* between them, in whatever order stamps commit, and whatever is recorded or
\* archived between its pages (usePaginatedList, search()).
NoEntryBetweenIsMissing ==
  ~ crossed =>
    \A i \in 1 .. Len(items) - 1 :
      \A e \in Hits(listed) :
        e < items[i] \/ e < items[i + 1] =>
          ~ (created[items[i + 1]] < created[e] /\ created[e] < created[items[i]])

\* usePaginatedList: once settled, the rows are those of the applied search.
ListShowsItsQuery ==
  (\A i \in 1 .. MaxAsks : ask[i].at \notin {"waiting", "served"}) =>
    \A i \in 1 .. Len(items) : listed = "" \/ items[i] % 2 = 1

\* NoEntryBetweenIsMissing of entries that commit late or share a createdAt too.
NoEntryMissing ==
  ~ crossed =>
    \A i \in 1 .. Len(items) - 1 :
      \A e \in Hits(listed) \ {items[j] : j \in 1 .. Len(items)} :
        ~ (created[items[i + 1]] <= created[e] /\ created[e] <= created[items[i]])
=============================================================================
