--------------------------- MODULE TicketLifecycle ---------------------------
(***************************************************************************)
(* Support tickets from submission to archive: TicketsController (create   *)
(* with its screenshot, updateStatus), the archive queue, its worker with  *)
(* several jobs at a time on every replica, the ten-minute sweep, and the  *)
(* S3 objects they leave or delete (backend/src/tickets, backend/src/s3).  *)
(*                                                                         *)
(* A ticket has at most one screenshot: a pending object before promotion, *)
(* a permanent one after.  A time stamp is the number of the admin request *)
(* that took it, 0 is null.  Texts are left out.                           *)
(***************************************************************************)
EXTENDS Naturals, FiniteSets

CONSTANTS Tickets,
          Admins,        \* concurrent updateStatus requests
          Workers,       \* concurrent archive jobs, of all replicas
          Attempts,      \* BullMQ attempts of an archive job
          MaxRequests,   \* bound: updateStatus requests
          MaxCrashes     \* bound: requests and jobs cut off by a crash

ASSUME TicketAssumption == /\ Attempts \in Nat \ {0}
                           /\ MaxRequests \in Nat
                           /\ MaxCrashes \in Nat

VARIABLES row,        \* the Ticket table
          archive,    \* the TicketArchive table
          pending,    \* tickets with an object under pending/tickets/
          permanent,  \* tickets with an object under tickets/<id>/
          submit,     \* where create() of each ticket stands
          admin,      \* the updateStatus requests
          jobs,       \* per ticket: attempts left of a waiting archive job
          sweepJob,   \* the scheduler's sweep job
          worker,     \* the archive jobs being processed
          requests, crashes,
          rushed      \* history: tickets resolved while create() was at work

vars == <<row, archive, pending, permanent, submit, admin, jobs, sweepJob,
          worker, requests, crashes, rushed>>

objects == <<pending, permanent>>
queue   == <<jobs, sweepJob>>
bounds  == <<requests, crashes, rushed>>

Stamps == 0 .. MaxRequests
Statuses == {"unresolved", "contacted", "resolved"}
Rows == [status : Statuses \cup {"absent"}, contactedAt : Stamps,
         shot : {"none", "key"}]
NoRow == [status |-> "absent", contactedAt |-> 0, shot |-> "none"]
NewRow == [NoRow EXCEPT !.status = "unresolved"]

NoArchive == [held |-> "no", contactedAt |-> 0, shot |-> "none",
              deleted |-> "no"]
IdleAdmin == [pc |-> "idle", ticket |-> "none", to |-> "unresolved", seen |-> 0,
              now |-> 0]
IdleWorker == [pc |-> "idle", ticket |-> "none", sweep |-> "no", left |-> 0,
               shot |-> "none", seen |-> 0, batch |-> {}]

SomeTicket == Tickets \cup {"none"}

TypeOK ==
  /\ row \in [Tickets -> Rows]
  /\ archive \in [Tickets -> [held : {"no", "yes"}, contactedAt : Stamps,
                              shot : {"none", "key"}, deleted : {"no", "yes"}]]
  /\ pending \subseteq Tickets
  /\ permanent \subseteq Tickets
  /\ submit \in [Tickets -> {"upload", "check", "copy", "unlink", "record",
                             "done"}]
  /\ admin \in [Admins -> [pc : {"idle", "write", "enqueue"},
                           ticket : SomeTicket, to : Statuses, seen : Stamps,
                           now : Stamps]]
  /\ jobs \in [Tickets -> 0 .. Attempts]
  /\ sweepJob \in {"none", "due"}
  /\ worker \in [Workers -> [pc : {"idle", "list", "pick", "read", "upsert",
                                   "object", "stamp", "row"},
                             ticket : SomeTicket, sweep : {"no", "yes"},
                             left : 0 .. Attempts, shot : {"none", "key"},
                             seen : Stamps, batch : SUBSET Tickets]]
  /\ requests \in Stamps
  /\ crashes \in 0 .. MaxCrashes
  /\ rushed \subseteq Tickets

(* The form of /tickets is sent with an uploaded screenshot or without one; *)
(* its texts are left out.                                                 *)
Forms == SUBSET Tickets

Init ==
  /\ row = [t \in Tickets |-> NoRow]
  /\ archive = [t \in Tickets |-> NoArchive]
  /\ pending \in Forms
  /\ permanent = {}
  /\ submit = [t \in Tickets |-> "upload"]
  /\ admin = [a \in Admins |-> IdleAdmin]
  /\ jobs = [t \in Tickets |-> 0]
  /\ sweepJob = "none"
  /\ worker = [w \in Workers |-> IdleWorker]
  /\ requests = 0 /\ crashes = 0
  /\ rushed = {}

-----------------------------------------------------------------------------
(* create(): the row first, then the screenshot's way to its final key.    *)

SubmitStep(t, from, to) ==
  /\ submit[t] = from
  /\ submit' = [submit EXCEPT ![t] = to]
  /\ UNCHANGED <<archive, admin, queue, worker, bounds>>

(* ticket.create: the ticket is live, and visible to admins, from here on. *)
CreateRow(t) ==
  /\ SubmitStep(t, "upload", IF t \in pending THEN "check" ELSE "done")
  /\ row' = [row EXCEPT ![t] = NewRow]
  /\ UNCHANGED objects

(* Size and leading bytes: a bad image is deleted (best effort), and the   *)
(* submission succeeds without it.                                         *)
CheckShot(t) ==
  /\ \/ SubmitStep(t, "check", "copy") /\ UNCHANGED pending
     \/ SubmitStep(t, "check", "done") /\ pending' \in {pending, pending \ {t}}
  /\ UNCHANGED <<row, permanent>>

(* promoteUpload: the copy, then the pending object's deletion. *)
CopyShot(t) ==
  /\ SubmitStep(t, "copy", "unlink")
  /\ permanent' = permanent \cup {t}
  /\ UNCHANGED <<row, pending>>

UnlinkPending(t) ==
  /\ SubmitStep(t, "unlink", "record")
  /\ pending' = pending \ {t}
  /\ UNCHANGED <<row, permanent>>

(* ticket.update by id, which throws when the row is gone by now. *)
RecordShot(t) ==
  /\ SubmitStep(t, "record", "done")
  /\ row' = IF row[t].status = "absent" THEN row
            ELSE [row EXCEPT ![t].shot = "key"]
  /\ UNCHANGED objects

(* An S3 error or a crash anywhere after the row ends the request. *)
SubmitAborts(t) ==
  /\ submit[t] \in {"check", "copy", "unlink", "record"}
  /\ crashes < MaxCrashes
  /\ crashes' = crashes + 1
  /\ submit' = [submit EXCEPT ![t] = "done"]
  /\ UNCHANGED <<row, archive, objects, admin, queue, worker, requests,
                 rushed>>

-----------------------------------------------------------------------------
(* updateStatus(). *)

(* The menu of a listed ticket offers every status, whatever it has by now. *)
StatusMenu(a, t) == admin[a].pc = "idle" /\ row[t].status # "absent"

(* findUnique: contactedAt is computed from what is read here. *)
AdminRead(a, t, s) ==
  /\ StatusMenu(a, t) /\ requests < MaxRequests
  /\ requests' = requests + 1
  /\ admin' = [admin EXCEPT ![a] =
       [pc |-> "write", ticket |-> t, to |-> s, seen |-> row[t].contactedAt,
        now |-> requests + 1]]
  /\ UNCHANGED <<row, archive, objects, submit, queue, worker, crashes, rushed>>

ContactedAt(q) == IF q.to = "contacted" /\ q.seen = 0 THEN q.now ELSE q.seen

(* Mutant: the terminal guard is the earlier read, not the where clause. *)
AdminWriteUnguarded(a) ==
  LET q == admin[a] IN
  /\ q.pc = "write"
  /\ IF row[q.ticket].status # "absent"
     THEN /\ row' = [row EXCEPT ![q.ticket].status = q.to,
                                ![q.ticket].contactedAt = ContactedAt(q)]
          /\ admin' = [admin EXCEPT ![a] = IF q.to = "resolved"
                         THEN [q EXCEPT !.pc = "enqueue"] ELSE IdleAdmin]
          /\ rushed' = IF q.to = "resolved" /\ submit[q.ticket] # "done"
                       THEN rushed \cup {q.ticket} ELSE rushed
     ELSE /\ admin' = [admin EXCEPT ![a] = IdleAdmin]
          /\ UNCHANGED <<row, rushed>>
  /\ UNCHANGED <<archive, objects, submit, queue, worker, requests, crashes>>

(* The updateMany gated on status not resolved; no match is a 409. *)
AdminWrite(a) ==
  LET q == admin[a] IN
  /\ q.pc = "write"
  /\ IF row[q.ticket].status \in {"unresolved", "contacted"}
     THEN /\ row' = [row EXCEPT ![q.ticket].status = q.to,
                                ![q.ticket].contactedAt = ContactedAt(q)]
          /\ admin' = [admin EXCEPT ![a] = IF q.to = "resolved"
                         THEN [q EXCEPT !.pc = "enqueue"] ELSE IdleAdmin]
          /\ rushed' = IF q.to = "resolved" /\ submit[q.ticket] # "done"
                       THEN rushed \cup {q.ticket} ELSE rushed
     ELSE /\ admin' = [admin EXCEPT ![a] = IdleAdmin]
          /\ UNCHANGED <<row, rushed>>
  /\ UNCHANGED <<archive, objects, submit, queue, worker, requests, crashes>>

AdminEnqueue(a) ==
  /\ admin[a].pc = "enqueue"
  /\ jobs' = [jobs EXCEPT ![admin[a].ticket] = Attempts]
  /\ admin' = [admin EXCEPT ![a] = IdleAdmin]
  /\ UNCHANGED <<row, archive, objects, submit, sweepJob, worker, bounds>>

(* Redis unreachable, or a crash: the status stays, the job is never made. *)
AdminAborts(a) ==
  /\ admin[a].pc # "idle" /\ crashes < MaxCrashes
  /\ crashes' = crashes + 1
  /\ admin' = [admin EXCEPT ![a] = IdleAdmin]
  /\ UNCHANGED <<row, archive, objects, submit, queue, worker, requests,
                 rushed>>

-----------------------------------------------------------------------------
(* TicketArchiveWorker and TicketArchiveService. *)

ScheduleSweep ==
  /\ sweepJob = "none"
  /\ sweepJob' = "due"
  /\ UNCHANGED <<row, archive, objects, submit, admin, jobs, worker, bounds>>

TakeJob(w, t) ==
  /\ worker[w].pc = "idle" /\ jobs[t] > 0
  /\ worker' = [worker EXCEPT ![w] = [IdleWorker EXCEPT !.pc = "read",
                                  !.ticket = t, !.left = jobs[t] - 1]]
  /\ jobs' = [jobs EXCEPT ![t] = 0]
  /\ UNCHANGED <<row, archive, objects, submit, admin, sweepJob, bounds>>

TakeSweep(w) ==
  /\ worker[w].pc = "idle" /\ sweepJob = "due"
  /\ sweepJob' = "none"
  /\ worker' = [worker EXCEPT ![w] = [IdleWorker EXCEPT !.pc = "list",
                                                        !.sweep = "yes"]]
  /\ UNCHANGED <<row, archive, objects, submit, admin, jobs, bounds>>

(* archiveAllResolved: one batch holds every resolved ticket. *)
SweepList(w) ==
  /\ worker[w].pc = "list"
  /\ worker' = [worker EXCEPT ![w].pc = "pick", ![w].batch =
                  {t \in Tickets : row[t].status = "resolved"}]
  /\ UNCHANGED <<row, archive, objects, submit, admin, queue, bounds>>

SweepPick(w) ==
  /\ worker[w].pc = "pick"
  /\ \/ /\ worker[w].batch = {}
        /\ worker' = [worker EXCEPT ![w] = IdleWorker]
     \/ \E t \in worker[w].batch :
          worker' = [worker EXCEPT ![w].pc = "read", ![w].ticket = t,
                                   ![w].batch = @ \ {t}]
  /\ UNCHANGED <<row, archive, objects, submit, admin, queue, bounds>>

(* archiveTicket returned. *)
Return(w) ==
  worker' = [worker EXCEPT ![w] = IF worker[w].sweep = "yes"
               THEN [IdleWorker EXCEPT !.pc = "pick", !.sweep = "yes",
                                       !.batch = worker[w].batch]
               ELSE IdleWorker]

(* archiveTicket threw: the job is retried while attempts are left (for    *)
(* the sweep the next schedule comes anyway), else it goes to the DLQ.     *)
JobFails(w) ==
  /\ worker' = [worker EXCEPT ![w] = IdleWorker]
  /\ jobs' = IF worker[w].sweep = "yes" THEN jobs
             ELSE [jobs EXCEPT ![worker[w].ticket] = worker[w].left]
  /\ sweepJob' = IF worker[w].sweep = "yes" THEN "due" ELSE sweepJob

(* Mutant: a ticket that has an archive row counts as archived. *)
ArchReadTrustsArchive(w) ==
  LET t == worker[w].ticket IN
  /\ worker[w].pc = "read"
  /\ IF row[t].status = "resolved" /\ archive[t].held = "no"
     THEN worker' = [worker EXCEPT ![w].pc = "upsert", ![w].shot = row[t].shot,
                                   ![w].seen = row[t].contactedAt]
     ELSE Return(w)
  /\ UNCHANGED <<row, archive, objects, submit, admin, queue, bounds>>

(* Mutant: the live row goes first. *)
ArchReadDeletesFirst(w) ==
  LET t == worker[w].ticket IN
  /\ worker[w].pc = "read"
  /\ IF row[t].status = "resolved"
     THEN /\ worker' = [worker EXCEPT ![w].pc = "upsert",
               ![w].shot = row[t].shot, ![w].seen = row[t].contactedAt]
          /\ row' = [row EXCEPT ![t] = NoRow]
     ELSE Return(w) /\ UNCHANGED row
  /\ UNCHANGED <<archive, objects, submit, admin, queue, bounds>>

(* findUnique: gone or not resolved means nothing to do. *)
ArchRead(w) ==
  LET t == worker[w].ticket IN
  /\ worker[w].pc = "read"
  /\ IF row[t].status = "resolved"
     THEN worker' = [worker EXCEPT ![w].pc = "upsert", ![w].shot = row[t].shot,
                                   ![w].seen = row[t].contactedAt]
     ELSE Return(w)
  /\ UNCHANGED <<row, archive, objects, submit, admin, queue, bounds>>

(* The upsert by originalTicketId: an archive row already there stays. *)
ArchUpsert(w) ==
  LET q == worker[w] IN
  /\ q.pc = "upsert"
  /\ archive' = IF archive[q.ticket].held = "yes" THEN archive
                ELSE [archive EXCEPT ![q.ticket] =
                       [held |-> "yes", contactedAt |-> q.seen,
                        shot |-> q.shot, deleted |-> "no"]]
  /\ worker' = [worker EXCEPT ![w].pc =
                  IF q.shot = "key" THEN "object" ELSE "row"]
  /\ UNCHANGED <<row, objects, submit, admin, queue, bounds>>

(* Mutant: a failing S3 delete is caught, and archiving goes on. *)
ArchObjectCaught(w) ==
  /\ worker[w].pc = "object"
  /\ permanent' \in {permanent, permanent \ {worker[w].ticket}}
  /\ worker' = [worker EXCEPT ![w].pc = "stamp"]
  /\ UNCHANGED <<row, archive, pending, submit, admin, queue, bounds>>

(* deleteObject is idempotent; its failure propagates. *)
ArchObject(w) ==
  /\ worker[w].pc = "object"
  /\ permanent' = permanent \ {worker[w].ticket}
  /\ worker' = [worker EXCEPT ![w].pc = "stamp"]
  /\ UNCHANGED <<row, archive, pending, submit, admin, queue, bounds>>

ArchObjectFails(w) ==
  /\ worker[w].pc = "object" /\ crashes < MaxCrashes
  /\ crashes' = crashes + 1
  /\ JobFails(w)
  /\ UNCHANGED <<row, archive, objects, submit, admin, requests, rushed>>

ArchStamp(w) ==
  /\ worker[w].pc = "stamp"
  /\ archive' = [archive EXCEPT ![worker[w].ticket].deleted = "yes"]
  /\ worker' = [worker EXCEPT ![w].pc = "row"]
  /\ UNCHANGED <<row, objects, submit, admin, queue, bounds>>

(* ticket.delete throws when another job deleted the row before. *)
ArchRow(w) ==
  LET t == worker[w].ticket IN
  /\ worker[w].pc = "row"
  /\ IF row[t].status = "absent"
     THEN JobFails(w) /\ UNCHANGED row
     ELSE /\ row' = [row EXCEPT ![t] = NoRow]
          /\ Return(w)
          /\ UNCHANGED queue
  /\ UNCHANGED <<archive, objects, submit, admin, bounds>>

(* The process dies: BullMQ delivers the stalled job again. *)
WorkerCrashes(w) ==
  /\ worker[w].pc # "idle" /\ crashes < MaxCrashes
  /\ crashes' = crashes + 1
  /\ worker' = [worker EXCEPT ![w] = IdleWorker]
  /\ jobs' = IF worker[w].sweep = "yes" THEN jobs
             ELSE [jobs EXCEPT ![worker[w].ticket] = worker[w].left + 1]
  /\ sweepJob' = IF worker[w].sweep = "yes" THEN "due" ELSE sweepJob
  /\ UNCHANGED <<row, archive, objects, submit, admin, requests, rushed>>

WorkerStep(w) ==
  \/ SweepList(w) \/ SweepPick(w) \/ ArchRead(w) \/ ArchUpsert(w)
  \/ ArchObject(w) \/ ArchStamp(w) \/ ArchRow(w)

SubmitProgress(t) == \/ CreateRow(t) \/ CheckShot(t) \/ CopyShot(t)
                     \/ UnlinkPending(t) \/ RecordShot(t)

Next ==
  \/ \E t \in Tickets : SubmitProgress(t) \/ SubmitAborts(t)
  \/ \E a \in Admins :
       \/ \E t \in Tickets, s \in Statuses : AdminRead(a, t, s)
       \/ AdminWrite(a) \/ AdminEnqueue(a) \/ AdminAborts(a)
  \/ ScheduleSweep
  \/ \E w \in Workers :
       \/ \E t \in Tickets : TakeJob(w, t)
       \/ TakeSweep(w) \/ WorkerStep(w) \/ ArchObjectFails(w)
       \/ WorkerCrashes(w)

Spec == Init /\ [][Next]_vars

(* The scheduler fires, some worker takes the sweep, jobs proceed; crashes *)
(* and S3 errors are bounded, admins and submitters owe nothing.           *)
Fairness ==
  /\ WF_vars(ScheduleSweep)
  /\ WF_vars(\E w \in Workers : TakeSweep(w))
  /\ \A w \in Workers : WF_vars(WorkerStep(w))

FairSpec == Spec /\ Fairness

-----------------------------------------------------------------------------
(* Properties. *)

(* "there is no path back": a resolved ticket stays resolved until its row *)
(* is archived away, with status changes of several admins in flight.      *)
ResolvedIsTerminal ==
  [][\A t \in Tickets : row[t].status = "resolved"
                        => row'[t].status \in {"resolved", "absent"}]_vars

(* "never lose data": wherever a job stops, a submitted ticket is in the   *)
(* live table or in the archive.                                           *)
NoTicketLost ==
  \A t \in Tickets : submit[t] # "upload" /\ row[t].status = "absent"
                     => archive[t].held = "yes"

(* "can never orphan an S3 object": once a ticket is archived, the         *)
(* screenshot its archive row names is deleted and stamped so, through S3  *)
(* errors, crashes and two jobs on one ticket.  It holds for the tickets   *)
(* resolved after create() was done with them.                             *)
ArchivedShotIsGone ==
  \A t \in Tickets \ rushed :
    row[t].status = "absent" /\ archive[t].shot = "key"
    => t \notin permanent /\ archive[t].deleted = "yes"

(* Every resolved ticket ends up archived, though its own job may never    *)
(* have been added or have run out of attempts: the sweep is a backstop.   *)
ResolvedGetsArchived ==
  \A t \in Tickets : row[t].status = "resolved" ~>
                       row[t].status = "absent" /\ archive[t].held = "yes"

-----------------------------------------------------------------------------
(* Statements of the documentation that the code refutes. *)

(* contactedAt is set the first time and "never cleared afterward". *)
ContactedAtKept ==
  [][\A t \in Tickets :
       row[t].contactedAt # 0 /\ row'[t].status # "absent"
       => row'[t].contactedAt = row[t].contactedAt]_vars

(* "can never orphan an S3 object": once a ticket is archived and its      *)
(* submission over, no permanent object of it is left.                     *)
NoOrphanedShot ==
  \A t \in Tickets : submit[t] = "done" /\ row[t].status = "absent"
                     => t \notin permanent
=============================================================================
