------------------------ MODULE TicketLifecycleProofs ------------------------
(***************************************************************************)
(* Proofs about TicketLifecycle for any number of tickets, admins, archive *)
(* jobs, attempts and crashes: its types, that no ticket is lost, that     *)
(* resolved is terminal, and that an archived screenshot is gone.          *)
(*                                                                         *)
(* What several jobs on one ticket do to each other is settled by two      *)
(* facts: a ticket that is Over stays so (nothing brings it back), and one *)
(* that was Over only after its submission has a row no one changes but to *)
(* delete it, so that all jobs read the same screenshot.                   *)
(***************************************************************************)
EXTENDS TicketLifecycle, TLAPS

Archiving == {"upsert", "object", "stamp", "row"}

(* Requests and jobs at work name a ticket; a taken job has used up an     *)
(* attempt.                                                                *)
Employed ==
  /\ \A a \in Admins : admin[a].pc # "idle" => admin[a].ticket \in Tickets
  /\ \A w \in Workers : worker[w].pc \in Archiving \cup {"read"}
                        => worker[w].ticket \in Tickets
  /\ \A w \in Workers : worker[w].left < Attempts

Over(t) == submit[t] # "upload" /\ row[t].status \in {"resolved", "absent"}

NoRowYet == \A t \in Tickets : submit[t] = "upload" => row[t].status = "absent"

(* Only a ticket that is over has an archive row or a job past its read. *)
ArchivedIsOver ==
  /\ \A t \in Tickets : archive[t].held = "yes" => Over(t)
  /\ \A t \in Tickets : archive[t].held = "no" => archive[t].shot = "none"
  /\ \A w \in Workers : worker[w].pc \in Archiving => Over(worker[w].ticket)
  /\ \A w \in Workers : worker[w].pc \in Archiving \ {"upsert"}
                        => archive[worker[w].ticket].held = "yes"

(* A submission is through before its ticket is over, but for the rushed. *)
OverIsDone == \A t \in Tickets \ rushed : Over(t) => submit[t] = "done"

SameShot ==
  \A t \in Tickets \ rushed : row[t].status = "resolved" =>
    /\ archive[t].held = "yes" => archive[t].shot = row[t].shot
    /\ \A w \in Workers : worker[w].pc \in Archiving /\ worker[w].ticket = t
                          => worker[w].shot = row[t].shot

(* How far a job is with the object of its ticket. *)
ObjectGone ==
  \A w \in Workers : worker[w].ticket \notin rushed =>
    /\ worker[w].pc = "stamp" => worker[w].ticket \notin permanent
    /\ worker[w].pc = "row" /\ worker[w].shot = "key"
       => /\ worker[w].ticket \notin permanent
          /\ archive[worker[w].ticket].deleted = "yes"

AInv == /\ NoRowYet /\ ArchivedIsOver /\ NoTicketLost /\ OverIsDone
        /\ SameShot /\ ObjectGone /\ ArchivedShotIsGone

IInv == TypeOK /\ Employed /\ AInv

-----------------------------------------------------------------------------
(* One job, or one request, moves. *)

WorkerStates ==
  [pc : {"idle", "list", "pick", "read", "upsert", "object", "stamp", "row"},
   ticket : SomeTicket, sweep : {"no", "yes"}, left : 0 .. Attempts,
   shot : {"none", "key"}, seen : Stamps, batch : SUBSET Tickets]

AdminStates == [pc : {"idle", "write", "enqueue"}, ticket : SomeTicket,
                to : Statuses, seen : Stamps, now : Stamps]

Archives == [held : {"no", "yes"}, contactedAt : Stamps,
             shot : {"none", "key"}, deleted : {"no", "yes"}]

(* A job that may take the place of w's. *)
Fit(s) == /\ s \in WorkerStates
          /\ s.left < Attempts
          /\ s.pc \in Archiving \cup {"read"} => s.ticket \in Tickets

WorkerMoves(w, s) == /\ Fit(s)
                     /\ worker' = [worker EXCEPT ![w] = s]

AdminMoves(a, q) == /\ q \in AdminStates
                    /\ q.pc # "idle" => q.ticket \in Tickets
                    /\ admin' = [admin EXCEPT ![a] = q]

LEMMA BoundsOK == /\ Attempts \in Nat /\ Attempts > 0
                  /\ MaxRequests \in Nat /\ MaxCrashes \in Nat
                  /\ Stamps = 0 .. MaxRequests /\ 0 \in Stamps
  BY TicketAssumption DEF Stamps

LEMMA IdleWorkerFits == Fit(IdleWorker) /\ IdleWorker.pc = "idle"
  BY BoundsOK DEF Fit, IdleWorker, WorkerStates, SomeTicket, Archiving

LEMMA IdleAdminFits == IdleAdmin \in AdminStates /\ IdleAdmin.pc = "idle"
  BY BoundsOK DEF IdleAdmin, AdminStates, SomeTicket, Statuses

LEMMA WorkersFit ==
  ASSUME TypeOK, Employed, NEW w \in Workers
  PROVE  Fit(worker[w])
  BY DEF TypeOK, Employed, Fit, WorkerStates

LEMMA WorkerMoved ==
  ASSUME TypeOK, Employed, NEW w \in Workers, NEW s, WorkerMoves(w, s)
  PROVE  /\ worker' \in [Workers -> WorkerStates]
         /\ \A v \in Workers : Fit(worker[v]')
         /\ worker'[w] = s
         /\ \A v \in Workers \ {w} : worker'[v] = worker[v]
  <1>1. worker \in [Workers -> WorkerStates]
    BY DEF TypeOK, WorkerStates
  <1>2. \A v \in Workers : Fit(worker[v])
    BY WorkersFit
  <1>3. worker' \in [Workers -> WorkerStates] /\ worker'[w] = s
        /\ \A v \in Workers \ {w} : worker'[v] = worker[v]
    BY <1>1 DEF WorkerMoves, Fit
  <1>4. \A v \in Workers : Fit(worker'[v])
    BY <1>2, <1>3 DEF WorkerMoves
  <1> QED BY <1>3, <1>4

LEMMA AdminMoved ==
  ASSUME TypeOK, Employed, NEW a \in Admins, NEW q, AdminMoves(a, q)
  PROVE  /\ admin' \in [Admins -> AdminStates]
         /\ \A b \in Admins : admin'[b].pc # "idle" => admin'[b].ticket \in Tickets
  <1>1. admin \in [Admins -> AdminStates]
    BY DEF TypeOK, AdminStates
  <1> QED BY <1>1 DEF AdminMoves, Employed

(* A job that is not past its read when it has moved. *)
Outside(w) == \E s : WorkerMoves(w, s) /\ s.pc \notin Archiving

LEMMA ReturnIsOutside ==
  ASSUME TypeOK, Employed, NEW w \in Workers, Return(w)
  PROVE  Outside(w)
  <1> DEFINE s == [IdleWorker EXCEPT !.pc = "pick", !.sweep = "yes",
                                     !.batch = worker[w].batch]
  <1>1. worker[w].batch \in SUBSET Tickets
    BY DEF TypeOK
  <1>2. Fit(s) /\ s.pc = "pick"
    BY <1>1, BoundsOK, IdleWorkerFits DEF Fit, WorkerStates, SomeTicket, Archiving
  <1>3. WorkerMoves(w, s) \/ WorkerMoves(w, IdleWorker)
    BY <1>2, IdleWorkerFits DEF Return, WorkerMoves
  <1> QED BY <1>2, <1>3, IdleWorkerFits DEF Outside, Archiving

LEMMA JobFailsIsOutside ==
  ASSUME TypeOK, Employed, NEW w \in Workers, JobFails(w)
  PROVE  /\ Outside(w)
         /\ jobs' \in [Tickets -> 0 .. Attempts] /\ sweepJob' \in {"none", "due"}
  <1>1. WorkerMoves(w, IdleWorker)
    BY IdleWorkerFits DEF JobFails, WorkerMoves
  <1>2. worker[w].left \in 0 .. Attempts
    BY DEF TypeOK
  <1>3. jobs' \in [Tickets -> 0 .. Attempts] /\ sweepJob' \in {"none", "due"}
    BY <1>2 DEF JobFails, TypeOK
  <1> QED BY <1>1, <1>3, IdleWorkerFits DEF Outside, Archiving

LEMMA TakeJobIsOutside ==
  ASSUME TypeOK, Employed, NEW w \in Workers, NEW t \in Tickets, TakeJob(w, t)
  PROVE  Outside(w) /\ jobs' \in [Tickets -> 0 .. Attempts]
  <1> DEFINE s == [IdleWorker EXCEPT !.pc = "read", !.ticket = t,
                                     !.left = jobs[t] - 1]
  <1>1. jobs[t] \in 0 .. Attempts /\ jobs[t] > 0
    BY DEF TypeOK, TakeJob
  <1>0. jobs[t] - 1 \in 0 .. Attempts /\ jobs[t] - 1 < Attempts
    BY <1>1, BoundsOK
  <1>2. Fit(s) /\ s.pc = "read"
    BY <1>0, IdleWorkerFits DEF Fit, WorkerStates, SomeTicket, Archiving
  <1>3. WorkerMoves(w, s)
    BY <1>2 DEF TakeJob, WorkerMoves
  <1>4. jobs' \in [Tickets -> 0 .. Attempts]
    BY BoundsOK DEF TakeJob, TypeOK
  <1> QED BY <1>2, <1>3, <1>4 DEF Outside, Archiving

LEMMA SweepIsOutside ==
  ASSUME TypeOK, Employed, NEW w \in Workers,
         TakeSweep(w) \/ SweepList(w) \/ SweepPick(w)
  PROVE  Outside(w)
  <1> USE DEF Outside, Archiving
  <1>f. Fit(worker[w])
    BY WorkersFit
  <1>w. worker \in [Workers -> WorkerStates]
    BY DEF TypeOK, WorkerStates
  <1>1. CASE TakeSweep(w)
    <2> DEFINE s == [IdleWorker EXCEPT !.pc = "list", !.sweep = "yes"]
    <2>1. Fit(s) /\ s.pc = "list"
      BY BoundsOK, IdleWorkerFits DEF Fit, WorkerStates, SomeTicket
    <2>2. WorkerMoves(w, s)
      BY <1>1, <2>1 DEF TakeSweep, WorkerMoves
    <2> QED BY <2>1, <2>2
  <1>2. CASE SweepList(w)
    <2> DEFINE b == {t \in Tickets : row[t].status = "resolved"}
               s == [worker[w] EXCEPT !.pc = "pick", !.batch = b]
    <2>1. Fit(s) /\ s.pc = "pick"
      BY <1>f DEF Fit, WorkerStates
    <2>2. worker' = [worker EXCEPT ![w] = s]
      BY <1>2, <1>w DEF SweepList
    <2> QED BY <2>1, <2>2 DEF WorkerMoves
  <1>3. CASE SweepPick(w)
    <2>1. CASE worker' = [worker EXCEPT ![w] = IdleWorker]
      BY <2>1, IdleWorkerFits DEF WorkerMoves
    <2>2. ASSUME NEW t \in worker[w].batch,
                 worker' = [worker EXCEPT ![w].pc = "read", ![w].ticket = t,
                                          ![w].batch = @ \ {t}]
          PROVE  Outside(w)
      <3> DEFINE s == [worker[w] EXCEPT !.pc = "read", !.ticket = t,
                                        !.batch = worker[w].batch \ {t}]
      <3>1. t \in Tickets
        BY <1>f DEF Fit, WorkerStates
      <3>2. Fit(s) /\ s.pc = "read"
        BY <1>f, <3>1 DEF Fit, WorkerStates, SomeTicket
      <3>3. worker' = [worker EXCEPT ![w] = s]
        BY <2>2, <1>w
      <3> QED BY <3>2, <3>3 DEF WorkerMoves
    <2> QED BY <1>3, <2>1, <2>2 DEF SweepPick
  <1> QED BY <1>1, <1>2, <1>3

LEMMA CrashIsOutside ==
  ASSUME TypeOK, Employed, NEW w \in Workers, WorkerCrashes(w)
  PROVE  /\ Outside(w)
         /\ jobs' \in [Tickets -> 0 .. Attempts] /\ sweepJob' \in {"none", "due"}
  <1>1. WorkerMoves(w, IdleWorker)
    BY IdleWorkerFits DEF WorkerCrashes, WorkerMoves
  <1>2. worker[w].left \in 0 .. Attempts /\ worker[w].left < Attempts
    BY WorkersFit DEF Fit, WorkerStates
  <1>3. worker[w].left + 1 \in 0 .. Attempts
    BY <1>2, BoundsOK
  <1>4. jobs' \in [Tickets -> 0 .. Attempts] /\ sweepJob' \in {"none", "due"}
    BY <1>3 DEF WorkerCrashes, TypeOK
  <1> QED BY <1>1, <1>4, IdleWorkerFits DEF Outside, Archiving

(* The steps of a job between its read and the deletion of the row. *)
Onward(w, s) == WorkerMoves(w, s) /\ s.pc \in Archiving
                /\ s.ticket = worker[w].ticket

LEMMA ReadMoves ==
  ASSUME TypeOK, Employed, NEW w \in Workers, ArchRead(w)
  PROVE  \/ Outside(w)
         \/ \E s : /\ Onward(w, s) /\ s.pc = "upsert"
                   /\ row[s.ticket].status = "resolved"
                   /\ s.shot = row[s.ticket].shot
  <1>f. Fit(worker[w]) /\ worker[w].pc = "read" /\ worker[w].ticket \in Tickets
    BY WorkersFit DEF Fit, ArchRead
  <1>w. worker \in [Workers -> WorkerStates]
    BY DEF TypeOK, WorkerStates
  <1> DEFINE t == worker[w].ticket
             s == [worker[w] EXCEPT !.pc = "upsert", !.shot = row[t].shot,
                                    !.seen = row[t].contactedAt]
  <1>1. CASE row[t].status = "resolved"
    <2>1. row[t].shot \in {"none", "key"} /\ row[t].contactedAt \in Stamps
      BY <1>f DEF TypeOK, Rows
    <2>2. Fit(s) /\ s.pc = "upsert" /\ s.ticket = t /\ s.shot = row[t].shot
      BY <1>f, <2>1 DEF Fit, WorkerStates
    <2>3. worker' = [worker EXCEPT ![w] = s]
      BY <1>1, <1>w DEF ArchRead
    <2>4. Onward(w, s)
      BY <2>2, <2>3 DEF Onward, WorkerMoves, Archiving
    <2> QED BY <1>1, <2>2, <2>4
  <1>2. CASE row[t].status # "resolved"
    BY <1>2, ReturnIsOutside DEF ArchRead
  <1> QED BY <1>1, <1>2

LEMMA PcMoves ==
  ASSUME TypeOK, Employed, NEW w \in Workers, worker[w].pc \in Archiving,
         NEW pc \in Archiving, worker' = [worker EXCEPT ![w].pc = pc]
  PROVE  \E s : Onward(w, s) /\ s.pc = pc /\ s.shot = worker[w].shot
  <1>f. Fit(worker[w])
    BY WorkersFit
  <1> DEFINE s == [worker[w] EXCEPT !.pc = pc]
  <1>1. Fit(s) /\ s.pc = pc /\ s.ticket = worker[w].ticket /\ s.shot = worker[w].shot
    BY <1>f DEF Fit, WorkerStates, Archiving
  <1>2. worker' = [worker EXCEPT ![w] = s]
    BY DEF TypeOK
  <1> QED BY <1>1, <1>2 DEF Onward, WorkerMoves

-----------------------------------------------------------------------------
(* Types. *)

LEMMA InitTypes == Init => TypeOK /\ Employed
  <1> SUFFICES ASSUME Init PROVE TypeOK /\ Employed
    OBVIOUS
  <1>1. NoRow \in Rows
    BY BoundsOK DEF NoRow, Rows
  <1>2. NoArchive \in Archives
    BY BoundsOK DEF NoArchive, Archives
  <1>3. TypeOK
    BY <1>1, <1>2, IdleWorkerFits, IdleAdminFits, BoundsOK
    DEF Init, Forms, TypeOK, Fit, WorkerStates, AdminStates, Archives
  <1>4. Employed
    BY IdleWorkerFits, IdleAdminFits DEF Init, Forms, Employed, Fit, Archiving
  <1> QED BY <1>3, <1>4

(* A step that leaves the jobs and the requests alone. *)
LEMMA StillEmployed ==
  ASSUME Employed, UNCHANGED <<admin, worker>>
  PROVE  Employed'
  BY DEF Employed

LEMMA WorkerTypes ==
  ASSUME TypeOK, Employed, NEW w \in Workers, NEW s, WorkerMoves(w, s),
         UNCHANGED admin
  PROVE  Employed' /\ worker' \in [Workers -> WorkerStates]
  BY WorkerMoved DEF Employed, Fit

LEMMA AdminTypes ==
  ASSUME TypeOK, Employed, NEW a \in Admins, NEW q, AdminMoves(a, q),
         UNCHANGED worker
  PROVE  Employed' /\ admin' \in [Admins -> AdminStates]
  BY AdminMoved DEF Employed

LEMMA SubmitTypes ==
  ASSUME TypeOK, Employed, NEW t \in Tickets, SubmitProgress(t) \/ SubmitAborts(t)
  PROVE  TypeOK' /\ Employed'
  <1>0. NewRow \in Rows
    BY BoundsOK DEF NewRow, NoRow, Rows, Statuses
  <1>1. UNCHANGED <<admin, worker, jobs, sweepJob, requests, archive, rushed>>
    BY DEF SubmitProgress, SubmitAborts, SubmitStep, CreateRow, CheckShot,
           CopyShot, UnlinkPending, RecordShot, queue, bounds
  <1>2. Employed'
    BY <1>1, StillEmployed
  <1>3. row' \in [Tickets -> Rows]
    <2>1. CASE RecordShot(t)
      <3>1. [row[t] EXCEPT !.shot = "key"] \in Rows
        BY SMTT(30) DEF TypeOK, Rows
      <3>2. row' = row \/ row' = [row EXCEPT ![t] = [row[t] EXCEPT !.shot = "key"]]
        BY <2>1 DEF RecordShot, TypeOK
      <3> QED BY <3>1, <3>2 DEF TypeOK
    <2> QED BY <1>0, <2>1 DEF TypeOK, SubmitProgress, SubmitAborts, CreateRow,
                              CheckShot, CopyShot, UnlinkPending
  <1>4. submit' \in [Tickets -> {"upload", "check", "copy", "unlink", "record",
                                 "done"}]
    BY DEF TypeOK, SubmitProgress, SubmitAborts, SubmitStep, CreateRow,
           CheckShot, CopyShot, UnlinkPending, RecordShot
  <1>5. pending' \subseteq Tickets /\ permanent' \subseteq Tickets
    BY DEF TypeOK, SubmitProgress, SubmitAborts, CreateRow, CheckShot,
           CopyShot, UnlinkPending, RecordShot, objects
  <1>6. crashes' \in 0 .. MaxCrashes
    BY BoundsOK DEF TypeOK, SubmitProgress, SubmitAborts, SubmitStep, CreateRow,
           CheckShot, CopyShot, UnlinkPending, RecordShot, bounds
  <1> QED BY <1>1, <1>2, <1>3, <1>4, <1>5, <1>6 DEF TypeOK

LEMMA AdminReadTypes ==
  ASSUME TypeOK, Employed, NEW a \in Admins, NEW t \in Tickets,
         NEW s \in Statuses, AdminRead(a, t, s)
  PROVE  TypeOK' /\ Employed'
  <1> DEFINE q == [pc |-> "write", ticket |-> t, to |-> s,
                   seen |-> row[t].contactedAt, now |-> requests + 1]
  <1>1. row[t].contactedAt \in Stamps /\ requests + 1 \in Stamps
    BY BoundsOK DEF TypeOK, Rows, AdminRead, StatusMenu
  <1>2. AdminMoves(a, q)
    BY <1>1 DEF AdminMoves, AdminStates, SomeTicket, AdminRead, StatusMenu
  <1> QED BY <1>1, <1>2, AdminTypes
          DEF TypeOK, AdminStates, AdminRead, StatusMenu, objects, queue

LEMMA AdminIdleMoves ==
  ASSUME NEW a \in Admins, admin' = [admin EXCEPT ![a] = IdleAdmin]
  PROVE  AdminMoves(a, IdleAdmin)
  BY IdleAdminFits DEF AdminMoves

(* What an admin's write does to the ticket, once the guard let it pass. *)
WriteOf(q) == [row[q.ticket] EXCEPT !.status = q.to, !.contactedAt = ContactedAt(q)]

LEMMA AdminWriteTypes ==
  ASSUME TypeOK, Employed, NEW a \in Admins, AdminWrite(a)
  PROVE  TypeOK' /\ Employed'
  <1> DEFINE q == admin[a]
             d == [q EXCEPT !.pc = "enqueue"]
  <1>1. q \in AdminStates /\ q.ticket \in Tickets
    BY DEF TypeOK, AdminStates, Employed, AdminWrite
  <1>2. d \in AdminStates /\ d.ticket = q.ticket
    BY <1>1 DEF AdminStates
  <1>3. \E r : AdminMoves(a, r)
    <2>1. admin' = [admin EXCEPT ![a] = d] \/ admin' = [admin EXCEPT ![a] = IdleAdmin]
      BY DEF AdminWrite
    <2> HIDE DEF d
    <2> QED BY <1>1, <1>2, <2>1, AdminIdleMoves DEF AdminMoves
  <1>4. WriteOf(q) \in Rows
    <2>1. row[q.ticket] \in Rows
      BY <1>1 DEF TypeOK
    <2>2. ContactedAt(q) \in Stamps
      BY <1>1 DEF ContactedAt, AdminStates
    <2> QED BY <1>1, <2>1, <2>2 DEF WriteOf, Rows, AdminStates
  <1>5. row' = row \/ row' = [row EXCEPT ![q.ticket] = WriteOf(q)]
    BY ZenonT(30) DEF AdminWrite, WriteOf, TypeOK
  <1>6. row' \in [Tickets -> Rows]
    BY <1>1, <1>4, <1>5 DEF TypeOK
  <1>7. rushed' \subseteq Tickets
    BY <1>1 DEF AdminWrite, TypeOK
  <1>8. UNCHANGED <<archive, pending, permanent, submit, jobs, sweepJob, worker,
                    requests, crashes>>
    BY DEF AdminWrite, objects, queue
  <1>9. Employed' /\ admin' \in [Admins -> AdminStates]
    BY <1>3, <1>8, AdminTypes
  <1> QED BY <1>6, <1>7, <1>8, <1>9 DEF TypeOK, AdminStates

LEMMA AdminEndTypes ==
  ASSUME TypeOK, Employed, NEW a \in Admins, AdminEnqueue(a) \/ AdminAborts(a)
  PROVE  TypeOK' /\ Employed'
  <1>1. admin' = [admin EXCEPT ![a] = IdleAdmin] /\ UNCHANGED worker
    BY DEF AdminEnqueue, AdminAborts
  <1>2. Employed' /\ admin' \in [Admins -> AdminStates]
    BY <1>1, AdminIdleMoves, AdminTypes
  <1>3. jobs' \in [Tickets -> 0 .. Attempts]
    <2>1. jobs \in [Tickets -> 0 .. Attempts] /\ Attempts \in 0 .. Attempts
      BY BoundsOK DEF TypeOK
    <2>2. \/ jobs' = [jobs EXCEPT ![admin[a].ticket] = Attempts]
          \/ jobs' = jobs
      BY DEF AdminEnqueue, AdminAborts, queue
    <2> QED BY <2>1, <2>2
  <1>4. crashes' \in 0 .. MaxCrashes
    BY BoundsOK DEF TypeOK, AdminEnqueue, AdminAborts, bounds
  <1> QED BY <1>1, <1>2, <1>3, <1>4
          DEF TypeOK, AdminStates, AdminEnqueue, AdminAborts, objects, queue, bounds

LEMMA WorkerOnward ==
  ASSUME TypeOK, Employed, NEW w \in Workers,
         ArchRead(w) \/ ArchUpsert(w) \/ ArchObject(w) \/ ArchStamp(w)
  PROVE  Outside(w) \/ \E s : Onward(w, s)
  <1>1. CASE ArchRead(w)
    BY <1>1, ReadMoves
  <1>2. CASE ArchUpsert(w)
    <2> DEFINE pc == IF worker[w].shot = "key" THEN "object" ELSE "row"
    <2>1. /\ worker[w].pc \in Archiving /\ pc \in Archiving
          /\ worker' = [worker EXCEPT ![w].pc = pc]
      BY <1>2 DEF ArchUpsert, Archiving
    <2> HIDE DEF pc
    <2> QED BY <2>1, PcMoves
  <1>3. CASE ArchObject(w)
    <2>1. /\ worker[w].pc \in Archiving
          /\ worker' = [worker EXCEPT ![w].pc = "stamp"]
      BY <1>3 DEF ArchObject, Archiving
    <2> QED BY <2>1, PcMoves DEF Archiving
  <1>4. CASE ArchStamp(w)
    <2>1. /\ worker[w].pc \in Archiving
          /\ worker' = [worker EXCEPT ![w].pc = "row"]
      BY <1>4 DEF ArchStamp, Archiving
    <2> QED BY <2>1, PcMoves DEF Archiving
  <1> QED BY <1>1, <1>2, <1>3, <1>4

LEMMA RowIsOutside ==
  ASSUME TypeOK, Employed, NEW w \in Workers, ArchRow(w)
  PROVE  /\ Outside(w)
         /\ jobs' \in [Tickets -> 0 .. Attempts] /\ sweepJob' \in {"none", "due"}
  BY ReturnIsOutside, JobFailsIsOutside DEF ArchRow, queue, TypeOK

LEMMA JobTypes ==
  ASSUME TypeOK, Employed, NEW w \in Workers,
         \/ \E t \in Tickets : TakeJob(w, t)
         \/ TakeSweep(w) \/ WorkerStep(w) \/ ArchObjectFails(w)
         \/ WorkerCrashes(w)
  PROVE  TypeOK' /\ Employed'
  <1>1. UNCHANGED <<submit, admin, pending, requests, rushed>>
    BY DEF TakeJob, TakeSweep, WorkerStep, SweepList, SweepPick, ArchRead,
           ArchUpsert, ArchObject, ArchStamp, ArchRow, ArchObjectFails,
           WorkerCrashes, objects, bounds
  <1>2. \E s : WorkerMoves(w, s)
    BY TakeJobIsOutside, SweepIsOutside, WorkerOnward, RowIsOutside,
       JobFailsIsOutside, CrashIsOutside
    DEF WorkerStep, Outside, Onward, ArchObjectFails
  <1>3. Employed' /\ worker' \in [Workers -> WorkerStates]
    BY <1>1, <1>2, WorkerTypes
  <1>4. jobs' \in [Tickets -> 0 .. Attempts] /\ sweepJob' \in {"none", "due"}
    <2>1. CASE \E t \in Tickets : TakeJob(w, t)
      BY <2>1, TakeJobIsOutside DEF TakeJob, TypeOK
    <2>2. CASE ArchRow(w) \/ ArchObjectFails(w) \/ WorkerCrashes(w)
      BY <2>2, RowIsOutside, JobFailsIsOutside, CrashIsOutside DEF ArchObjectFails
    <2>3. CASE \/ TakeSweep(w) \/ SweepList(w) \/ SweepPick(w) \/ ArchRead(w)
               \/ ArchUpsert(w) \/ ArchObject(w) \/ ArchStamp(w)
      BY <2>3 DEF TypeOK, TakeSweep, SweepList, SweepPick, ArchRead, ArchUpsert,
                  ArchObject, ArchStamp, queue
    <2> QED BY <2>1, <2>2, <2>3 DEF WorkerStep
  <1>5. row' \in [Tickets -> Rows]
    <2>1. NoRow \in Rows
      BY BoundsOK DEF NoRow, Rows
    <2> QED BY <2>1 DEF TypeOK, TakeJob, TakeSweep, WorkerStep, SweepList,
               SweepPick, ArchRead, ArchUpsert, ArchObject, ArchStamp, ArchRow,
               ArchObjectFails, WorkerCrashes
  <1>6. archive' \in [Tickets -> Archives]
    <2>0. archive \in [Tickets -> Archives]
      BY DEF TypeOK, Archives
    <2>1. CASE ArchUpsert(w)
      <3> DEFINE q == worker[w]
                 r == [held |-> "yes", contactedAt |-> q.seen, shot |-> q.shot,
                       deleted |-> "no"]
      <3>1. r \in Archives
        BY WorkersFit DEF Fit, WorkerStates, Archives
      <3>2. archive' = archive \/ archive' = [archive EXCEPT ![q.ticket] = r]
        BY <2>1 DEF ArchUpsert
      <3> HIDE DEF r
      <3> QED BY <2>0, <3>1, <3>2
    <2>2. CASE ArchStamp(w)
      <3>1. worker[w].ticket \in Tickets
        BY <2>2 DEF Employed, ArchStamp, Archiving
      <3>2. [archive[worker[w].ticket] EXCEPT !.deleted = "yes"] \in Archives
        BY <2>0, <3>1 DEF Archives
      <3>3. archive' = [archive EXCEPT ![worker[w].ticket] =
                          [archive[worker[w].ticket] EXCEPT !.deleted = "yes"]]
        BY <2>0, <2>2 DEF ArchStamp
      <3> QED BY <2>0, <3>2, <3>3
    <2> QED BY <2>0, <2>1, <2>2 DEF TakeJob, TakeSweep, WorkerStep, SweepList,
               SweepPick, ArchRead, ArchObject, ArchRow, ArchObjectFails,
               WorkerCrashes
  <1>7. permanent' \subseteq Tickets
    BY DEF TypeOK, TakeJob, TakeSweep, WorkerStep, SweepList, SweepPick,
           ArchRead, ArchUpsert, ArchObject, ArchStamp, ArchRow,
           ArchObjectFails, WorkerCrashes, objects
  <1>8. crashes' \in 0 .. MaxCrashes
    <2>1. CASE ArchObjectFails(w) \/ WorkerCrashes(w)
      BY <2>1, BoundsOK DEF TypeOK, ArchObjectFails, WorkerCrashes
    <2> QED BY <2>1 DEF TypeOK, TakeJob, TakeSweep, WorkerStep, SweepList,
               SweepPick, ArchRead, ArchUpsert, ArchObject, ArchStamp, ArchRow,
               bounds
  <1> QED BY <1>1, <1>3, <1>4, <1>5, <1>6, <1>7, <1>8
          DEF TypeOK, WorkerStates, Archives

LEMMA TypesKept ==
  ASSUME TypeOK, Employed, [Next]_vars
  PROVE  TypeOK' /\ Employed'
  <1>1. CASE \E t \in Tickets : SubmitProgress(t) \/ SubmitAborts(t)
    BY <1>1, SubmitTypes
  <1>2. CASE \E a \in Admins :
               \/ \E t \in Tickets, s \in Statuses : AdminRead(a, t, s)
               \/ AdminWrite(a) \/ AdminEnqueue(a) \/ AdminAborts(a)
    BY <1>2, AdminReadTypes, AdminWriteTypes, AdminEndTypes
  <1>3. CASE ScheduleSweep
    BY <1>3 DEF ScheduleSweep, TypeOK, Employed, objects, bounds
  <1>4. CASE \E w \in Workers :
               \/ \E t \in Tickets : TakeJob(w, t)
               \/ TakeSweep(w) \/ WorkerStep(w) \/ ArchObjectFails(w)
               \/ WorkerCrashes(w)
    BY <1>4, JobTypes
  <1>5. CASE UNCHANGED vars
    BY <1>5 DEF vars, objects, queue, bounds, TypeOK, Employed
  <1> QED BY <1>1, <1>2, <1>3, <1>4, <1>5 DEF Next

(* All variables keep their types, and requests and jobs at work (the      *)
(* updateStatus handler, the archive worker) name tickets that exist.      *)
THEOREM TicketTypeCorrect == Spec => []TypeOK
  <1>1. TypeOK /\ Employed /\ [Next]_vars => (TypeOK /\ Employed)'
    BY TypesKept
  <1>2. Spec => [](TypeOK /\ Employed)
    BY InitTypes, <1>1, PTL DEF Spec
  <1> QED BY <1>2, PTL

-----------------------------------------------------------------------------
(* Safety.  A step is either a submission's, an admin's write, or a job's. *)

LEMMA InitSafe == Init => AInv
  BY IdleWorkerFits
  DEF Init, Forms, AInv, NoRowYet, ArchivedIsOver, NoTicketLost, OverIsDone, SameShot,
      ObjectGone, ArchivedShotIsGone, Over, NoRow, NoArchive, IdleWorker, Archiving

(* A job that moves outside the archiving proper has no part in AInv. *)
LEMMA QuietStep ==
  ASSUME AInv, UNCHANGED <<row, archive, permanent, submit, rushed>>,
         \A w \in Workers : \/ worker'[w] = worker[w]
                            \/ worker'[w].pc \notin Archiving
  PROVE  AInv'
  <1>1. \A t \in Tickets : Over(t)' <=> Over(t)
    BY DEF Over
  <1>2. NoRowYet' /\ NoTicketLost' /\ ArchivedShotIsGone'
    BY DEF AInv, NoRowYet, NoTicketLost, ArchivedShotIsGone
  <1>3. ArchivedIsOver'
    BY DEF AInv, ArchivedIsOver, Over
  <1>4. OverIsDone'
    BY <1>1 DEF AInv, OverIsDone
  <1>5. SameShot'
    BY DEF AInv, SameShot
  <1>6. ObjectGone'
    BY DEF AInv, ObjectGone, Archiving
  <1> QED BY <1>2, <1>3, <1>4, <1>5, <1>6 DEF AInv

LEMMA OutsideIsQuiet ==
  ASSUME TypeOK, Employed, NEW w \in Workers, Outside(w)
  PROVE  \A v \in Workers : \/ worker'[v] = worker[v]
                            \/ worker'[v].pc \notin Archiving
  BY WorkerMoved DEF Outside

(* create() of a ticket that has its row: whatever it does to the ticket   *)
(* or the object, the ticket is not over, or it is one of the rushed.      *)
LEMMA SubmitSafe ==
  ASSUME TypeOK, Employed, AInv, NEW t \in Tickets,
         \/ CheckShot(t) \/ CopyShot(t) \/ UnlinkPending(t) \/ RecordShot(t)
         \/ SubmitAborts(t)
  PROVE  AInv'
  <1>1. /\ submit[t] \notin {"upload", "done"}
        /\ submit'[t] # "upload"
        /\ \A u \in Tickets \ {t} : submit'[u] = submit[u]
        /\ UNCHANGED <<archive, worker, rushed>>
    BY DEF SubmitStep, CheckShot, CopyShot, UnlinkPending, RecordShot,
           SubmitAborts, bounds, TypeOK
  <1>2. /\ \A u \in Tickets : row'[u].status = row[u].status
        /\ \A u \in Tickets \ {t} : row'[u] = row[u]
    BY DEF CheckShot, CopyShot, UnlinkPending, RecordShot, SubmitAborts, TypeOK,
           Rows
  <1>3. permanent \subseteq permanent' /\ permanent' \subseteq permanent \cup {t}
    BY DEF CheckShot, CopyShot, UnlinkPending, RecordShot, SubmitAborts, objects
  <1>4. \A u \in Tickets : Over(u)' <=> Over(u)
    BY <1>1, <1>2 DEF Over
  <1>5. t \in rushed \/ ~Over(t)
    BY <1>1 DEF AInv, OverIsDone
  <1>6. NoRowYet' /\ NoTicketLost'
    BY <1>1, <1>2 DEF AInv, NoRowYet, NoTicketLost
  <1>7. ArchivedIsOver'
    BY <1>1, <1>4 DEF AInv, ArchivedIsOver, Employed
  <1>8. OverIsDone'
    BY <1>1, <1>4, <1>5 DEF AInv, OverIsDone
  <1>9. SameShot'
    <2>1. row[t].status # "resolved" \/ t \in rushed
      BY <1>1, <1>5 DEF Over
    <2> QED BY <1>1, <1>2, <2>1 DEF AInv, SameShot
  <1>10. ObjectGone'
    BY <1>1, <1>3, <1>5 DEF AInv, ObjectGone, ArchivedIsOver, Archiving
  <1>11. ArchivedShotIsGone'
    <2>1. row[t].status # "absent" \/ t \in rushed
      BY <1>1, <1>5 DEF Over
    <2> QED BY <1>1, <1>2, <1>3, <2>1 DEF AInv, ArchivedShotIsGone
  <1> QED BY <1>6, <1>7, <1>8, <1>9, <1>10, <1>11 DEF AInv

(* A ticket that is not over has no archive row, and no job archives it. *)
LEMMA NotOverUntouched ==
  ASSUME TypeOK, AInv, NEW t \in Tickets, ~Over(t)
  PROVE  /\ archive[t].held = "no" /\ archive[t].shot = "none"
         /\ \A w \in Workers : worker[w].pc \in Archiving => worker[w].ticket # t
  BY DEF TypeOK, AInv, ArchivedIsOver

LEMMA CreateRowSafe ==
  ASSUME TypeOK, Employed, AInv, NEW t \in Tickets, CreateRow(t)
  PROVE  AInv'
  <1>1. /\ submit[t] = "upload" /\ submit'[t] # "upload"
        /\ \A u \in Tickets \ {t} : submit'[u] = submit[u] /\ row'[u] = row[u]
        /\ UNCHANGED <<archive, worker, rushed, permanent>>
    BY DEF SubmitStep, CreateRow, bounds, objects, TypeOK
  <1>2. row'[t].status = "unresolved"
    BY DEF CreateRow, TypeOK, NewRow, NoRow
  <1>3. ~Over(t) /\ ~Over(t)'
    BY <1>1, <1>2 DEF Over
  <1>4. \A u \in Tickets : Over(u)' <=> Over(u)
    BY <1>1, <1>3 DEF Over
  <1>5. NoRowYet' /\ NoTicketLost'
    BY <1>1, <1>2 DEF AInv, NoRowYet, NoTicketLost
  <1>6. ArchivedIsOver'
    BY <1>1, <1>4 DEF AInv, ArchivedIsOver, Employed
  <1>7. OverIsDone'
    BY <1>1, <1>3, <1>4 DEF AInv, OverIsDone
  <1>8. SameShot' /\ ArchivedShotIsGone'
    BY <1>1, <1>2 DEF AInv, SameShot, ArchivedShotIsGone
  <1>9. ObjectGone'
    BY <1>1 DEF AInv, ObjectGone
  <1> QED BY <1>5, <1>6, <1>7, <1>8, <1>9 DEF AInv

(* The where clause of the updateMany: a write finds its ticket not over.  *)
LEMMA AdminWriteSafe ==
  ASSUME TypeOK, Employed, AInv, NEW a \in Admins, AdminWrite(a)
  PROVE  AInv'
  <1> DEFINE q == admin[a]
             t == q.ticket
  <1>1. t \in Tickets /\ q \in AdminStates
    BY DEF Employed, AdminWrite, TypeOK, AdminStates
  <1>2. UNCHANGED <<archive, permanent, submit, worker>>
    BY DEF AdminWrite, objects
  <1>3. CASE row[t].status \notin {"unresolved", "contacted"}
    BY <1>2, <1>3, QuietStep DEF AdminWrite
  <1>4. CASE row[t].status \in {"unresolved", "contacted"}
    <2>1. /\ row'[t].status = q.to
          /\ \A u \in Tickets \ {t} : row'[u] = row[u]
          /\ rushed' = IF q.to = "resolved" /\ submit[t] # "done"
                       THEN rushed \cup {t} ELSE rushed
      BY <1>1, <1>4 DEF AdminWrite, TypeOK, Rows
    <2>2. q.to \in Statuses
      BY <1>1 DEF AdminStates
    <2>3. ~Over(t) /\ submit[t] # "upload"
      BY <1>1, <1>4 DEF Over, AInv, NoRowYet
    <2>4. /\ archive[t].held = "no" /\ archive[t].shot = "none"
          /\ \A w \in Workers : worker[w].pc \in Archiving => worker[w].ticket # t
      BY <1>1, <2>3, NotOverUntouched
    <2>5. \A u \in Tickets \ {t} : Over(u)' <=> Over(u)
      BY <1>2, <2>1 DEF Over
    <2>6. NoRowYet' /\ NoTicketLost'
      BY <1>1, <1>2, <2>1, <2>2, <2>3 DEF AInv, NoRowYet, NoTicketLost, Statuses
    <2>7. ArchivedIsOver'
      BY <1>1, <1>2, <2>4, <2>5 DEF AInv, ArchivedIsOver, Employed
    <2>8. OverIsDone'
      BY <1>1, <1>2, <2>1, <2>2, <2>5 DEF AInv, OverIsDone, Over, Statuses
    <2>9. SameShot'
      BY <1>2, <2>1, <2>4 DEF AInv, SameShot
    <2>10. ObjectGone'
      BY <1>2, <2>1 DEF AInv, ObjectGone
    <2>11. ArchivedShotIsGone'
      BY <1>2, <2>1, <2>2, <2>4 DEF AInv, ArchivedShotIsGone, Statuses
    <2> QED BY <2>6, <2>7, <2>8, <2>9, <2>10, <2>11 DEF AInv
  <1> QED BY <1>3, <1>4

(* What holds of a job past its read, and of every other job it leaves. *)
LEMMA OnwardJob ==
  ASSUME TypeOK, Employed, NEW w \in Workers, NEW s, Onward(w, s)
  PROVE  /\ worker'[w] = s /\ s.ticket = worker[w].ticket /\ s.pc \in Archiving
         /\ s.ticket \in Tickets
         /\ \A v \in Workers \ {w} : worker'[v] = worker[v]
  BY WorkerMoved DEF Onward, WorkerMoves, Fit

LEMMA ReadSafe ==
  ASSUME TypeOK, Employed, AInv, NEW w \in Workers, ArchRead(w)
  PROVE  AInv'
  <1>1. UNCHANGED <<row, archive, permanent, submit, rushed>>
    BY DEF ArchRead, objects, bounds
  <1>2. CASE Outside(w)
    BY <1>1, <1>2, OutsideIsQuiet, QuietStep
  <1>3. ASSUME NEW s, Onward(w, s), s.pc = "upsert",
               row[s.ticket].status = "resolved", s.shot = row[s.ticket].shot
        PROVE  AInv'
    <2>1. /\ worker'[w] = s /\ s.ticket \in Tickets
          /\ \A v \in Workers \ {w} : worker'[v] = worker[v]
      BY <1>3, OnwardJob
    <2>2. Over(s.ticket)
      BY <1>3, <2>1 DEF Over, AInv, NoRowYet
    <2>3. NoRowYet' /\ NoTicketLost' /\ OverIsDone' /\ ArchivedShotIsGone'
      BY <1>1 DEF AInv, NoRowYet, NoTicketLost, OverIsDone, Over, ArchivedShotIsGone
    <2>4. ArchivedIsOver'
      <3>1. \A t : Over(t)' <=> Over(t)
        BY <1>1 DEF Over
      <3> QED BY <1>1, <1>3, <2>1, <2>2, <3>1 DEF AInv, ArchivedIsOver, Archiving
    <2>5. SameShot'
      BY <1>1, <1>3, <2>1 DEF AInv, SameShot
    <2>6. ObjectGone'
      BY <1>1, <1>3, <2>1 DEF AInv, ObjectGone
    <2> QED BY <2>3, <2>4, <2>5, <2>6 DEF AInv
  <1> QED BY <1>2, <1>3, ReadMoves

LEMMA UpsertSafe ==
  ASSUME TypeOK, Employed, AInv, NEW w \in Workers, ArchUpsert(w)
  PROVE  AInv'
  <1> DEFINE q == worker[w]
             t == q.ticket
             pc == IF q.shot = "key" THEN "object" ELSE "row"
             r == [held |-> "yes", contactedAt |-> q.seen, shot |-> q.shot,
                   deleted |-> "no"]
  <1>1. UNCHANGED <<row, permanent, submit, rushed>> /\ q.pc = "upsert"
    BY DEF ArchUpsert, objects, bounds
  <1>2. PICK s : Onward(w, s) /\ s.pc = pc /\ s.shot = q.shot
    <2>1. q.pc \in Archiving /\ pc \in Archiving
          /\ worker' = [worker EXCEPT ![w].pc = pc]
      BY <1>1 DEF ArchUpsert, Archiving
    <2> HIDE DEF pc
    <2> QED BY <2>1, PcMoves
  <1>3. /\ worker'[w] = s /\ t \in Tickets /\ s.ticket = t
        /\ \A v \in Workers \ {w} : worker'[v] = worker[v]
    BY <1>2, OnwardJob
  <1>4. /\ \A u \in Tickets \ {t} : archive'[u] = archive[u]
        /\ archive'[t] = IF archive[t].held = "yes" THEN archive[t] ELSE r
    BY <1>3 DEF ArchUpsert, TypeOK
  <1>5. /\ archive'[t].held = "yes"
        /\ archive[t].held = "yes" => archive'[t] = archive[t]
        /\ archive[t].held = "no" => archive'[t].shot = q.shot
        /\ archive[t].held \in {"no", "yes"}
    BY <1>3, <1>4 DEF TypeOK
  <1>o. Over(t)
    BY <1>1 DEF AInv, ArchivedIsOver, Archiving
  <1>6. \A u : Over(u)' <=> Over(u)
    BY <1>1 DEF Over
  <1> HIDE DEF t, r, q
  <1>7. NoRowYet' /\ OverIsDone' /\ NoTicketLost'
    BY <1>1, <1>4, <1>5, <1>6 DEF AInv, NoRowYet, OverIsDone, NoTicketLost
  <1>8. ArchivedIsOver'
    <2>1. /\ \A u \in Tickets : archive'[u].held = "yes" => Over(u)
          /\ \A u \in Tickets : archive'[u].held = "no" => archive'[u].shot = "none"
      BY <1>3, <1>4, <1>5, <1>o DEF AInv, ArchivedIsOver
    <2>2. \A v \in Workers : worker'[v].pc \in Archiving => Over(worker'[v].ticket)
      BY <1>3, <1>o DEF AInv, ArchivedIsOver
    <2>3. \A v \in Workers : worker'[v].pc \in Archiving \ {"upsert"}
                             => archive'[worker'[v].ticket].held = "yes"
      BY <1>3, <1>4, <1>5 DEF AInv, ArchivedIsOver, Employed
    <2> QED BY <1>6, <2>1, <2>2, <2>3 DEF ArchivedIsOver
  <1>9. SameShot'
    <2> SUFFICES ASSUME NEW u \in Tickets \ rushed, row[u].status = "resolved"
                 PROVE  /\ archive'[u].held = "yes" => archive'[u].shot = row[u].shot
                        /\ \A v \in Workers :
                             worker'[v].pc \in Archiving /\ worker'[v].ticket = u
                             => worker'[v].shot = row[u].shot
      BY <1>1 DEF SameShot
    <2>1. /\ archive[u].held = "yes" => archive[u].shot = row[u].shot
          /\ \A v \in Workers : worker[v].pc \in Archiving /\ worker[v].ticket = u
                                => worker[v].shot = row[u].shot
      BY DEF AInv, SameShot
    <2>2. t = u => q.shot = row[u].shot
      BY <1>1, <2>1 DEF q, t, Archiving
    <2> QED BY <1>2, <1>3, <1>4, <1>5, <2>1, <2>2
  <1>10. ObjectGone'
    <2> SUFFICES ASSUME NEW v \in Workers, worker'[v].ticket \notin rushed
                 PROVE  /\ worker'[v].pc = "stamp" => worker'[v].ticket \notin permanent
                        /\ worker'[v].pc = "row" /\ worker'[v].shot = "key"
                           => /\ worker'[v].ticket \notin permanent
                              /\ archive'[worker'[v].ticket].deleted = "yes"
      BY <1>1 DEF ObjectGone
    <2>1. CASE v = w
      BY <1>2, <1>3, <2>1
    <2>2. CASE v # w
      <3>1. worker'[v] = worker[v]
        BY <1>3, <2>2
      <3>2. worker[v].pc = "row" => /\ worker[v].ticket \in Tickets
                                    /\ archive[worker[v].ticket].held = "yes"
        BY DEF Employed, AInv, ArchivedIsOver, Archiving
      <3> QED BY <1>4, <1>5, <3>1, <3>2 DEF AInv, ObjectGone
    <2> QED BY <2>1, <2>2
  <1>11. ArchivedShotIsGone'
    <2>1. row[t].status = "absent" => archive'[t] = archive[t]
      BY <1>3, <1>5, <1>o DEF AInv, NoTicketLost, Over
    <2> QED BY <1>1, <1>4, <2>1 DEF AInv, ArchivedShotIsGone
  <1> QED BY <1>7, <1>8, <1>9, <1>10, <1>11 DEF AInv

LEMMA ObjectSafe ==
  ASSUME TypeOK, Employed, AInv, NEW w \in Workers, ArchObject(w)
  PROVE  AInv'
  <1>1. /\ UNCHANGED <<row, archive, submit, rushed>>
        /\ permanent' = permanent \ {worker[w].ticket}
        /\ worker[w].pc = "object"
    BY DEF ArchObject, bounds
  <1>2. PICK s : Onward(w, s) /\ s.pc = "stamp" /\ s.shot = worker[w].shot
    BY <1>1, PcMoves DEF ArchObject, Archiving
  <1>3. /\ worker'[w] = s /\ s.ticket = worker[w].ticket
        /\ \A v \in Workers \ {w} : worker'[v] = worker[v]
    BY <1>2, OnwardJob
  <1>4. \A u : Over(u)' <=> Over(u)
    BY <1>1 DEF Over
  <1>5. NoRowYet' /\ NoTicketLost' /\ OverIsDone' /\ ArchivedShotIsGone'
    BY <1>1, <1>4
    DEF AInv, NoRowYet, NoTicketLost, OverIsDone, ArchivedShotIsGone
  <1>6. ArchivedIsOver'
    BY <1>1, <1>2, <1>3, <1>4 DEF AInv, ArchivedIsOver, Archiving
  <1>7. SameShot'
    BY <1>1, <1>2, <1>3 DEF AInv, SameShot, Archiving
  <1>8. ObjectGone'
    BY <1>1, <1>2, <1>3 DEF AInv, ObjectGone
  <1> QED BY <1>5, <1>6, <1>7, <1>8 DEF AInv

LEMMA StampSafe ==
  ASSUME TypeOK, Employed, AInv, NEW w \in Workers, ArchStamp(w)
  PROVE  AInv'
  <1> DEFINE t == worker[w].ticket
  <1>1. UNCHANGED <<row, permanent, submit, rushed>> /\ worker[w].pc = "stamp"
    BY DEF ArchStamp, objects, bounds
  <1>2. PICK s : Onward(w, s) /\ s.pc = "row" /\ s.shot = worker[w].shot
    BY <1>1, PcMoves DEF ArchStamp, Archiving
  <1>3. /\ worker'[w] = s /\ t \in Tickets /\ s.ticket = t
        /\ \A v \in Workers \ {w} : worker'[v] = worker[v]
    BY <1>2, OnwardJob
  <1>4. /\ \A u \in Tickets \ {t} : archive'[u] = archive[u]
        /\ archive'[t].held = archive[t].held
        /\ archive'[t].shot = archive[t].shot
        /\ archive'[t].deleted = "yes"
    BY <1>3 DEF ArchStamp, TypeOK
  <1>5. \A u : Over(u)' <=> Over(u)
    BY <1>1 DEF Over
  <1>6. NoRowYet' /\ NoTicketLost' /\ OverIsDone'
    BY <1>1, <1>4, <1>5 DEF AInv, NoRowYet, NoTicketLost, OverIsDone
  <1>7. ArchivedIsOver'
    BY <1>1, <1>2, <1>3, <1>4, <1>5 DEF AInv, ArchivedIsOver, Archiving, Employed
  <1>8. SameShot'
    BY <1>1, <1>2, <1>3, <1>4 DEF AInv, SameShot, Archiving
  <1>9. ObjectGone'
    BY <1>1, <1>2, <1>3, <1>4 DEF AInv, ObjectGone, Employed, Archiving
  <1>10. ArchivedShotIsGone'
    BY <1>1, <1>4 DEF AInv, ArchivedShotIsGone
  <1> QED BY <1>6, <1>7, <1>8, <1>9, <1>10 DEF AInv

LEMMA RowSafe ==
  ASSUME TypeOK, Employed, AInv, NEW w \in Workers, ArchRow(w)
  PROVE  AInv'
  <1> DEFINE t == worker[w].ticket
  <1>1. UNCHANGED <<archive, permanent, submit, rushed>> /\ worker[w].pc = "row"
    BY DEF ArchRow, objects, bounds
  <1>2. \A v \in Workers : worker'[v] = worker[v] \/ worker'[v].pc \notin Archiving
    BY RowIsOutside, OutsideIsQuiet
  <1>3. CASE row[t].status = "absent"
    BY <1>1, <1>2, <1>3, QuietStep DEF ArchRow
  <1>4. CASE row[t].status # "absent"
    <2>1. t \in Tickets /\ Over(t) /\ archive[t].held = "yes"
      BY <1>1 DEF Employed, AInv, ArchivedIsOver, Archiving
    <2>2. /\ row'[t].status = "absent"
          /\ \A u \in Tickets \ {t} : row'[u] = row[u]
      BY <1>4, <2>1 DEF ArchRow, NoRow, TypeOK
    <2>3. row[t].status = "resolved" /\ submit[t] # "upload"
      BY <1>4, <2>1 DEF Over
    <2>4. \A u \in Tickets : Over(u)' <=> Over(u)
      BY <1>1, <2>1, <2>2 DEF Over
    <2>5. NoRowYet' /\ NoTicketLost' /\ OverIsDone'
      BY <1>1, <2>1, <2>2, <2>4 DEF AInv, NoRowYet, NoTicketLost, OverIsDone
    <2>6. ArchivedIsOver'
      BY <1>1, <1>2, <2>4 DEF AInv, ArchivedIsOver, Archiving, Employed
    <2>7. SameShot'
      BY <1>1, <1>2, <2>2 DEF AInv, SameShot
    <2>8. ObjectGone'
      BY <1>1, <1>2 DEF AInv, ObjectGone, Archiving
    <2>9. ArchivedShotIsGone'
      <3>1. t \notin rushed /\ archive[t].shot = "key"
            => t \notin permanent /\ archive[t].deleted = "yes"
        <4>1. t \notin rushed => worker[w].shot = archive[t].shot
          BY <1>1, <2>1, <2>3 DEF AInv, SameShot, Archiving
        <4> QED BY <1>1, <4>1 DEF AInv, ObjectGone
      <3> QED BY <1>1, <2>2, <3>1 DEF AInv, ArchivedShotIsGone
    <2> QED BY <2>5, <2>6, <2>7, <2>8, <2>9 DEF AInv
  <1> QED BY <1>3, <1>4

LEMMA SafetyKept ==
  ASSUME TypeOK, Employed, AInv, [Next]_vars
  PROVE  AInv'
  <1>1. CASE \E t \in Tickets : SubmitProgress(t) \/ SubmitAborts(t)
    BY <1>1, CreateRowSafe, SubmitSafe DEF SubmitProgress
  <1>2. CASE \E a \in Admins : AdminWrite(a)
    BY <1>2, AdminWriteSafe
  <1>3. CASE \/ ScheduleSweep
             \/ \E a \in Admins :
                  \/ \E t \in Tickets, s \in Statuses : AdminRead(a, t, s)
                  \/ AdminEnqueue(a) \/ AdminAborts(a)
             \/ UNCHANGED vars
    <2>1. UNCHANGED <<row, archive, permanent, submit, rushed, worker>>
      BY <1>3 DEF ScheduleSweep, AdminRead, StatusMenu, AdminEnqueue, AdminAborts, vars,
                  objects, bounds
    <2> QED BY <2>1, QuietStep
  <1>4. ASSUME NEW w \in Workers, NEW t \in Tickets, TakeJob(w, t)
        PROVE  AInv'
    BY <1>4, TakeJobIsOutside, OutsideIsQuiet, QuietStep DEF TakeJob, objects, bounds
  <1>5. ASSUME NEW w \in Workers,
               \/ TakeSweep(w) \/ SweepList(w) \/ SweepPick(w)
               \/ ArchObjectFails(w) \/ WorkerCrashes(w)
        PROVE  AInv'
    <2>1. UNCHANGED <<row, archive, permanent, submit, rushed>>
      BY <1>5 DEF TakeSweep, SweepList, SweepPick, ArchObjectFails, WorkerCrashes,
                  objects, bounds
    <2>2. Outside(w)
      BY <1>5, SweepIsOutside, JobFailsIsOutside, CrashIsOutside DEF ArchObjectFails
    <2> QED BY <2>1, <2>2, OutsideIsQuiet, QuietStep
  <1>6. ASSUME NEW w \in Workers,
               \/ ArchRead(w) \/ ArchUpsert(w) \/ ArchObject(w) \/ ArchStamp(w)
               \/ ArchRow(w)
        PROVE  AInv'
    BY <1>6, ReadSafe, UpsertSafe, ObjectSafe, StampSafe, RowSafe
  <1> QED BY <1>1, <1>2, <1>3, <1>4, <1>5, <1>6 DEF Next, WorkerStep

LEMMA Inductive == Spec => []IInv
  <1>1. Init => IInv
    BY InitTypes, InitSafe DEF IInv
  <1>2. IInv /\ [Next]_vars => IInv'
    BY TypesKept, SafetyKept DEF IInv
  <1> QED BY <1>1, <1>2, PTL DEF Spec

(* The archive worker never lets go of a ticket: whichever jobs, crashes   *)
(* and S3 errors meet, what was submitted is live or in the archive.       *)
THEOREM NothingIsLost == Spec => []NoTicketLost
  <1>1. IInv => NoTicketLost
    BY DEF IInv, AInv
  <1> QED BY <1>1, Inductive, PTL

(* For a ticket resolved after create() was through with it, the deletion  *)
(* of the live row finds the S3 object deleted and the archive row saying  *)
(* so, whatever the other jobs on that ticket did in between.              *)
THEOREM NoShotLeftBehind == Spec => []ArchivedShotIsGone
  <1>1. IInv => ArchivedShotIsGone
    BY DEF IInv, AInv
  <1> QED BY <1>1, Inductive, PTL

(* updateStatus never reopens a resolved ticket, and only archiving, which *)
(* deletes the row, ends that status.                                      *)
THEOREM NoPathBack == Spec => ResolvedIsTerminal
  <1>1. ASSUME IInv, [Next]_vars, NEW t \in Tickets, row[t].status = "resolved"
        PROVE  row'[t].status \in {"resolved", "absent"}
    <2>1. row \in [Tickets -> Rows] /\ submit[t] # "upload"
      BY <1>1 DEF IInv, TypeOK, AInv, NoRowYet
    <2>2. CASE \E u \in Tickets : SubmitProgress(u) \/ SubmitAborts(u)
      BY <1>1, <2>1, <2>2 DEF SubmitProgress, SubmitAborts, SubmitStep, CreateRow,
         CheckShot, CopyShot, UnlinkPending, RecordShot, Rows
    <2>3. CASE \E a \in Admins : AdminWrite(a)
      BY <1>1, <2>1, <2>3 DEF AdminWrite
    <2>4. CASE \E w \in Workers : ArchRow(w)
      BY <1>1, <2>1, <2>4 DEF ArchRow, NoRow
    <2>5. CASE UNCHANGED row
      BY <1>1, <2>5
    <2>6. \/ \E u \in Tickets : SubmitProgress(u) \/ SubmitAborts(u)
          \/ \E a \in Admins : AdminWrite(a)
          \/ \E w \in Workers : ArchRow(w)
          \/ UNCHANGED row
      BY <1>1 DEF Next, vars, AdminRead, StatusMenu, AdminEnqueue, AdminAborts, ScheduleSweep,
         TakeJob, TakeSweep, WorkerStep, SweepList, SweepPick, ArchRead,
         ArchUpsert, ArchObject, ArchStamp, ArchObjectFails, WorkerCrashes
    <2> QED BY <2>2, <2>3, <2>4, <2>5, <2>6
  <1>2. IInv /\ [Next]_vars
        => [\A t \in Tickets : row[t].status = "resolved"
                               => row'[t].status \in {"resolved", "absent"}]_vars
    BY <1>1
  <1> QED BY <1>2, Inductive, PTL DEF Spec, ResolvedIsTerminal
=============================================================================
