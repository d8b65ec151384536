------------------------ MODULE ContentTranslation ------------------------
(***************************************************************************)
(* One published text (a Service or an OpenPosition) and its machine       *)
(* translation into one locale: the admin's edit, the cached list, the     *)
(* translation row, the Redis lock around LibreTranslate, and the queued   *)
(* job (backend/src/translations, services, candidates/positions, queue).  *)
(*                                                                         *)
(* A text is the number of its version, which is also its source hash; a   *)
(* translated text is the version it was translated from.  The visitors'   *)
(* requests and the worker's job run the same steps, so they are processes *)
(* of one kind.  The lock's owner is history: the code stores "1".         *)
(***************************************************************************)
EXTENDS Naturals, FiniteSets

CONSTANTS Visitors,      \* request slots: GETs in the translated locale
          Job,           \* the queued job: its jobId admits one at a time
          MaxVersions,   \* bound: versions of the text
          Attempts,      \* attempts of a job
          MaxFaults      \* bound: failing calls, crashes, early expiries,
                         \* and the admins' invalidations

ASSUME TranslationAssumption == /\ Job \notin Visitors
                                /\ IsFiniteSet(Visitors)
                                /\ "free" \notin Visitors \cup {Job}
                                /\ MaxVersions \in Nat \ {0}
                                /\ Attempts \in Nat \ {0}
                                /\ MaxFaults \in Nat

VARIABLES kind,      \* which of the two content types this text is
          source,    \* the stored text
          list,      \* its entry in the cached list
          row,       \* ContentTranslation
          lock,      \* who took the lock that is held, if one is
          proc,      \* what each visitor's request and the job are doing
          job,       \* the BullMQ job; a failed one is in the DLQ too
          admin,     \* the admin's edit in progress
          expiries,  \* history: locks that expired under a working owner
          faults

vars == <<kind, source, list, row, lock, proc, job, admin, expiries,
          faults>>

Procs == Visitors \cup {Job}
Versions == 1 .. MaxVersions
Free == "free"
NoList == [seen |-> 0, text |-> 0]
Idle == [pc |-> "idle", seen |-> 0, text |-> 0]

Holding == {"mark", "call", "release"}
Pcs == {"idle", "fill", "rows", "lock", "poll", "final", "cache"} \cup Holding

ProcStates == [pc : Pcs, seen : 0 .. MaxVersions, text : 0 .. MaxVersions]

TypeOK ==
  /\ kind \in {"service", "position"}
  /\ source \in Versions
  /\ list \in [seen : 0 .. MaxVersions, text : 0 .. MaxVersions]
  /\ row \in [status : {"none", "missing", "translating", "translated",
                        "failed"},
              hash : 0 .. MaxVersions, text : 0 .. MaxVersions]
  /\ lock \in Procs \cup {Free}
  /\ proc \in [Procs -> ProcStates]
  /\ job \in [state : {"none", "waiting", "active", "completed", "failed"},
              tries : 0 .. Attempts]
  /\ admin \in {"idle", "written"}
  /\ expiries \in 0 .. faults
  /\ faults \in 0 .. MaxFaults

Init ==
  /\ kind \in {"service", "position"}
  /\ source = 1
  /\ list = NoList
  /\ row = [status |-> "none", hash |-> 0, text |-> 0]
  /\ lock = Free
  /\ proc = [p \in Procs |-> Idle]
  /\ job = [state |-> "waiting", tries |-> 0]
  /\ admin = "idle"
  /\ expiries = 0 /\ faults = 0

Fault == faults < MaxFaults /\ faults' = faults + 1

-----------------------------------------------------------------------------
(* The admin's edit. *)

SaveService == kind = "service" /\ source' = source + 1
SavePosition == kind = "position" /\ source' = source + 1

EditWrite ==
  /\ admin = "idle" /\ source < MaxVersions
  /\ SaveService \/ SavePosition
  /\ admin' = "written"
  /\ UNCHANGED <<kind, list, row, lock, proc, job, expiries, faults>>

DropList == list' = NoList

(* The cached list goes, then a job is added: a no-op if a job with this   *)
(* jobId still exists, even a finished one.  A failure is only logged. *)
EditPublish ==
  /\ admin = "written"
  /\ admin' = "idle"
  /\ LET added == IF job.state = "none" THEN [state |-> "waiting", tries |-> 0]
                                        ELSE job
     IN \/ DropList /\ job' = added /\ UNCHANGED faults
        \/ Fault /\ job' = added /\ UNCHANGED list
        \/ Fault /\ DropList /\ UNCHANGED job
  /\ UNCHANGED <<kind, source, row, lock, proc, expiries>>

(* An admin forces a position's translation to be made again. *)
Invalidate ==
  /\ kind = "position" /\ row.status \notin {"none", "missing"}
  /\ row' = [row EXCEPT !.status = "missing", !.text = 0]
  /\ Fault
  /\ UNCHANGED <<kind, source, list, lock, proc, job, admin, expiries>>

-----------------------------------------------------------------------------
(* A visitor's request, up to the translation. *)

Goto(p, pc) == proc' = [proc EXCEPT ![p].pc = pc]
See(p, pc, version) ==
  proc' = [proc EXCEPT ![p] = [Idle EXCEPT !.pc = pc, !.seen = version]]
End(p) == proc' = [proc EXCEPT ![p] = Idle]

(* The list's entry, a service's to be translated per request, a position's*)
(* being the answer itself; without one, or if Redis fails, text is read.  *)
VisitList(v) ==
  /\ proc[v].pc = "idle"
  /\ \/ /\ See(v, IF kind = "service" THEN "fill" ELSE "rows", source)
        /\ IF list = NoList THEN UNCHANGED faults ELSE Fault
     \/ /\ list # NoList /\ kind = "service"
        /\ See(v, "rows", list.seen)
        /\ UNCHANGED faults
  /\ UNCHANGED <<kind, source, list, row, lock, job, admin, expiries>>

(* A service's own page is never cached. *)
VisitSlug(v) ==
  /\ proc[v].pc = "idle" /\ kind = "service"
  /\ See(v, "rows", source)
  /\ UNCHANGED <<kind, source, list, row, lock, job, admin, expiries, faults>>

(* The services' list is cached before, the positions' after translation. *)
VisitFill(v) ==
  /\ proc[v].pc \in {"fill", "cache"}
  /\ \/ /\ list' = [seen |-> proc[v].seen, text |-> proc[v].text]
        /\ UNCHANGED faults
     \/ Fault /\ UNCHANGED list
  /\ IF proc[v].pc = "fill" THEN Goto(v, "rows") ELSE End(v)
  /\ UNCHANGED <<kind, source, row, lock, job, admin, expiries>>

(* Process p is done with the text version `text` (0: the original). *)
Answer(p, text) ==
  IF p \in Visitors /\ kind = "position"
  THEN proc' = [proc EXCEPT ![p].pc = "cache", ![p].text = text]
  ELSE End(p)

JobEnds(p) == job' = IF p = Job THEN [job EXCEPT !.state = "completed"] ELSE job

(* The list's TTL. *)
ListExpires ==
  /\ list # NoList /\ DropList
  /\ UNCHANGED <<kind, source, row, lock, proc, job, admin, expiries,
                 faults>>

-----------------------------------------------------------------------------
(* The queued job. *)

(* processQueuedJob reads the text afresh. *)
JobStarts ==
  /\ job.state = "waiting"
  /\ job' = [job EXCEPT !.state = "active"]
  /\ See(Job, "rows", source)
  /\ UNCHANGED <<kind, source, list, row, lock, admin, expiries, faults>>

(* removeOnComplete, removeOnFail. *)
JobForgotten ==
  /\ job.state \in {"completed", "failed"}
  /\ job' = [state |-> "none", tries |-> 0]
  /\ UNCHANGED <<kind, source, list, row, lock, proc, admin, expiries,
                 faults>>

-----------------------------------------------------------------------------
(* getTranslatedContent and runTriggerGeneric. *)

Fresh(p) == row.status = "translated" /\ row.hash = proc[p].seen

(* The stored translation, if it is of the text this process has. *)
Rows(p) ==
  /\ proc[p].pc = "rows"
  /\ \/ Fresh(p) /\ Answer(p, row.text) /\ JobEnds(p)
     \/ ~Fresh(p) /\ Goto(p, "lock") /\ UNCHANGED job
  /\ UNCHANGED <<kind, source, list, row, lock, admin, expiries, faults>>

(* Mutant: SET without NX. *)
AcquireAnyLock(p) ==
  /\ proc[p].pc = "lock"
  /\ lock' = p
  /\ Goto(p, "mark")
  /\ UNCHANGED <<kind, source, list, row, job, admin, expiries, faults>>

(* SET NX PX: a visitor who loses polls, the job has nothing to do. *)
AcquireLock(p) ==
  /\ proc[p].pc = "lock"
  /\ \/ lock = Free /\ lock' = p /\ Goto(p, "mark") /\ UNCHANGED job
     \/ /\ lock # Free
        /\ IF p = Job THEN End(p) ELSE Goto(p, "poll")
        /\ JobEnds(p)
        /\ UNCHANGED lock
  /\ UNCHANGED <<kind, source, list, row, admin, expiries, faults>>

(* The upsert: a new row gets this text's hash, an old one keeps its own. *)
Mark(p) ==
  /\ proc[p].pc = "mark"
  /\ row' = IF row.status = "none"
            THEN [status |-> "translating", hash |-> proc[p].seen, text |-> 0]
            ELSE [row EXCEPT !.status = "translating"]
  /\ Goto(p, "call")
  /\ UNCHANGED <<kind, source, list, lock, job, admin, expiries, faults>>

(* Mutant: the hash is taken of the text as it is by now. *)
TranslateUnderLatestHash(p) ==
  /\ proc[p].pc = "call"
  /\ row' = [status |-> "translated", hash |-> source, text |-> proc[p].seen]
  /\ Goto(p, "release")
  /\ UNCHANGED <<kind, source, list, lock, job, admin, expiries, faults>>

(* LibreTranslate answers and the row is written; or the month's characters*)
(* are used up (by other texts too), or the call fails.                    *)
Translate(p) ==
  /\ proc[p].pc = "call"
  /\ \/ /\ row' = [status |-> "translated", hash |-> proc[p].seen,
                   text |-> proc[p].seen]
        /\ UNCHANGED faults
     \/ /\ row' = [row EXCEPT !.status = "failed"]
        /\ Fault
  /\ Goto(p, "release")
  /\ UNCHANGED <<kind, source, list, lock, job, admin, expiries>>

(* DEL, whosever lock it is by now. *)
ReleaseLock(p) ==
  /\ proc[p].pc = "release"
  /\ lock' = Free
  /\ IF p = Job THEN End(p) ELSE Goto(p, "final")
  /\ JobEnds(p)
  /\ UNCHANGED <<kind, source, list, row, admin, expiries, faults>>

(* What the row has by now, whichever text that is of. *)
Final(v) ==
  /\ proc[v].pc = "final"
  /\ Answer(v, IF row.status = "translated" THEN row.text ELSE 0)
  /\ UNCHANGED <<kind, source, list, row, lock, job, admin, expiries,
                 faults>>

(* The loser's poll finds the translation or its failure, or runs out of   *)
(* time; but for the first the answer is the original.                     *)
Poll(v) ==
  /\ proc[v].pc = "poll"
  /\ \/ Fresh(v) /\ Answer(v, row.text)
     \/ ~Fresh(v) /\ Answer(v, 0)
  /\ UNCHANGED <<kind, source, list, row, lock, job, admin, expiries,
                 faults>>

(* A query or a Redis call outside the try throws, leaving the lock as it  *)
(* is, or the write in its catch does, before the finally's DEL: the       *)
(* visitor gets the original, the job its next attempt or the DLQ.         *)
Throw(p) ==
  /\ proc[p].pc \in {"rows", "lock"} \cup Holding
  /\ Fault
  /\ Answer(p, 0)
  /\ job' = IF p # Job THEN job
            ELSE [state |-> IF job.tries + 1 < Attempts THEN "waiting"
                                                        ELSE "failed",
                  tries |-> job.tries + 1]
  /\ lock' = lock \/ (proc[p].pc = "call" /\ lock' = Free)
  /\ UNCHANGED <<kind, source, list, row, admin, expiries>>

-----------------------------------------------------------------------------
(* Time and crashes. *)

Working == {p \in Procs : proc[p].pc \in Holding}

(* Mutant: the lock is taken without a time to live. *)
OrphanLockStays == FALSE /\ UNCHANGED vars

(* TRANSLATION_LOCK_TTL_MS over a lock whose owner died, *)
OrphanLockExpires ==
  /\ lock # Free /\ lock \notin Working
  /\ lock' = Free
  /\ UNCHANGED <<kind, source, list, row, proc, job, admin, expiries,
                 faults>>

(* or while its owner is still at it. *)
LockExpires ==
  /\ lock \in Working
  /\ Fault
  /\ lock' = Free
  /\ expiries' = expiries + 1
  /\ UNCHANGED <<kind, source, list, row, proc, job, admin>>

(* A pod dies with a request or the job; a stalled job is delivered again. *)
Crash(p) ==
  /\ proc[p].pc # "idle"
  /\ Fault
  /\ End(p)
  /\ job' = IF p = Job THEN [job EXCEPT !.state = "waiting"] ELSE job
  /\ UNCHANGED <<kind, source, list, row, lock, admin, expiries>>

Visit(v) == VisitList(v) \/ VisitSlug(v)
Step(p) == Rows(p) \/ AcquireLock(p) \/ Mark(p) \/ Translate(p)
             \/ ReleaseLock(p)
VisitStep(v) == VisitFill(v) \/ Final(v) \/ Poll(v)

Next ==
  \/ \E v \in Visitors : Visit(v) \/ VisitStep(v)
  \/ \E p \in Procs : Step(p) \/ Throw(p) \/ Crash(p)
  \/ JobStarts \/ JobForgotten
  \/ EditWrite \/ EditPublish \/ Invalidate
  \/ ListExpires \/ OrphanLockExpires \/ LockExpires

Spec == Init /\ [][Next]_vars

(* What runs goes on, the worker takes jobs, keys with a time to live go.  *)
Fairness ==
  /\ \A v \in Visitors : WF_vars(VisitStep(v))
  /\ \A p \in Procs : WF_vars(Step(p))
  /\ WF_vars(JobStarts) /\ WF_vars(JobForgotten)
  /\ WF_vars(EditPublish)
  /\ WF_vars(ListExpires) /\ WF_vars(OrphanLockExpires)

QueueSpec == Spec /\ Fairness

(* And somebody looks at the page again and again. *)
VisitedSpec == QueueSpec /\ \A v \in Visitors : WF_vars(Visit(v))

-----------------------------------------------------------------------------
(* Properties. *)

(* A row marked translated holds the translation of just the text its hash *)
(* names, whatever edits, expired locks and other translators intervened:  *)
(* the hash comparison that invalidates it can be relied on.               *)
RowMatchesItsHash == row.status = "translated" => row.text = row.hash

(* BUSINESS_RULES.md rule 16 as far as the lock's time to live allows: each*)
(* lock that expires under its owner lets in at most one translator more,  *)
(* although releaseLock deletes a lock that is no longer its own.          *)
EachExpiryAdmitsOne == Cardinality(Working) <= 1 + expiries

(* While the page is visited, the row and the cached list settle on the    *)
(* last text, through lost jobs, dead lock owners and stale caches, and no *)
(* crash leaves the row unfinished.                                        *)
SettlesOnLatest ==
  /\ <>[](row.hash = source /\ (list # NoList => list.seen = source))
  /\ []<>(row.status = "translated")

-----------------------------------------------------------------------------
(* Statements of documents and comments that the code refutes. *)

(* "Concurrent requests for the same untranslated item must never produce  *)
(* more than one LibreTranslate call": who gets the lock does not find the *)
(* text translated already.                                                *)
OneCallPerText ==
  [][\A p \in Procs :
       proc[p].pc = "lock" /\ proc'[p].pc = "mark" => ~Fresh(p)]_vars

(* "now it retries automatically, and only a job that's exhausted every    *)
(* retry lands in the DLQ": after a failed call the queue's job calls      *)
(* again, or is filed.                                                     *)
FailedJobIsRetried ==
  (proc[Job].pc = "release" /\ row.status = "failed")
    ~> (row.status = "translated" \/ job.state = "failed")

(* "returns cached content if the hash still matches": a visitor is not    *)
(* given the translation of an older text than the one it asked for.       *)
NoOlderTextServed ==
  \A v \in Visitors :
    proc[v].pc = "final" /\ row.status = "translated"
    => row.text >= proc[v].seen
=============================================================================
