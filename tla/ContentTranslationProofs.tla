---------------------- MODULE ContentTranslationProofs ----------------------
(***************************************************************************)
(* Proofs about ContentTranslation for any number of visitors, versions    *)
(* and faults: its types, that a translated row is what its hash says, and *)
(* how far an expired lock loosens the one-translator rule.                *)
(*                                                                         *)
(* EachExpiryAdmitsOne is not inductive: whether the present lock is held  *)
(* by a living owner decides how many may be at work (LockBound).          *)
(***************************************************************************)
EXTENDS ContentTranslation, TLAPS, FiniteSetTheorems

(* Without a living owner of the lock, only expired ones are at work. *)
LockBound ==
  Cardinality(Working) <= (IF lock \in Working THEN 1 ELSE 0) + expiries

(* The job's attempts are bounded, and its steps run while it is active. *)
JobRuns ==
  /\ job.state \in {"waiting", "active"} => job.tries < Attempts
  /\ proc[Job].pc # "idle" => job.state = "active"

IInv == TypeOK /\ JobRuns /\ RowMatchesItsHash /\ LockBound

LEMMA JobIsProc == /\ Job \in Procs /\ Job \notin Visitors
                   /\ Visitors \subseteq Procs /\ Free \notin Procs
  BY TranslationAssumption DEF Procs, Free

LEMMA WorkingIsFinite ==
  /\ IsFiniteSet(Procs)
  /\ Working \subseteq Procs /\ IsFiniteSet(Working) /\ Cardinality(Working) \in Nat
  <1>1. IsFiniteSet(Procs)
    BY TranslationAssumption, FS_AddElement DEF Procs
  <1>2. Working \subseteq Procs
    BY DEF Working
  <1>3. IsFiniteSet(Working)
    BY <1>1, <1>2, FS_Subset
  <1> QED BY <1>1, <1>2, <1>3, FS_CardinalityType

-----------------------------------------------------------------------------
(* One process moves. *)

Moved(p, pc) == /\ proc' \in [Procs -> ProcStates]
                /\ proc'[p].pc = pc
                /\ \A q \in Procs \ {p} : proc'[q] = proc[q]

LEMMA IdleOK == Idle \in ProcStates /\ Idle.pc = "idle"
  BY TranslationAssumption DEF Idle, ProcStates, Pcs

LEMMA GotoMoves ==
  ASSUME TypeOK, NEW p \in Procs, NEW pc \in Pcs, Goto(p, pc)
  PROVE  Moved(p, pc)
  <1> DEFINE s == [proc[p] EXCEPT !.pc = pc]
  <1>1. s \in ProcStates /\ s.pc = pc
    BY DEF TypeOK, ProcStates
  <1>2. proc' = [proc EXCEPT ![p] = s]
    BY DEF Goto, TypeOK
  <1> QED BY <1>1, <1>2 DEF Moved, TypeOK

LEMMA SeeMoves ==
  ASSUME TypeOK, NEW p \in Procs, NEW pc \in Pcs, NEW n \in 0 .. MaxVersions,
         See(p, pc, n)
  PROVE  Moved(p, pc)
  <1> DEFINE s == [Idle EXCEPT !.pc = pc, !.seen = n]
  <1>1. s \in ProcStates /\ s.pc = pc
    BY IdleOK DEF ProcStates
  <1> QED BY <1>1 DEF See, Moved, TypeOK

LEMMA EndMoves ==
  ASSUME TypeOK, NEW p \in Procs, End(p)
  PROVE  Moved(p, "idle")
  BY IdleOK DEF End, Moved, TypeOK

LEMMA AnswerMoves ==
  ASSUME TypeOK, NEW p \in Procs, NEW n \in 0 .. MaxVersions, Answer(p, n)
  PROVE  /\ Moved(p, "idle") \/ Moved(p, "cache")
         /\ p = Job => Moved(p, "idle")
  <1>1. CASE End(p)
    BY <1>1, EndMoves
  <1>2. CASE /\ p \in Visitors
             /\ proc' = [proc EXCEPT ![p].pc = "cache", ![p].text = n]
    <2> DEFINE s == [proc[p] EXCEPT !.pc = "cache", !.text = n]
    <2>1. s \in ProcStates /\ s.pc = "cache"
      BY DEF TypeOK, ProcStates, Pcs
    <2>2. proc' = [proc EXCEPT ![p] = s]
      BY <1>2 DEF TypeOK
    <2>3. Moved(p, "cache")
      BY <2>1, <2>2 DEF Moved, TypeOK
    <2> QED BY <1>2, <2>3, JobIsProc
  <1> QED BY <1>1, <1>2 DEF Answer

LEMMA WorkingMoves ==
  ASSUME NEW p \in Procs, NEW pc, Moved(p, pc)
  PROVE  Working' = IF pc \in Holding THEN Working \cup {p} ELSE Working \ {p}
  BY DEF Moved, Working

-----------------------------------------------------------------------------
(* What the lock bound survives. *)

LEMMA ExpiriesType == ASSUME TypeOK PROVE expiries \in Nat
  <1>1. faults \in Nat /\ expiries \in 0 .. faults
    BY TranslationAssumption DEF TypeOK
  <1> QED BY <1>1

LEMMA Leaves ==
  ASSUME TypeOK, LockBound, NEW p \in Procs, Working' = Working \ {p},
         expiries' = expiries,
         lock' = lock \/ (lock' = Free /\ (p \in Working \/ lock \notin Working))
  PROVE  LockBound'
  <1> DEFINE n == Cardinality(Working)
  <1>1. n \in Nat /\ expiries \in Nat
    BY WorkingIsFinite, ExpiriesType
  <1>2. n <= (IF lock \in Working THEN 1 ELSE 0) + expiries
    BY DEF LockBound
  <1>3. Free \notin Working
    BY JobIsProc, WorkingIsFinite
  <1>4. CASE p \in Working
    <2>1. Cardinality(Working') = n - 1
      BY <1>4, WorkingIsFinite, FS_RemoveElement
    <2>2. n - 1 <= expiries
      BY <1>1, <1>2
    <2>3. Cardinality(Working') <= expiries'
      BY <2>1, <2>2
    <2> HIDE DEF n
    <2>4. Cardinality(Working') \in Int
      BY <1>1, <2>1
    <2> QED BY <1>1, <2>3, <2>4 DEF LockBound
  <1>5. CASE p \notin Working
    <2>1. Working' = Working
      BY <1>5
    <2> QED BY <1>1, <1>2, <1>3, <1>5, <2>1 DEF LockBound
  <1> QED BY <1>4, <1>5

LEMMA Enters ==
  ASSUME TypeOK, LockBound, NEW p \in Procs, Working' = Working \cup {p},
         expiries' = expiries, lock = Free, lock' = p
  PROVE  LockBound'
  <1> DEFINE n == Cardinality(Working)
  <1>1. n \in Nat /\ expiries \in Nat
    BY WorkingIsFinite, ExpiriesType
  <1>2. Free \notin Working
    BY JobIsProc, WorkingIsFinite
  <1>3. n <= expiries
    BY <1>1, <1>2 DEF LockBound
  <1>4. Cardinality(Working') \in {n, n + 1}
    BY WorkingIsFinite, FS_AddElement
  <1>5. lock' \in Working'
    OBVIOUS
  <1> HIDE DEF n
  <1>6. Cardinality(Working') <= 1 + expiries
    BY <1>1, <1>3, <1>4
  <1> QED BY <1>5, <1>6 DEF LockBound

(* A step of process p that neither enters nor leaves the work. *)
LEMMA Passes ==
  ASSUME TypeOK, LockBound, NEW p \in Procs, NEW pc, Moved(p, pc),
         pc \in Holding <=> p \in Working, UNCHANGED <<lock, expiries>>
  PROVE  LockBound'
  <1>1. Working' = Working
    BY WorkingMoves, WorkingIsFinite
  <1> QED BY <1>1 DEF LockBound

-----------------------------------------------------------------------------

LEMMA InitOK == Init => IInv
  <1> SUFFICES ASSUME Init PROVE IInv
    OBVIOUS
  <1>1. TypeOK
    <2>1. proc \in [Procs -> ProcStates]
      BY IdleOK DEF Init
    <2> QED
      BY <2>1, TranslationAssumption DEF Init, TypeOK, Versions, NoList
  <1>2. JobRuns
    BY TranslationAssumption, IdleOK, JobIsProc DEF Init, JobRuns
  <1>3. RowMatchesItsHash
    BY DEF Init, RowMatchesItsHash
  <1>4. LockBound
    <2>1. Working = {}
      BY IdleOK DEF Init, Working, Holding
    <2> QED BY <2>1, FS_EmptySet DEF Init, LockBound
  <1> QED BY <1>1, <1>2, <1>3, <1>4 DEF IInv

(* A visitor's steps outside the lock. *)
LEMMA VisitorStepsOK ==
  ASSUME IInv, NEW v \in Visitors, Visit(v) \/ VisitStep(v)
  PROVE  IInv'
  <1> USE DEF IInv
  <1>1. v \in Procs /\ v # Job
    BY JobIsProc
  <1>2. proc[v].pc \notin Holding
    BY DEF Visit, VisitList, VisitSlug, VisitStep, VisitFill, Final, Poll, Holding
  <1>3. PICK pc \in Pcs \ Holding : Moved(v, pc)
    <2>1. {"idle", "fill", "rows", "cache"} \subseteq Pcs \ Holding
      BY DEF Pcs, Holding
    <2>2. /\ source \in 0 .. MaxVersions /\ list.seen \in 0 .. MaxVersions
          /\ row.text \in 0 .. MaxVersions /\ 0 \in 0 .. MaxVersions
      BY TranslationAssumption DEF TypeOK, Versions
    <2>3. CASE Visit(v)
      BY <1>1, <2>1, <2>2, <2>3, SeeMoves DEF Visit, VisitList, VisitSlug
    <2>4. CASE VisitFill(v)
      BY <1>1, <2>1, <2>4, GotoMoves, EndMoves DEF VisitFill
    <2>5. CASE Final(v) \/ Poll(v)
      BY <1>1, <2>1, <2>2, <2>5, AnswerMoves DEF Final, Poll
    <2> QED BY <2>3, <2>4, <2>5 DEF VisitStep
  <1>4. UNCHANGED <<kind, source, row, lock, job, admin, expiries>>
    BY DEF Visit, VisitList, VisitSlug, VisitStep, VisitFill, Final, Poll
  <1>5. faults' \in 0 .. MaxFaults /\ faults <= faults'
    BY TranslationAssumption
    DEF TypeOK, Visit, VisitList, VisitSlug, VisitStep, VisitFill, Final, Poll, Fault
  <1>6. list' = list \/ list' = [seen |-> proc[v].seen, text |-> proc[v].text]
    BY DEF Visit, VisitList, VisitSlug, VisitStep, VisitFill, Final, Poll
  <1>7. proc[v].seen \in 0 .. MaxVersions /\ proc[v].text \in 0 .. MaxVersions
    BY <1>1 DEF TypeOK, ProcStates
  <1>8. TypeOK'
    BY <1>3, <1>4, <1>5, <1>6, <1>7 DEF TypeOK, Moved
  <1>9. JobRuns' /\ RowMatchesItsHash'
    BY <1>1, <1>3, <1>4, JobIsProc DEF JobRuns, RowMatchesItsHash, Moved
  <1>10. LockBound'
    BY <1>1, <1>2, <1>3, <1>4, Passes DEF Working
  <1> QED BY <1>8, <1>9, <1>10

-----------------------------------------------------------------------------
(* The steps around the lock, for a visitor and the job alike. *)

LEMMA RowsOK ==
  ASSUME IInv, NEW p \in Procs, Rows(p)
  PROVE  IInv'
  <1> USE DEF IInv
  <1>1. /\ UNCHANGED <<kind, source, list, row, lock, admin, expiries, faults>>
        /\ proc[p].pc = "rows" /\ p \notin Working
    BY DEF Rows, Working, Holding
  <1>2. /\ row.text \in 0 .. MaxVersions
        /\ "lock" \in Pcs \ Holding /\ "idle" \in Pcs \ Holding /\ "cache" \in Pcs \ Holding
    BY DEF TypeOK, Pcs, Holding
  <1>3. CASE Fresh(p) /\ Answer(p, row.text) /\ JobEnds(p)
    <2>1. PICK pc \in Pcs \ Holding : Moved(p, pc) /\ (p = Job => pc = "idle")
      BY <1>2, <1>3, AnswerMoves
    <2>2. job' = IF p = Job THEN [job EXCEPT !.state = "completed"] ELSE job
      BY <1>3 DEF JobEnds
    <2>3. TypeOK'
      BY <1>1, <2>1, <2>2 DEF TypeOK, Moved
    <2>4. JobRuns' /\ RowMatchesItsHash'
      BY <1>1, <2>1, <2>2, JobIsProc DEF JobRuns, RowMatchesItsHash, Moved, TypeOK
    <2>5. LockBound'
      BY <1>1, <2>1, Passes
    <2> QED BY <2>3, <2>4, <2>5
  <1>4. CASE Goto(p, "lock") /\ UNCHANGED job
    <2>1. Moved(p, "lock")
      BY <1>2, <1>4, GotoMoves
    <2>2. TypeOK'
      BY <1>1, <1>4, <2>1 DEF TypeOK, Moved
    <2>3. JobRuns' /\ RowMatchesItsHash'
      BY <1>1, <1>4, <2>1, JobIsProc DEF JobRuns, RowMatchesItsHash, Moved
    <2>4. LockBound'
      BY <1>1, <1>2, <2>1, Passes
    <2> QED BY <2>2, <2>3, <2>4
  <1> QED BY <1>3, <1>4 DEF Rows

LEMMA AcquireLockOK ==
  ASSUME IInv, NEW p \in Procs, AcquireLock(p)
  PROVE  IInv'
  <1> USE DEF IInv
  <1>1. /\ UNCHANGED <<kind, source, list, row, admin, expiries, faults>>
        /\ proc[p].pc = "lock" /\ p \notin Working
    BY DEF AcquireLock, Working, Holding
  <1>2. "mark" \in Pcs /\ "mark" \in Holding /\ {"idle", "poll"} \subseteq Pcs \ Holding
    BY DEF Pcs, Holding
  <1>3. CASE lock = Free /\ lock' = p /\ Goto(p, "mark") /\ UNCHANGED job
    <2>1. Moved(p, "mark")
      BY <1>2, <1>3, GotoMoves
    <2>2. Working' = Working \cup {p}
      BY <1>2, <2>1, WorkingMoves
    <2>3. TypeOK'
      BY <1>1, <1>3, <2>1 DEF TypeOK, Moved
    <2>4. JobRuns' /\ RowMatchesItsHash'
      BY <1>1, <1>3, <2>1, JobIsProc DEF JobRuns, RowMatchesItsHash, Moved
    <2>5. LockBound'
      BY <1>1, <1>3, <2>2, Enters
    <2> QED BY <2>3, <2>4, <2>5
  <1>4. CASE /\ IF p = Job THEN End(p) ELSE Goto(p, "poll")
             /\ JobEnds(p)
             /\ UNCHANGED lock
    <2>1. PICK pc \in {"idle", "poll"} : Moved(p, pc) /\ (p = Job => pc = "idle")
      BY <1>2, <1>4, EndMoves, GotoMoves
    <2>2. job' = IF p = Job THEN [job EXCEPT !.state = "completed"] ELSE job
      BY <1>4 DEF JobEnds
    <2>3. TypeOK'
      BY <1>1, <1>4, <2>1, <2>2 DEF TypeOK, Moved
    <2>4. JobRuns' /\ RowMatchesItsHash'
      BY <1>1, <2>1, <2>2, JobIsProc DEF JobRuns, RowMatchesItsHash, Moved, TypeOK
    <2>5. LockBound'
      BY <1>1, <1>2, <1>4, <2>1, Passes
    <2> QED BY <2>3, <2>4, <2>5
  <1> QED BY <1>3, <1>4 DEF AcquireLock

LEMMA MarkOK ==
  ASSUME IInv, NEW p \in Procs, Mark(p)
  PROVE  IInv'
  <1> USE DEF IInv
  <1>1. /\ UNCHANGED <<kind, source, list, lock, job, admin, expiries, faults>>
        /\ p \in Working /\ "call" \in Pcs /\ "call" \in Holding
    BY DEF Mark, Working, Holding, Pcs
  <1>2. Moved(p, "call")
    BY <1>1, GotoMoves DEF Mark
  <1>3. /\ row' \in [status : {"none", "missing", "translating", "translated", "failed"},
                     hash : 0 .. MaxVersions, text : 0 .. MaxVersions]
        /\ row'.status = "translating"
    <2>1. proc[p].seen \in 0 .. MaxVersions /\ 0 \in 0 .. MaxVersions
      BY TranslationAssumption DEF TypeOK, ProcStates
    <2> QED BY <2>1 DEF Mark, TypeOK
  <1>4. TypeOK'
    BY <1>1, <1>2, <1>3 DEF TypeOK, Moved
  <1>5. JobRuns' /\ RowMatchesItsHash'
    BY <1>1, <1>2, <1>3, JobIsProc DEF JobRuns, RowMatchesItsHash, Moved, Mark
  <1>6. LockBound'
    BY <1>1, <1>2, Passes
  <1> QED BY <1>4, <1>5, <1>6

LEMMA TranslateOK ==
  ASSUME IInv, NEW p \in Procs, Translate(p)
  PROVE  IInv'
  <1> USE DEF IInv
  <1>1. /\ UNCHANGED <<kind, source, list, lock, job, admin, expiries>>
        /\ p \in Working /\ "release" \in Pcs /\ "release" \in Holding
        /\ proc[p].pc = "call"
    BY DEF Translate, Working, Holding, Pcs
  <1>2. Moved(p, "release")
    BY <1>1, GotoMoves DEF Translate
  <1>3. faults' \in 0 .. MaxFaults /\ faults <= faults'
    BY TranslationAssumption DEF TypeOK, Translate, Fault
  <1>4. /\ row' \in [status : {"none", "missing", "translating", "translated", "failed"},
                     hash : 0 .. MaxVersions, text : 0 .. MaxVersions]
        /\ RowMatchesItsHash'
    <2>1. proc[p].seen \in 0 .. MaxVersions
      BY DEF TypeOK, ProcStates
    <2> QED BY <2>1 DEF Translate, TypeOK, RowMatchesItsHash
  <1>5. TypeOK'
    BY <1>1, <1>2, <1>3, <1>4 DEF TypeOK, Moved
  <1>6. JobRuns'
    BY <1>1, <1>2, JobIsProc DEF JobRuns, Moved
  <1>7. LockBound'
    BY <1>1, <1>2, Passes
  <1> QED BY <1>4, <1>5, <1>6, <1>7

LEMMA ReleaseLockOK ==
  ASSUME IInv, NEW p \in Procs, ReleaseLock(p)
  PROVE  IInv'
  <1> USE DEF IInv
  <1>1. /\ UNCHANGED <<kind, source, list, row, admin, expiries, faults>>
        /\ lock' = Free /\ p \in Working /\ {"idle", "final"} \subseteq Pcs \ Holding
    BY DEF ReleaseLock, Working, Holding, Pcs
  <1>2. PICK pc \in {"idle", "final"} : Moved(p, pc) /\ (p = Job => pc = "idle")
    BY <1>1, EndMoves, GotoMoves DEF ReleaseLock
  <1>3. job' = IF p = Job THEN [job EXCEPT !.state = "completed"] ELSE job
    BY DEF ReleaseLock, JobEnds
  <1>4. TypeOK'
    BY <1>1, <1>2, <1>3 DEF TypeOK, Moved
  <1>5. JobRuns' /\ RowMatchesItsHash'
    BY <1>1, <1>2, <1>3, JobIsProc DEF JobRuns, RowMatchesItsHash, Moved, TypeOK
  <1>6. LockBound'
    <2>1. Working' = Working \ {p}
      BY <1>1, <1>2, WorkingMoves
    <2> QED BY <1>1, <2>1, Leaves
  <1> QED BY <1>4, <1>5, <1>6

-----------------------------------------------------------------------------
(* Failures. *)

(* A process that leaves for good, or for the caching of its answer, and   *)
(* takes the lock, if it has one, with it.                                 *)
LEMMA GivesUp ==
  ASSUME TypeOK, LockBound, NEW p \in Procs, NEW pc \in Pcs \ Holding,
         Moved(p, pc), UNCHANGED <<lock, expiries>>
  PROVE  LockBound'
  <1>1. Working' = Working \ {p}
    BY WorkingMoves
  <1> QED BY <1>1, Leaves

LEMMA ThrowOK ==
  ASSUME IInv, NEW p \in Procs, Throw(p)
  PROVE  IInv'
  <1> USE DEF IInv
  <1>1. /\ UNCHANGED <<kind, source, list, row, admin, expiries>>
        /\ lock' = lock \/ (lock' = Free /\ p \in Working)
    BY DEF Throw, Working, Holding
  <1>2. faults' \in 0 .. MaxFaults /\ faults <= faults'
    BY TranslationAssumption DEF TypeOK, Throw, Fault
  <1>3. PICK pc \in Pcs \ Holding : Moved(p, pc) /\ (p = Job => pc = "idle")
    <2>1. 0 \in 0 .. MaxVersions /\ {"idle", "cache"} \subseteq Pcs \ Holding
      BY TranslationAssumption DEF Pcs, Holding
    <2> QED BY <2>1, AnswerMoves DEF Throw
  <1>4. /\ job' \in [state : {"none", "waiting", "active", "completed", "failed"},
                     tries : 0 .. Attempts]
        /\ job'.state \in {"waiting", "active"} => job'.tries < Attempts
        /\ p # Job => job' = job
    <2>1. CASE p # Job
      BY <2>1 DEF Throw, TypeOK, JobRuns
    <2>2. CASE p = Job
      <3>1. job.state = "active" /\ job.tries < Attempts /\ job.tries \in Nat
        BY <2>2, TranslationAssumption DEF Throw, JobRuns, TypeOK, Holding
      <3> QED BY <2>2, <3>1, TranslationAssumption DEF Throw
    <2> QED BY <2>1, <2>2
  <1>5. TypeOK'
    BY <1>1, <1>2, <1>3, <1>4 DEF TypeOK, Moved
  <1>6. JobRuns' /\ RowMatchesItsHash'
    BY <1>1, <1>3, <1>4, JobIsProc DEF JobRuns, RowMatchesItsHash, Moved
  <1>7. LockBound'
    <2>1. Working' = Working \ {p}
      BY <1>3, WorkingMoves
    <2> QED BY <1>1, <2>1, Leaves
  <1> QED BY <1>5, <1>6, <1>7

LEMMA CrashOK ==
  ASSUME IInv, NEW p \in Procs, Crash(p)
  PROVE  IInv'
  <1> USE DEF IInv
  <1>1. /\ UNCHANGED <<kind, source, list, row, lock, admin, expiries>>
        /\ proc[p].pc # "idle" /\ "idle" \in Pcs \ Holding
    BY DEF Crash, Pcs, Holding
  <1>2. faults' \in 0 .. MaxFaults /\ faults <= faults'
    BY TranslationAssumption DEF TypeOK, Crash, Fault
  <1>3. Moved(p, "idle")
    BY EndMoves DEF Crash
  <1>4. job' = IF p = Job THEN [job EXCEPT !.state = "waiting"] ELSE job
    BY DEF Crash
  <1>5. TypeOK'
    BY <1>1, <1>2, <1>3, <1>4 DEF TypeOK, Moved
  <1>6. JobRuns' /\ RowMatchesItsHash'
    BY <1>1, <1>3, <1>4, JobIsProc DEF JobRuns, RowMatchesItsHash, Moved, TypeOK
  <1>7. LockBound'
    BY <1>1, <1>3, GivesUp
  <1> QED BY <1>5, <1>6, <1>7

-----------------------------------------------------------------------------
(* The job's queue, the admin and time. *)

LEMMA JobStartsOK ==
  ASSUME IInv, JobStarts
  PROVE  IInv'
  <1> USE DEF IInv
  <1>1. /\ UNCHANGED <<kind, source, list, row, lock, admin, expiries, faults>>
        /\ job.state = "waiting" /\ job' = [job EXCEPT !.state = "active"]
    BY DEF JobStarts
  <1>2. /\ "rows" \in Pcs \ Holding /\ source \in 0 .. MaxVersions
        /\ proc[Job].pc = "idle"
    BY <1>1, TranslationAssumption, JobIsProc DEF TypeOK, Versions, JobRuns, Pcs, Holding
  <1>3. Moved(Job, "rows")
    BY <1>2, JobIsProc, SeeMoves DEF JobStarts
  <1>4. TypeOK'
    BY <1>1, <1>3 DEF TypeOK, Moved
  <1>5. JobRuns' /\ RowMatchesItsHash'
    BY <1>1, <1>3 DEF JobRuns, RowMatchesItsHash, TypeOK
  <1>6. LockBound'
    BY <1>1, <1>2, <1>3, JobIsProc, Passes DEF Working, Holding
  <1> QED BY <1>4, <1>5, <1>6

(* The steps that move no process and leave the lock alone. *)
LEMMA OtherStepsOK ==
  ASSUME IInv,
         JobForgotten \/ EditWrite \/ EditPublish \/ Invalidate \/ ListExpires
           \/ UNCHANGED vars
  PROVE  IInv'
  <1> USE DEF IInv
  <1>1. UNCHANGED <<kind, lock, proc, expiries>>
    BY DEF JobForgotten, EditWrite, SaveService, SavePosition,
        EditPublish, DropList, Invalidate, ListExpires, vars
  <1>2. faults' \in 0 .. MaxFaults /\ faults <= faults'
    BY TranslationAssumption
    DEF TypeOK, JobForgotten, EditWrite, SaveService, SavePosition,
        EditPublish, DropList, Invalidate, ListExpires, vars, Fault
  <1>3. source' \in Versions /\ admin' \in {"idle", "written"}
    BY TranslationAssumption
    DEF TypeOK, Versions, JobForgotten, EditWrite, SaveService, SavePosition,
        EditPublish, DropList, Invalidate, ListExpires, vars
  <1>4. list' = list \/ list' = NoList
    BY DEF JobForgotten, EditWrite, SaveService, SavePosition,
        EditPublish, DropList, Invalidate, ListExpires, vars
  <1>5. row' = row \/ row' = [row EXCEPT !.status = "missing", !.text = 0]
    BY DEF JobForgotten, EditWrite, SaveService, SavePosition,
        EditPublish, DropList, Invalidate, ListExpires, vars
  <1>6. \/ job' = job
        \/ job.state = "none" /\ job' = [state |-> "waiting", tries |-> 0]
        \/ /\ job.state \in {"completed", "failed"}
           /\ job' = [state |-> "none", tries |-> 0]
    BY DEF JobForgotten, EditWrite, SaveService, SavePosition,
        EditPublish, DropList, Invalidate, ListExpires, vars
  <1>7. TypeOK'
    <2>1. list' \in [seen : 0 .. MaxVersions, text : 0 .. MaxVersions]
      BY <1>4, TranslationAssumption DEF TypeOK, NoList
    <2>2. row' \in [status : {"none", "missing", "translating", "translated", "failed"},
                   hash : 0 .. MaxVersions, text : 0 .. MaxVersions]
      <3>1. 0 \in 0 .. MaxVersions
        BY TranslationAssumption
      <3>2. CASE row' = row
        BY <3>2 DEF TypeOK
      <3>3. CASE row' = [row EXCEPT !.status = "missing", !.text = 0]
        <4>1. row' = [status |-> "missing", hash |-> row.hash, text |-> 0]
          BY <3>3 DEF TypeOK
        <4>2. row.hash \in 0 .. MaxVersions
          BY DEF TypeOK
        <4> QED BY <3>1, <4>1, <4>2
      <3> QED BY <1>5, <3>2, <3>3
    <2>3. job' \in [state : {"none", "waiting", "active", "completed", "failed"},
                   tries : 0 .. Attempts]
      BY <1>6, TranslationAssumption DEF TypeOK
    <2>4. faults \in 0 .. MaxFaults /\ expiries \in 0 .. faults
      BY DEF TypeOK
    <2>5. expiries' \in 0 .. faults'
      BY <1>1, <1>2, <2>4, TranslationAssumption
    <2> QED BY <1>1, <1>2, <1>3, <2>1, <2>2, <2>3, <2>5 DEF TypeOK
  <1>8. JobRuns'
    BY <1>1, <1>6, TranslationAssumption DEF JobRuns
  <1>9. RowMatchesItsHash'
    BY <1>5 DEF RowMatchesItsHash, TypeOK
  <1>10. LockBound'
    BY <1>1 DEF LockBound, Working
  <1> QED BY <1>7, <1>8, <1>9, <1>10

(* A lock that nobody at work holds: nobody is let off. *)
LEMMA OrphanLockExpiresOK ==
  ASSUME IInv, OrphanLockExpires
  PROVE  IInv'
  <1> USE DEF IInv
  <1>1. /\ UNCHANGED <<kind, source, list, row, proc, job, admin, expiries, faults>>
        /\ lock \notin Working /\ lock' = Free
    BY DEF OrphanLockExpires
  <1>2. Working' = Working /\ Free \notin Working
    BY <1>1, JobIsProc, WorkingIsFinite DEF Working
  <1>3. LockBound'
    BY <1>1, <1>2 DEF LockBound
  <1> QED BY <1>1, <1>3 DEF TypeOK, JobRuns, RowMatchesItsHash

(* A lock that expires under its owner is counted by expiries. *)
LEMMA LockExpiresOK ==
  ASSUME IInv, LockExpires
  PROVE  IInv'
  <1> USE DEF IInv
  <1>1. /\ UNCHANGED <<kind, source, list, row, proc, job, admin>>
        /\ lock \in Working /\ lock' = Free /\ expiries' = expiries + 1
        /\ faults < MaxFaults /\ faults' = faults + 1
    BY DEF LockExpires, Fault
  <1>2. Working' = Working /\ Free \notin Working
    BY <1>1, JobIsProc, WorkingIsFinite DEF Working
  <1>3. Cardinality(Working) \in Nat /\ expiries \in Nat
    BY WorkingIsFinite, ExpiriesType
  <1>4. LockBound'
    BY <1>1, <1>2, <1>3 DEF LockBound
  <1>5. faults \in 0 .. MaxFaults /\ expiries \in 0 .. faults
    BY DEF TypeOK
  <1>6. faults' \in 0 .. MaxFaults /\ expiries' \in 0 .. faults'
    BY <1>1, <1>5, TranslationAssumption
  <1> QED BY <1>1, <1>4, <1>6 DEF TypeOK, JobRuns, RowMatchesItsHash

-----------------------------------------------------------------------------

LEMMA StepOK == IInv /\ [Next]_vars => IInv'
  <1> SUFFICES ASSUME IInv, [Next]_vars PROVE IInv'
    OBVIOUS
  <1>1. CASE \E v \in Visitors : Visit(v) \/ VisitStep(v)
    BY <1>1, VisitorStepsOK
  <1>2. CASE \E p \in Procs : Step(p)
    BY <1>2, RowsOK, AcquireLockOK, MarkOK, TranslateOK, ReleaseLockOK DEF Step
  <1>3. CASE \E p \in Procs : Throw(p) \/ Crash(p)
    BY <1>3, ThrowOK, CrashOK
  <1>4. CASE JobStarts
    BY <1>4, JobStartsOK
  <1>5. CASE JobForgotten \/ EditWrite \/ EditPublish \/ Invalidate \/ ListExpires
               \/ UNCHANGED vars
    BY <1>5, OtherStepsOK
  <1>6. CASE OrphanLockExpires
    BY <1>6, OrphanLockExpiresOK
  <1>7. CASE LockExpires
    BY <1>7, LockExpiresOK
  <1> QED BY <1>1, <1>2, <1>3, <1>4, <1>5, <1>6, <1>7 DEF Next

LEMMA Invariance == Spec => []IInv
  BY InitOK, StepOK, PTL DEF Spec

(* Every state of the text, its row, the lock, the list and the job keeps  *)
(* the types, for any number of visitors: every row the upserts write has  *)
(* a hash, and the queue never counts past its attempts.                   *)
THEOREM TranslationTypeCorrect == Spec => []TypeOK
  BY Invariance, PTL DEF IInv

(* A row marked translated holds the translation of the version its hash   *)
(* names, whatever edits, expired locks and other translators intervened:  *)
(* the hash comparison of getTranslatedContent can be relied on.           *)
THEOREM RowsMatchTheirHash == Spec => []RowMatchesItsHash
  BY Invariance, PTL DEF IInv

(* However many requests come, no more than one of them translates, but    *)
(* for one more per lock that expired under its working owner, although    *)
(* releaseLock deletes a lock that may be another's by then.               *)
THEOREM OneTranslatorPerExpiry == Spec => []EachExpiryAdmitsOne
  <1>1. IInv => EachExpiryAdmitsOne
    <2> SUFFICES ASSUME IInv PROVE EachExpiryAdmitsOne
      OBVIOUS
    <2>1. Cardinality(Working) \in Nat /\ expiries \in Nat
      BY WorkingIsFinite, ExpiriesType DEF IInv
    <2> QED BY <2>1 DEF IInv, LockBound, EachExpiryAdmitsOne
  <1> QED BY <1>1, Invariance, PTL
=============================================================================
