--------------------------- MODULE FailoverProofs ----------------------------
(***************************************************************************)
(* What the two components of the Postgres failover prove: FailoverMonitor *)
(* and StandbyReplication.                                                 *)
(*                                                                         *)
(* FailoverMonitor: for every pair of thresholds, and for the bounded and  *)
(* the unbounded ping alike, the counters are the run of checks against    *)
(* the mode, and the monitor implements Debounce.                          *)
(*                                                                         *)
(* StandbyReplication: for any number of replicas, rows, writes, outages   *)
(* and crashes.  Three things make its properties inductive: the log keeps *)
(* its entries, so what a run has to replay stays in it; the rows the      *)
(* primary held since a sync began are still held; and a sync that has     *)
(* read only the primary has seen every one of them up to where it stands. *)
(***************************************************************************)
EXTENDS FailoverMonitor, StandbyReplication, TLAPS, SequenceTheorems,
        WellFoundedInduction

(* FailoverMonitor. *)

(* Extending a run keeps it a run: one longer when the outcome repeats and *)
(* the cap is not reached, one check long when it changes.                 *)
LEMMA ExtendType ==
  ASSUME NEW s \in [last : Outcomes, n : 0 .. StreakCap], NEW o \in Outcomes
  PROVE  Extend(s, o) \in [last : Outcomes, n : 0 .. StreakCap]
BY MonitorAssumption DEF Extend, StreakCap, Outcomes

(* The state of a monitor stays within its types. *)
THEOREM MonitorTypeCorrect == Spec => []TypeOK
<1> USE MonitorAssumption DEF Links, Outcomes
<1>1. Init => TypeOK
  BY DEF Init, TypeOK, NoOutcome, StreakCap
<1>2. TypeOK /\ [Next]_vars => TypeOK'
  <2> SUFFICES ASSUME TypeOK, [Next]_vars
               PROVE  TypeOK'
    OBVIOUS
  <2> USE DEF TypeOK
  <2>1. CASE StartCheck
    BY <2>1 DEF StartCheck
  <2>2. CASE PingAnswered
    <3>1. streak' \in [last : Outcomes, n : 0 .. StreakCap]
      BY <2>2, ExtendType DEF PingAnswered, CountSuccess, CountTowardRecovery
    <3>2. QED
      BY <2>2, <3>1 DEF PingAnswered, CountSuccess, CountTowardRecovery
  <2>3. CASE PingRefused
    <3>1. streak' \in [last : Outcomes, n : 0 .. StreakCap]
      BY <2>3, ExtendType DEF PingRefused, CountFailure, CountTowardFailover
    <3>2. QED
      BY <2>3, <3>1 DEF PingRefused, CountFailure, CountTowardFailover
  <2>4. CASE PingTimesOut
    <3>1. streak' \in [last : Outcomes, n : 0 .. StreakCap]
      BY <2>4, ExtendType DEF PingTimesOut, CountFailure, CountTowardFailover
    <3>2. QED
      BY <2>4, <3>1 DEF PingTimesOut, CountFailure, CountTowardFailover
  <2>5. CASE LateAnswer
    BY <2>5 DEF LateAnswer
  <2>6. CASE LinkChanges
    BY <2>6 DEF LinkChanges
  <2>7. CASE Restart
    BY <2>7 DEF Restart, NoOutcome, StreakCap
  <2>8. CASE UNCHANGED vars
    BY <2>8 DEF vars
  <2>9. QED
    BY <2>1, <2>2, <2>3, <2>4, <2>5, <2>6, <2>7, <2>8 DEF Next, EndCheck
<1>3. QED
  BY <1>1, <1>2, PTL DEF Spec

-----------------------------------------------------------------------------
(* A successful check leaves the counters equal to the runs. *)
LEMMA SuccessKeepsCounters ==
  ASSUME TypeOK, CountersAreStreak, CountSuccess
  PROVE  CountersAreStreak'
BY MonitorAssumption
   DEF TypeOK, CountersAreStreak, CountSuccess, CountTowardRecovery, Extend,
       StreakCap, Outcomes

(* So does a failed one. *)
LEMMA FailureKeepsCounters ==
  ASSUME TypeOK, CountersAreStreak, CountFailure
  PROVE  CountersAreStreak'
BY MonitorAssumption
   DEF TypeOK, CountersAreStreak, CountFailure, CountTowardFailover, Extend,
       StreakCap, Outcomes

(* CountersAreStreak is inductive, given the types. *)
LEMMA CountersStep ==
  TypeOK /\ CountersAreStreak /\ [Next]_vars => CountersAreStreak'
<1> SUFFICES ASSUME TypeOK, CountersAreStreak, [Next]_vars
             PROVE  CountersAreStreak'
  OBVIOUS
<1>1. CASE StartCheck
  BY <1>1 DEF StartCheck, CountersAreStreak
<1>2. CASE PingAnswered
  BY <1>2, SuccessKeepsCounters DEF PingAnswered
<1>3. CASE PingRefused
  BY <1>3, FailureKeepsCounters DEF PingRefused
<1>4. CASE PingTimesOut
  BY <1>4, FailureKeepsCounters DEF PingTimesOut
<1>5. CASE LateAnswer
  BY <1>5 DEF LateAnswer, CountersAreStreak
<1>6. CASE LinkChanges
  BY <1>6 DEF LinkChanges, CountersAreStreak
<1>7. CASE Restart
  BY <1>7, MonitorAssumption DEF Restart, CountersAreStreak, NoOutcome
<1>8. CASE UNCHANGED vars
  BY <1>8 DEF vars, CountersAreStreak
<1>9. QED
  BY <1>1, <1>2, <1>3, <1>4, <1>5, <1>6, <1>7, <1>8 DEF Next, EndCheck

(* Whatever the thresholds, the counter of the current mode is the run of  *)
(* checks against it (failover.service.ts checkPostgres, checkRedis).      *)
THEOREM CountersCorrect == Spec => []CountersAreStreak
<1>1. Init => CountersAreStreak
  BY MonitorAssumption DEF Init, CountersAreStreak, NoOutcome
<1>2. QED
  BY <1>1, CountersStep, MonitorTypeCorrect, PTL DEF Spec

-----------------------------------------------------------------------------
(* A step that switches the mode completes a run of contradicting checks,  *)
(* or is a boot.                                                           *)
LEMMA FlipStep ==
  ASSUME TypeOK, CountersAreStreak, Next, mode' # mode
  PROVE  \/ mode' = "local" /\ FailedRun(streak')
         \/ mode' = "primary" /\ GoodRun(streak')
         \/ restarts' # restarts
<1> USE MonitorAssumption DEF TypeOK, FailedRun, GoodRun
<1>1. CASE CountSuccess
  BY <1>1 DEF CountersAreStreak, CountSuccess, CountTowardRecovery, Extend,
       StreakCap, Outcomes
<1>2. CASE CountFailure
  BY <1>2 DEF CountersAreStreak, CountFailure, CountTowardFailover, Extend,
       StreakCap, Outcomes
<1>3. CASE Restart
  BY <1>3 DEF Restart
<1>4. QED
  BY <1>1, <1>2, <1>3 DEF Next, EndCheck, StartCheck, PingAnswered,
     PingRefused, PingTimesOut, LateAnswer, LinkChanges

(* "A single blip must never trigger a failover" (failover.service.ts:14), *)
(* for every threshold.                                                    *)
THEOREM NoFlipOnBlip == Spec => FlipsNeedARun
<1>1. /\ TypeOK
      /\ CountersAreStreak
      /\ [Next]_vars
      => [mode' # mode =>
            \/ mode' = "local" /\ FailedRun(streak')
            \/ mode' = "primary" /\ GoodRun(streak')
            \/ restarts' # restarts]_vars
  BY FlipStep DEF vars
<1>2. QED
  BY <1>1, MonitorTypeCorrect, CountersCorrect, PTL DEF Spec, FlipsNeedARun

-----------------------------------------------------------------------------
(* A check is a step of the abstract run of contradicting evidence. *)
LEMMA CheckRefines ==
  ASSUME TypeOK, CountersAreStreak, CountSuccess \/ CountFailure
  PROVE  [Promise!Next]_(Promise!vars)
BY MonitorAssumption
   DEF TypeOK, CountersAreStreak, CountSuccess, CountTowardRecovery,
       CountFailure, CountTowardFailover, Promise!Next,
       Promise!Confirm, Promise!Contradict, Promise!Switch, Promise!Threshold,
       Promise!Other, Promise!vars

(* Every behaviour of the monitor is one the abstract Debounce allows. *)
THEOREM MonitorImplementsDebounce == Spec => Debounced
<1>1. Init => Promise!Init
  BY DEF Init, Promise!Init
<1>2. TypeOK /\ CountersAreStreak /\ [Next]_vars
      => [Promise!Next]_(Promise!vars)
  <2> SUFFICES ASSUME TypeOK, CountersAreStreak, [Next]_vars
               PROVE  [Promise!Next]_(Promise!vars)
    OBVIOUS
  <2>1. CASE EndCheck
    BY <2>1, CheckRefines DEF EndCheck, PingAnswered, PingRefused, PingTimesOut
  <2>2. CASE Restart
    BY <2>2 DEF Restart, Promise!Next, Promise!Boot, Promise!vars
  <2>3. CASE StartCheck \/ LateAnswer \/ LinkChanges \/ UNCHANGED vars
    BY <2>3 DEF StartCheck, LateAnswer, LinkChanges, vars, Promise!vars
  <2>4. QED
    BY <2>1, <2>2, <2>3 DEF Next
<1>3. QED
  BY <1>1, <1>2, MonitorTypeCorrect, CountersCorrect, PTL
     DEF Spec, Debounced, Promise!Spec

-----------------------------------------------------------------------------
(* StandbyReplication. *)

(* A log keeps its entries: none goes, none changes its write. *)
LogKept(l, m) ==
  /\ Len(l) <= Len(m)
  /\ \A i \in 1 .. Len(l) : m[i].id = l[i].id

Replaying == {"replay", "conflict", "mark"}

(* A run that replays has entries left, all of them in the standby's log; *)
(* a run that does not has none.                                          *)
RunInRange(s, n) ==
  /\ s.pc \in Replaying =>
       /\ s.from = "local"
       /\ s.todo # {}
       /\ s.todo \subseteq 1 .. n
  /\ s.pc \notin Replaying => s.todo = {}

RunsInRange == \A r \in Replicas : RunInRange(rec[r], Len(log["local"]))

(* The rows the primary held all along are still held. *)
SteadyIsHeld == \A r \in Replicas : \A k \in steady[r] : db["primary"][k] # 0

(* A sync that has read only the primary has every such row up to where it *)
(* stands, and at the end of phase 1 all of them.                          *)
PhaseSound(s, held) ==
  "local" \notin s.from =>
    /\ s.pc = "read" => (\A k \in held : k <= s.at => k \in s.seen)
    /\ s.pc = "write" => (\A k \in held : k < s.at => k \in s.seen)
    /\ s.pc \in {"stale", "delete"} => held \subseteq s.seen
    /\ s.pc = "delete" => s.at \notin s.seen

PhasesSound == \A r \in Replicas : PhaseSound(sync[r], steady[r])

LogSound == RunsInRange /\ ReplaysComeFromStandby

(* A sync that holds a page, or is about to delete, stands at a row. *)
SyncsPlaced ==
  \A r \in Replicas : sync[r].pc \in {"write", "delete"} => sync[r].at \in Keys

SyncSound == SteadyIsHeld /\ SyncsPlaced /\ PhasesSound

ReplicationInv == ReplicationTypeOK /\ LogSound /\ SyncSound

-----------------------------------------------------------------------------
(* The first of a set of positions or of rows is its least. *)
LEMMA FirstIsLeast ==
  ASSUME NEW S \in SUBSET Nat, S # {}
  PROVE  First(S) \in S /\ \A j \in S : First(S) <= j
<1>1. PICK k \in S : \A j \in S : ~(<<j, k>> \in OpToRel(<, Nat))
  BY NatLessThanWellFounded, WFMin
<1>2. \A j \in S : k <= j
  <2>1. SUFFICES ASSUME NEW j \in S, j < k
                 PROVE  FALSE
    OBVIOUS
  <2>2. <<j, k>> \in OpToRel(<, Nat)
    BY <1>1, <2>1, Zenon DEF OpToRel
  <2>3. QED
    BY <1>1, <2>2
<1>3. QED
  BY <1>2 DEF First

(* A worker without a job. *)
LEMMA IdleTypes == IdleSync \in SyncStates /\ IdleRec \in RecStates
<1>1. 0 \in 0 .. KeyCount /\ 0 \in Contents /\ 0 \in 0 .. Attempts
  BY ReplicationAssumption DEF Contents, Seed
<1>2. QED
  BY <1>1 DEF IdleSync, IdleRec, SyncStates, RecStates, DBs

(* What is logged of a write, or of an entry, is an entry. *)
LEMMA EntryType ==
  ASSUME NEW w, w.op \in Ops, w.key \in Keys, w.id \in WriteIds
  PROVE  Entry(w) \in Entries
BY DEF Entry, Entries

(* Rows after a write. *)
LEMMA ApplyType ==
  ASSUME NEW w, w.key \in Keys, w.id \in WriteIds,
         NEW rows \in [Keys -> Contents]
  PROVE  Apply(w, rows) \in [Keys -> Contents]
<1>1. 0 \in Contents /\ w.id \in Contents
  BY ReplicationAssumption DEF Contents, Seed, WriteIds
<1>2. QED
  BY <1>1 DEF Apply

(* An entry added at the end. *)
LEMMA AppendKeeps ==
  ASSUME NEW l \in Seq(Entries), NEW e \in Entries
  PROVE  /\ Append(l, e) \in Seq(Entries)
         /\ LogKept(l, Append(l, e))
         /\ Append(l, e)[Len(Append(l, e))] = e
         /\ Len(Append(l, e)) = Len(l) + 1
BY DEF LogKept

(* An entry marked as reconciled. *)
LEMMA MarkKeeps ==
  ASSUME NEW l \in Seq(Entries), NEW p \in 1 .. Len(l)
  PROVE  /\ [l EXCEPT ![p].state = "done"] \in Seq(Entries)
         /\ LogKept(l, [l EXCEPT ![p].state = "done"])
<1> DEFINE m == [l EXCEPT ![p].state = "done"]
<1>1. l[p] \in Entries
  OBVIOUS
<1>2. PICK e \in Entries : e = [l[p] EXCEPT !.state = "done"]
  BY <1>1 DEF Entries
<1>3. e.id = l[p].id
  BY <1>1, <1>2 DEF Entries
<1>4. m = [l EXCEPT ![p] = e]
  BY <1>2
<1>5. m \in Seq(Entries) /\ Len(m) = Len(l)
  BY <1>4
<1>6. ASSUME NEW i \in 1 .. Len(l) PROVE m[i].id = l[i].id
  BY <1>3, <1>4, <1>6
<1>7. QED
  BY <1>5, <1>6 DEF LogKept

-----------------------------------------------------------------------------
(* One replica's sync, or its reconciliation, takes a step. *)
LEMMA SyncTakes ==
  ASSUME ReplicationTypeOK, NEW r \in Replicas, NEW s \in SyncStates,
         sync' = [sync EXCEPT ![r] = s]
  PROVE  /\ sync' \in [Replicas -> SyncStates]
         /\ sync'[r] = s
         /\ \A q \in Replicas \ {r} : sync'[q] = sync[q]
BY DEF ReplicationTypeOK

LEMMA RecTakes ==
  ASSUME ReplicationTypeOK, NEW r \in Replicas, NEW s \in RecStates,
         rec' = [rec EXCEPT ![r] = s]
  PROVE  /\ rec' \in [Replicas -> RecStates]
         /\ rec'[r] = s
         /\ \A q \in Replicas \ {r} : rec'[q] = rec[q]
BY DEF ReplicationTypeOK

(* The entry a run stands at. *)
LEMMA CurrentType ==
  ASSUME ReplicationTypeOK, LogSound, NEW r \in Replicas,
         rec[r].pc \in Replaying
  PROVE  /\ rec[r].from = "local"
         /\ Position(r) \in rec[r].todo
         /\ Position(r) \in 1 .. Len(log["local"])
         /\ Current(r) = log["local"][Position(r)]
         /\ Current(r) \in Entries
<1>1. /\ rec[r].from = "local"
      /\ rec[r].todo # {}
      /\ rec[r].todo \subseteq 1 .. Len(log["local"])
  BY DEF LogSound, RunsInRange, RunInRange
<1>2. log["local"] \in Seq(Entries)
  BY DEF ReplicationTypeOK, DBs
<1>3. rec[r].todo \in SUBSET Nat
  BY <1>1, <1>2
<1>4. Position(r) \in rec[r].todo
  BY <1>1, <1>3, FirstIsLeast DEF Position
<1>5. QED
  BY <1>1, <1>2, <1>4 DEF Current

(* What a failed reconciliation leaves of the run and of its job. *)
LEMMA FailedRunTypes ==
  ASSUME ReplicationTypeOK, NEW r \in Replicas, FailRecJob(r)
  PROVE  rec' \in [Replicas -> RecStates] /\ jobs' \in Seq(0 .. Attempts)
<1>1. rec' \in [Replicas -> RecStates]
  BY IdleTypes DEF FailRecJob, ReplicationTypeOK
<1>2. rec[r].tries \in 0 .. Attempts
  BY DEF ReplicationTypeOK, RecStates
<1>3. CASE rec[r].tries + 1 < Attempts
  <2>1. rec[r].tries + 1 \in 0 .. Attempts
    BY <1>2, <1>3, ReplicationAssumption
  <2>2. QED
    BY <1>1, <1>3, <2>1 DEF FailRecJob, ReplicationTypeOK
<1>4. CASE ~(rec[r].tries + 1 < Attempts)
  BY <1>1, <1>4 DEF FailRecJob, ReplicationTypeOK
<1>5. QED
  BY <1>3, <1>4

-----------------------------------------------------------------------------
(* Client steps keep the types. *)
LEMMA ClientTypes ==
  ASSUME ReplicationTypeOK, ClientStep
  PROVE  ReplicationTypeOK'
<1> USE DEF clientVars, boundVars
<1>1. ASSUME NEW r \in Replicas, NEW w \in Intents, WritePrimary(r, w)
      PROVE  ReplicationTypeOK'
  <2>1. w.op \in Ops /\ w.key \in Keys /\ w.id \in WriteIds
    BY DEF Intents
  <2>2. db["primary"] \in [Keys -> Contents]
    BY DEF ReplicationTypeOK, DBs
  <2>3. db' \in [DBs -> [Keys -> Contents]]
    BY <1>1, <2>1, <2>2, ApplyType DEF WritePrimary, ReplicationTypeOK
  <2>4. writes' \in 0 .. MaxWrites /\ created' \subseteq Keys
    BY <1>1, <2>1, ReplicationAssumption
       DEF WritePrimary, Issue, WriteIds, ReplicationTypeOK
  <2>5. steady' \in [Replicas -> SUBSET Keys]
    BY <1>1 DEF WritePrimary, StillHeld, ReplicationTypeOK
  <2>6. QED
    BY <1>1, <2>3, <2>4, <2>5 DEF WritePrimary, ReplicationTypeOK
<1>2. ASSUME NEW r \in Replicas, NEW w \in Intents, WriteLocal(r, w)
      PROVE  ReplicationTypeOK'
  <2>1. w.op \in Ops /\ w.key \in Keys /\ w.id \in WriteIds
    BY DEF Intents
  <2>2. db["local"] \in [Keys -> Contents]
    BY DEF ReplicationTypeOK, DBs
  <2>3. db' \in [DBs -> [Keys -> Contents]]
    BY <1>2, <2>1, <2>2, ApplyType DEF WriteLocal, ReplicationTypeOK
  <2>4. writes' \in 0 .. MaxWrites /\ created' \subseteq Keys
    BY <1>2, <2>1, ReplicationAssumption
       DEF WriteLocal, Issue, WriteIds, ReplicationTypeOK
  <2>5. unlogged' \subseteq [replica : Replicas, w : Intents]
    BY <1>2 DEF WriteLocal, ReplicationTypeOK
  <2>6. QED
    BY <1>2, <2>3, <2>4, <2>5 DEF WriteLocal, ReplicationTypeOK
<1>3. ASSUME NEW r \in Replicas, NEW w \in Intents, WriteRolledBack(r, w)
      PROVE  ReplicationTypeOK'
  <2>1. w.op \in Ops /\ w.key \in Keys /\ w.id \in WriteIds
    BY DEF Intents
  <2>2. log["local"] \in Seq(Entries)
    BY DEF ReplicationTypeOK, DBs
  <2>3. log' \in [DBs -> Seq(Entries)]
    BY <1>3, <2>1, <2>2, EntryType, AppendKeeps
       DEF WriteRolledBack, ReplicationTypeOK
  <2>4. writes' \in 0 .. MaxWrites
    BY <1>3, <2>1, ReplicationAssumption DEF WriteRolledBack, WriteIds
  <2>5. QED
    BY <1>3, <2>3, <2>4 DEF WriteRolledBack, ReplicationTypeOK
<1>4. ASSUME NEW u \in unlogged, LogWrite(u)
      PROVE  ReplicationTypeOK'
  <2>1. u.w.op \in Ops /\ u.w.key \in Keys /\ u.w.id \in WriteIds
    BY DEF ReplicationTypeOK, Intents
  <2>2. log["local"] \in Seq(Entries)
    BY DEF ReplicationTypeOK, DBs
  <2>3. log' \in [DBs -> Seq(Entries)]
    BY <1>4, <2>1, <2>2, EntryType, AppendKeeps
       DEF LogWrite, ReplicationTypeOK
  <2>4. QED
    BY <1>4, <2>1, <2>3 DEF LogWrite, ReplicationTypeOK
<1>5. ASSUME NEW u \in unlogged, LogWriteFails(u)
      PROVE  ReplicationTypeOK'
  <2>1. u.w.id \in WriteIds
    BY DEF ReplicationTypeOK, Intents
  <2>2. QED
    BY <1>5, <2>1 DEF LogWriteFails, ReplicationTypeOK
<1>6. QED
  BY <1>1, <1>2, <1>3, <1>4, <1>5 DEF ClientStep

(* Links, switches of the mode, crashes and the scheduler keep the types. *)
LEMMA ModeTypes ==
  ASSUME ReplicationTypeOK, NEW r \in Replicas,
         \/ LinkCut(r) \/ LinkHeals(r) \/ FailOver(r) \/ FailBack(r)
         \/ Crash(r) \/ ScheduleSync
  PROVE  ReplicationTypeOK'
<1> USE ReplicationAssumption DEF clientVars, boundVars
<1>1. CASE LinkCut(r)
  BY <1>1 DEF LinkCut, ReplicationTypeOK
<1>2. CASE LinkHeals(r)
  BY <1>2 DEF LinkHeals, ReplicationTypeOK
<1>3. CASE FailOver(r)
  BY <1>3 DEF FailOver, ReplicationTypeOK, DBs
<1>4. CASE FailBack(r)
  <2>1. jobs' \in Seq(0 .. Attempts)
    <3>1. jobs \in Seq(0 .. Attempts) /\ 0 \in 0 .. Attempts
      BY DEF ReplicationTypeOK
    <3>2. Append(jobs, 0) \in Seq(0 .. Attempts)
      BY <3>1
    <3>3. QED
      BY <1>4, <3>1, <3>2 DEF FailBack
  <2>2. QED
    BY <1>4, <2>1 DEF FailBack, ReplicationTypeOK, DBs
<1>5. CASE Crash(r)
  <2>1. sync' \in [Replicas -> SyncStates] /\ rec' \in [Replicas -> RecStates]
    BY <1>5, IdleTypes, SyncTakes, RecTakes DEF Crash
  <2>2. rec[r].tries \in 0 .. Attempts
    BY DEF ReplicationTypeOK, RecStates
  <2>3. jobs' \in Seq(0 .. Attempts)
    <3>1. jobs \in Seq(0 .. Attempts)
      BY DEF ReplicationTypeOK
    <3>2. Append(jobs, rec[r].tries) \in Seq(0 .. Attempts)
      BY <2>2, <3>1
    <3>3. QED
      BY <1>5, <3>1, <3>2 DEF Crash
  <2>4. QED
    BY <1>5, <2>1, <2>3 DEF Crash, ReplicationTypeOK, DBs
<1>6. CASE ScheduleSync
  BY <1>6 DEF ScheduleSync, ReplicationTypeOK
<1>7. QED
  BY <1>1, <1>2, <1>3, <1>4, <1>5, <1>6

(* The rows a page can hold. *)
LEMMA LaterRows ==
  ASSUME ReplicationTypeOK, NEW d \in DBs, NEW from \in 0 .. KeyCount,
         Later(d, from) # {}
  PROVE  /\ First(Later(d, from)) \in Later(d, from)
         /\ First(Later(d, from)) \in Keys
         /\ \A k \in Later(d, from) : First(Later(d, from)) <= k
         /\ db[d][First(Later(d, from))] \in Contents
<1>1. Later(d, from) \in SUBSET Nat
  BY ReplicationAssumption DEF Later, Keys
<1>2. First(Later(d, from)) \in Later(d, from)
  BY <1>1, FirstIsLeast
<1>3. First(Later(d, from)) \in Keys
  BY <1>2 DEF Later
<1>4. db[d][First(Later(d, from))] \in Contents
  BY <1>3 DEF ReplicationTypeOK
<1>5. QED
  BY <1>1, <1>2, <1>3, <1>4, FirstIsLeast

(* What a step of the mirror sync makes of its worker. *)
LEMMA ReadTakes ==
  ASSUME ReplicationTypeOK, NEW r \in Replicas, SyncRead(r)
  PROVE  \E s \in SyncStates :
           /\ sync' = [sync EXCEPT ![r] = s]
           /\ \/ /\ s.pc = "write" /\ Later(Routed(r), sync[r].at) # {}
                 /\ s.at = First(Later(Routed(r), sync[r].at))
                 /\ s.seen = sync[r].seen
                 /\ s.from = sync[r].from \cup {Routed(r)}
              \/ /\ s.pc = "stale" /\ Later(Routed(r), sync[r].at) = {}
                 /\ s.seen = sync[r].seen
                 /\ s.from = sync[r].from \cup {Routed(r)}
              \/ s = IdleSync
<1>1. PICK t \in SyncStates : t = sync[r]
  BY DEF ReplicationTypeOK
<1>2. t.at \in 0 .. KeyCount /\ Routed(r) \in DBs
  BY DEF ReplicationTypeOK, SyncStates, Routed
<1>3. CASE Answers(r) /\ Later(Routed(r), t.at) # {}
  <2> DEFINE k == First(Later(Routed(r), t.at))
             s == [t EXCEPT !.pc = "write", !.at = k,
                            !.row = db[Routed(r)][k],
                            !.from = @ \cup {Routed(r)}]
  <2>1. k \in 0 .. KeyCount /\ db[Routed(r)][k] \in Contents
    BY <1>2, <1>3, LaterRows, ReplicationAssumption DEF Keys
  <2>2. /\ s \in SyncStates
        /\ s.pc = "write" /\ s.at = k /\ s.seen = t.seen
        /\ s.from = t.from \cup {Routed(r)}
    BY <1>2, <2>1 DEF SyncStates
  <2>3. sync' = [sync EXCEPT ![r] = s]
    BY <1>1, <1>3 DEF SyncRead, ReplicationTypeOK
  <2>4. QED
    BY <1>1, <1>3, <2>2, <2>3
<1>4. CASE Answers(r) /\ Later(Routed(r), t.at) = {}
  <2> DEFINE s == [t EXCEPT !.pc = "stale", !.at = 0,
                            !.from = @ \cup {Routed(r)}]
  <2>0. 0 \in 0 .. KeyCount
    BY ReplicationAssumption
  <2>1. /\ s \in SyncStates
        /\ s.pc = "stale" /\ s.seen = t.seen
        /\ s.from = t.from \cup {Routed(r)}
    BY <1>2, <2>0 DEF SyncStates
  <2>2. sync' = [sync EXCEPT ![r] = s]
    BY <1>1, <1>4 DEF SyncRead, ReplicationTypeOK
  <2>3. QED
    BY <1>1, <1>4, <2>1, <2>2
<1>5. CASE ~Answers(r)
  BY <1>5, IdleTypes DEF SyncRead
<1>6. QED
  BY <1>3, <1>4, <1>5

(* A page is on the standby, and its rows are counted as seen. *)
LEMMA WriteTakes ==
  ASSUME ReplicationTypeOK, SyncsPlaced, NEW r \in Replicas, SyncWrite(r)
  PROVE  \E s \in SyncStates :
           /\ sync' = [sync EXCEPT ![r] = s]
           /\ s.pc = "read" /\ s.at = sync[r].at
           /\ s.seen = sync[r].seen \cup {sync[r].at}
           /\ s.from = sync[r].from
<1>1. PICK t \in SyncStates : t = sync[r]
  BY DEF ReplicationTypeOK
<1> DEFINE s == [t EXCEPT !.pc = "read", !.row = 0, !.seen = @ \cup {t.at}]
<1>2. t.at \in Keys /\ 0 \in Contents
  BY <1>1, ReplicationAssumption DEF SyncWrite, SyncsPlaced, Contents, Seed
<1>3. /\ s \in SyncStates
      /\ s.pc = "read" /\ s.at = t.at /\ s.seen = t.seen \cup {t.at}
      /\ s.from = t.from
  BY <1>2 DEF SyncStates
<1>4. sync' = [sync EXCEPT ![r] = s]
  BY <1>1 DEF SyncWrite, ReplicationTypeOK
<1>5. QED
  BY <1>1, <1>3, <1>4

(* A stale row is one no page had; without one the sync ends. *)
LEMMA FindTakes ==
  ASSUME ReplicationTypeOK, NEW r \in Replicas, SyncFindStale(r)
  PROVE  \E s \in SyncStates :
           /\ sync' = [sync EXCEPT ![r] = s]
           /\ \/ /\ s.pc = "delete" /\ s.at \in Keys \ s.seen
                 /\ s.seen = sync[r].seen
                 /\ s.from = sync[r].from
              \/ s = IdleSync
<1>1. PICK t \in SyncStates : t = sync[r]
  BY DEF ReplicationTypeOK
<1>2. CASE Stale(r) # {}
  <2> DEFINE s == [t EXCEPT !.pc = "delete", !.at = First(Stale(r))]
  <2>1. Stale(r) \in SUBSET Nat
    BY ReplicationAssumption DEF Stale, Later, Keys
  <2>2. First(Stale(r)) \in Keys \ t.seen
    BY <1>1, <1>2, <2>1, FirstIsLeast DEF Stale, Later
  <2>3. First(Stale(r)) \in 0 .. KeyCount
    BY <2>2, ReplicationAssumption DEF Keys
  <2>4. /\ s \in SyncStates
        /\ s.pc = "delete" /\ s.at = First(Stale(r)) /\ s.seen = t.seen
        /\ s.from = t.from
    BY <2>3 DEF SyncStates
  <2>5. sync' = [sync EXCEPT ![r] = s]
    BY <1>1, <1>2 DEF SyncFindStale, ReplicationTypeOK
  <2>6. QED
    BY <1>1, <2>2, <2>4, <2>5
<1>3. CASE Stale(r) = {}
  BY <1>3, IdleTypes DEF SyncFindStale
<1>4. QED
  BY <1>2, <1>3

(* A stale row is gone, and phase 2 goes on. *)
LEMMA DeleteTakes ==
  ASSUME ReplicationTypeOK, NEW r \in Replicas, SyncDelete(r)
  PROVE  \E s \in SyncStates :
           /\ sync' = [sync EXCEPT ![r] = s]
           /\ s.pc = "stale"
           /\ s.seen = sync[r].seen
           /\ s.from = sync[r].from
<1>1. PICK t \in SyncStates : t = sync[r]
  BY DEF ReplicationTypeOK
<1> DEFINE s == [t EXCEPT !.pc = "stale"]
<1>2. /\ s \in SyncStates
      /\ s.pc = "stale" /\ s.seen = t.seen /\ s.from = t.from
  BY DEF SyncStates
<1>3. sync' = [sync EXCEPT ![r] = s]
  BY <1>1 DEF SyncDelete, ReplicationTypeOK
<1>4. QED
  BY <1>1, <1>2, <1>3

(* A job taken in primary mode starts at the first row. *)
LEMMA JobTakes ==
  ASSUME ReplicationTypeOK, NEW r \in Replicas, TakeSyncJob(r),
         modes[r] = "primary"
  PROVE  \E s \in SyncStates :
           /\ sync' = [sync EXCEPT ![r] = s]
           /\ s.pc = "read" /\ s.at = 0 /\ s.seen = {}
<1>1. PICK t \in SyncStates : t = IdleSync
  BY IdleTypes
<1> DEFINE s == [t EXCEPT !.pc = "read"]
<1>2. s \in SyncStates /\ s.pc = "read" /\ s.at = 0 /\ s.seen = {}
  BY <1>1 DEF SyncStates, IdleSync
<1>3. sync' = [sync EXCEPT ![r] = s]
  BY <1>1 DEF TakeSyncJob
<1>4. QED
  BY <1>2, <1>3

-----------------------------------------------------------------------------
(* The mirror sync keeps the types. *)
LEMMA SyncTypes ==
  ASSUME ReplicationTypeOK, SyncsPlaced, NEW r \in Replicas,
         TakeSyncJob(r) \/ SyncStep(r)
  PROVE  ReplicationTypeOK'
<1> USE DEF clientVars, boundVars
<1>1. CASE TakeSyncJob(r)
  <2>1. sync' \in [Replicas -> SyncStates]
    BY <1>1, JobTakes, SyncTakes DEF TakeSyncJob, ReplicationTypeOK
  <2>2. steady' \in [Replicas -> SUBSET Keys]
    <3>1. {k \in Keys : db["primary"][k] # 0} \in SUBSET Keys
      OBVIOUS
    <3>2. steady \in [Replicas -> SUBSET Keys]
      BY DEF ReplicationTypeOK
    <3>3. CASE modes[r] = "primary"
      BY <1>1, <3>1, <3>2, <3>3 DEF TakeSyncJob
    <3>4. CASE modes[r] # "primary"
      BY <1>1, <3>2, <3>4 DEF TakeSyncJob
    <3>5. QED
      BY <3>3, <3>4
  <2>3. QED
    BY <1>1, <2>1, <2>2 DEF TakeSyncJob, ReplicationTypeOK
<1>2. CASE SyncRead(r)
  <2>1. sync' \in [Replicas -> SyncStates]
    BY <1>2, ReadTakes, SyncTakes
  <2>2. QED
    BY <1>2, <2>1 DEF SyncRead, ReplicationTypeOK
<1>3. CASE SyncWrite(r)
  <2>1. sync' \in [Replicas -> SyncStates]
    BY <1>3, WriteTakes, SyncTakes
  <2>2. sync[r].row \in Contents
    BY DEF ReplicationTypeOK, SyncStates
  <2>3. db' \in [DBs -> [Keys -> Contents]]
    BY <1>3, <2>2 DEF SyncWrite, ReplicationTypeOK
  <2>4. QED
    BY <1>3, <2>1, <2>3 DEF SyncWrite, ReplicationTypeOK
<1>4. CASE SyncFindStale(r)
  <2>1. sync' \in [Replicas -> SyncStates]
    BY <1>4, FindTakes, SyncTakes
  <2>2. QED
    BY <1>4, <2>1 DEF SyncFindStale, ReplicationTypeOK
<1>5. CASE SyncDelete(r)
  <2>1. sync' \in [Replicas -> SyncStates]
    BY <1>5, DeleteTakes, SyncTakes
  <2>2. 0 \in Contents
    BY ReplicationAssumption DEF Contents, Seed
  <2>3. db' \in [DBs -> [Keys -> Contents]]
    BY <1>5, <2>2 DEF SyncDelete, ReplicationTypeOK
  <2>4. QED
    BY <1>5, <2>1, <2>3 DEF SyncDelete, ReplicationTypeOK
<1>6. QED
  BY <1>1, <1>2, <1>3, <1>4, <1>5 DEF SyncStep

-----------------------------------------------------------------------------
(* What a step of the reconciliation makes of its run. *)
LEMMA TakenRun ==
  ASSUME ReplicationTypeOK, NEW r \in Replicas, TakeRecJob(r)
  PROVE  \E s \in RecStates :
           /\ rec' = [rec EXCEPT ![r] = s]
           /\ s.pc = "fetch" /\ s.todo = {}
<1>1. PICK t \in RecStates : t = IdleRec
  BY IdleTypes
<1> DEFINE s == [t EXCEPT !.pc = "fetch", !.tries = Head(jobs)]
<1>2. Head(jobs) \in 0 .. Attempts
  <2>1. jobs \in Seq(0 .. Attempts) /\ jobs # <<>>
    BY DEF TakeRecJob, ReplicationTypeOK
  <2>2. QED
    BY <2>1, HeadTailProperties
<1>3. s \in RecStates /\ s.pc = "fetch" /\ s.todo = {}
  BY <1>1, <1>2 DEF RecStates, IdleRec
<1>4. rec' = [rec EXCEPT ![r] = s]
  BY <1>1 DEF TakeRecJob
<1>5. QED
  BY <1>3, <1>4

(* A run replays the open entries it fetched, if there were any. *)
LEMMA FetchedRun ==
  ASSUME ReplicationTypeOK, ReplaysComeFromStandby, NEW r \in Replicas,
         RecFetch(r)
  PROVE  \E s \in RecStates :
           /\ rec' = [rec EXCEPT ![r] = s]
           /\ RunInRange(s, Len(log["local"]))
<1>1. PICK t \in RecStates : t = rec[r]
  BY DEF ReplicationTypeOK
<1>2. RunInRange(IdleRec, Len(log["local"]))
  BY DEF RunInRange, IdleRec, Replaying
<1>3. CASE Answers(r) /\ OpenEntries(Routed(r)) # {}
  <2> DEFINE s == [t EXCEPT !.pc = "replay", !.from = Routed(r),
                            !.todo = OpenEntries(Routed(r))]
  <2>1. Routed(r) \in DBs
    BY DEF ReplicationTypeOK, Routed
  <2>2. log[Routed(r)] \in Seq(Entries)
    BY <2>1 DEF ReplicationTypeOK
  <2>3. OpenEntries(Routed(r)) \subseteq 1 .. Len(log[Routed(r)])
    BY DEF OpenEntries
  <2>4. Routed(r) = "local"
    BY <1>3, <2>1, <2>3 DEF ReplaysComeFromStandby, DBs
  <2>5. OpenEntries(Routed(r)) \in SUBSET Nat
    BY <2>2, <2>3
  <2>6. /\ s \in RecStates
        /\ s.pc = "replay" /\ s.from = Routed(r)
        /\ s.todo = OpenEntries(Routed(r))
    BY <2>1, <2>5 DEF RecStates
  <2>7. rec' = [rec EXCEPT ![r] = s]
    BY <1>1, <1>3 DEF RecFetch, ReplicationTypeOK
  <2>8. RunInRange(s, Len(log["local"]))
    BY <1>3, <2>3, <2>4, <2>6 DEF RunInRange, Replaying
  <2>9. QED
    BY <2>6, <2>7, <2>8
<1>4. CASE Answers(r) /\ OpenEntries(Routed(r)) = {}
  BY <1>2, <1>4, IdleTypes DEF RecFetch
<1>5. CASE ~Answers(r)
  BY <1>2, <1>5, IdleTypes DEF RecFetch, FailRecJob
<1>6. QED
  BY <1>3, <1>4, <1>5

(* A replay, applied or not, leaves the entry to be marked or filed. *)
LEMMA ReplayedRun ==
  ASSUME ReplicationTypeOK, NEW r \in Replicas, RecReplay(r)
  PROVE  \E s \in RecStates :
           /\ rec' = [rec EXCEPT ![r] = s]
           /\ s.pc \in Replaying
           /\ s.from = rec[r].from /\ s.todo = rec[r].todo
<1>1. PICK t \in RecStates : t = rec[r]
  BY DEF ReplicationTypeOK
<1>2. PICK pc \in {"mark", "conflict"} : rec' = [rec EXCEPT ![r].pc = pc]
  BY DEF RecReplay
<1> DEFINE s == [t EXCEPT !.pc = pc]
<1>3. /\ s \in RecStates /\ s.pc \in Replaying
      /\ s.from = t.from /\ s.todo = t.todo
  BY DEF RecStates, Replaying
<1>4. rec' = [rec EXCEPT ![r] = s]
  BY <1>1, <1>2 DEF ReplicationTypeOK
<1>5. QED
  BY <1>1, <1>3, <1>4

(* A conflict is filed, or the run fails. *)
LEMMA FiledRun ==
  ASSUME ReplicationTypeOK, NEW r \in Replicas, RecConflict(r)
  PROVE  \E s \in RecStates :
           /\ rec' = [rec EXCEPT ![r] = s]
           /\ \/ /\ s.pc \in Replaying
                 /\ s.from = rec[r].from /\ s.todo = rec[r].todo
              \/ s = IdleRec
<1>1. PICK t \in RecStates : t = rec[r]
  BY DEF ReplicationTypeOK
<1>2. CASE Answers(r)
  <2> DEFINE s == [t EXCEPT !.pc = "mark"]
  <2>1. /\ s \in RecStates /\ s.pc \in Replaying
        /\ s.from = t.from /\ s.todo = t.todo
    BY DEF RecStates, Replaying
  <2>2. rec' = [rec EXCEPT ![r] = s]
    BY <1>1, <1>2 DEF RecConflict, ReplicationTypeOK
  <2>3. QED
    BY <1>1, <2>1, <2>2
<1>3. CASE ~Answers(r)
  BY <1>3, IdleTypes DEF RecConflict, FailRecJob
<1>4. QED
  BY <1>2, <1>3

(* An entry less to replay, or none left, or the run fails. *)
LEMMA MarkedRun ==
  ASSUME ReplicationTypeOK, RunsInRange, NEW r \in Replicas, RecMark(r)
  PROVE  \E s \in RecStates :
           /\ rec' = [rec EXCEPT ![r] = s]
           /\ \/ /\ s.pc \in Replaying
                 /\ s.from = rec[r].from
                 /\ s.todo # {} /\ s.todo \subseteq rec[r].todo
              \/ s = IdleRec
<1>1. PICK t \in RecStates : t = rec[r]
  BY DEF ReplicationTypeOK
<1>2. CASE Answers(r) /\ Routed(r) = t.from /\ t.todo # {Position(r)}
  <2> DEFINE s == [t EXCEPT !.pc = "replay", !.todo = @ \ {Position(r)}]
  <2>1. t.todo \ {Position(r)} # {}
    BY <1>1, <1>2 DEF RecMark, RunsInRange, RunInRange, Replaying
  <2>2. /\ s \in RecStates /\ s.pc \in Replaying /\ s.from = t.from
        /\ s.todo = t.todo \ {Position(r)}
    BY DEF RecStates, Replaying
  <2>3. rec' = [rec EXCEPT ![r] = s]
    BY <1>1, <1>2 DEF RecMark, ReplicationTypeOK
  <2>4. QED
    BY <1>1, <2>1, <2>2, <2>3
<1>3. CASE Answers(r) /\ Routed(r) = t.from /\ t.todo = {Position(r)}
  <2>1. rec' = [rec EXCEPT ![r] = IdleRec]
    BY <1>1, <1>3 DEF RecMark, ReplicationTypeOK
  <2>2. QED
    BY <2>1, IdleTypes
<1>4. CASE ~(Answers(r) /\ Routed(r) = t.from)
  BY <1>1, <1>4, IdleTypes DEF RecMark, FailRecJob
<1>5. QED
  BY <1>2, <1>3, <1>4

-----------------------------------------------------------------------------
(* What a step does to the logs: the primary's stays empty, the standby's  *)
(* keeps its entries.                                                      *)
LogMoves ==
  /\ log' \in [DBs -> Seq(Entries)]
  /\ log'["primary"] = log["primary"]
  /\ LogKept(log["local"], log'["local"])

(* Logs left alone. *)
LEMMA LogStays ==
  ASSUME ReplicationTypeOK, log' = log
  PROVE  LogMoves
BY DEF LogMoves, LogKept, ReplicationTypeOK, DBs

(* A new entry at the end of the standby's log. *)
LEMMA LogGrows ==
  ASSUME ReplicationTypeOK, NEW e \in Entries,
         log' = [log EXCEPT !["local"] = Append(@, e)]
  PROVE  LogMoves
<1>1. log["local"] \in Seq(Entries)
  BY DEF ReplicationTypeOK, DBs
<1>2. PICK m \in Seq(Entries) : m = Append(log["local"], e)
  BY <1>1, AppendKeeps
<1>3. LogKept(log["local"], m)
  BY <1>1, <1>2, AppendKeeps
<1>4. log' = [log EXCEPT !["local"] = m]
  BY <1>2
<1>5. log' \in [DBs -> Seq(Entries)] /\ log'["local"] = m
  BY <1>4 DEF ReplicationTypeOK, DBs
<1>6. log'["primary"] = log["primary"]
  BY <1>4 DEF ReplicationTypeOK, DBs
<1>7. QED
  BY <1>3, <1>5, <1>6 DEF LogMoves

(* A marked entry. *)
LEMMA MarkMoves ==
  ASSUME ReplicationTypeOK, LogSound, NEW r \in Replicas, RecMark(r)
  PROVE  LogMoves
<1>1. CASE Answers(r) /\ Routed(r) = rec[r].from
  <2>1. Routed(r) = "local" /\ Position(r) \in 1 .. Len(log["local"])
    BY <1>1, CurrentType DEF RecMark, Replaying
  <2>2. log["local"] \in Seq(Entries)
    BY DEF ReplicationTypeOK, DBs
  <2>3. PICK p \in 1 .. Len(log["local"]) : p = Position(r)
    BY <2>1
  <2>4. PICK m \in Seq(Entries) : m = [log["local"] EXCEPT ![p].state = "done"]
    BY <2>2, MarkKeeps
  <2>5. LogKept(log["local"], m)
    BY <2>2, <2>4, MarkKeeps
  <2>6. log' = [log EXCEPT !["local"] = m]
    BY <1>1, <2>1, <2>3, <2>4 DEF RecMark, ReplicationTypeOK, DBs
  <2>7. QED
    BY <2>5, <2>6 DEF LogMoves, ReplicationTypeOK, DBs
<1>2. CASE ~(Answers(r) /\ Routed(r) = rec[r].from)
  BY <1>2, LogStays DEF RecMark
<1>3. QED
  BY <1>1, <1>2

(* A replay on the standby is logged there once more. *)
LEMMA ReplayMoves ==
  ASSUME ReplicationTypeOK, LogSound, NEW r \in Replicas, RecReplay(r)
  PROVE  LogMoves
<1>1. Current(r) \in Entries
  BY CurrentType DEF RecReplay, Replaying
<1>2. Entry(Current(r)) \in Entries
  BY <1>1, EntryType DEF Entries
<1>3. CASE Answers(r) /\ Applies(Current(r), db[Routed(r)])
  <2>1. CASE Routed(r) = "local"
    <3>1. log' = [log EXCEPT !["local"] = Append(@, Entry(Current(r)))]
      BY <1>3, <2>1 DEF RecReplay
    <3>2. PICK e \in Entries : e = Entry(Current(r))
      BY <1>2
    <3>3. log' = [log EXCEPT !["local"] = Append(@, e)]
      BY <3>1, <3>2
    <3>4. QED
      BY <3>3, LogGrows
  <2>2. CASE Routed(r) # "local"
    BY <1>3, <2>2, LogStays DEF RecReplay
  <2>3. QED
    BY <2>1, <2>2
<1>4. CASE ~(Answers(r) /\ Applies(Current(r), db[Routed(r)]))
  BY <1>4, LogStays DEF RecReplay
<1>5. QED
  BY <1>3, <1>4

-----------------------------------------------------------------------------
(* The reconciliation keeps the types. *)
LEMMA RecTypes ==
  ASSUME ReplicationTypeOK, LogSound, NEW r \in Replicas,
         TakeRecJob(r) \/ RecStep(r)
  PROVE  ReplicationTypeOK'
<1> USE DEF clientVars, boundVars
<1>1. CASE TakeRecJob(r)
  <2>1. rec' \in [Replicas -> RecStates]
    BY <1>1, TakenRun, RecTakes
  <2>2. jobs' \in Seq(0 .. Attempts)
    <3>1. jobs \in Seq(0 .. Attempts) /\ jobs # <<>>
      BY <1>1 DEF TakeRecJob, ReplicationTypeOK
    <3>2. QED
      BY <1>1, <3>1, HeadTailProperties DEF TakeRecJob
  <2>3. QED
    BY <1>1, <2>1, <2>2 DEF TakeRecJob, ReplicationTypeOK
<1>2. CASE RecFetch(r)
  <2>1. rec' \in [Replicas -> RecStates]
    BY <1>2, FetchedRun, RecTakes DEF LogSound
  <2>2. jobs' \in Seq(0 .. Attempts)
    BY <1>2, FailedRunTypes DEF RecFetch, ReplicationTypeOK
  <2>3. QED
    BY <1>2, <2>1, <2>2 DEF RecFetch, ReplicationTypeOK
<1>3. CASE RecReplay(r)
  <2>1. rec' \in [Replicas -> RecStates]
    BY <1>3, ReplayedRun, RecTakes
  <2>2. log' \in [DBs -> Seq(Entries)]
    BY <1>3, ReplayMoves DEF LogMoves
  <2>3. PICK e \in Entries : e = Current(r)
    BY <1>3, CurrentType DEF RecReplay, Replaying
  <2>4. /\ e.op \in Ops /\ e.key \in Keys /\ e.id \in WriteIds
        /\ Routed(r) \in DBs
    BY DEF Entries, ReplicationTypeOK, Routed
  <2>5. Apply(e, db[Routed(r)]) \in [Keys -> Contents]
    BY <2>4, ApplyType DEF ReplicationTypeOK
  <2>6. \/ UNCHANGED <<db, settled, steady>>
        \/ /\ db' = [db EXCEPT ![Routed(r)] = Apply(e, @)]
           /\ settled' = IF Routed(r) = "primary"
                         THEN settled \cup {e.id} ELSE settled
           /\ steady' = StillHeld(db'["primary"])
    BY <1>3, <2>3 DEF RecReplay
  <2>7. db' \in [DBs -> [Keys -> Contents]]
    <3>1. db \in [DBs -> [Keys -> Contents]]
      BY DEF ReplicationTypeOK
    <3>2. QED
      BY <2>4, <2>5, <2>6, <3>1
  <2>8. settled' \subseteq WriteIds /\ steady' \in [Replicas -> SUBSET Keys]
    BY <2>4, <2>6 DEF ReplicationTypeOK, StillHeld
  <2>9. QED
    BY <1>3, <2>1, <2>2, <2>7, <2>8 DEF RecReplay, ReplicationTypeOK
<1>4. CASE RecConflict(r)
  <2>1. rec' \in [Replicas -> RecStates]
    BY <1>4, FiledRun, RecTakes
  <2>2. PICK e \in Entries : e = Current(r)
    BY <1>4, CurrentType DEF RecConflict, Replaying
  <2>3. e.id \in WriteIds /\ Routed(r) \in DBs
    BY DEF Entries, ReplicationTypeOK, Routed
  <2>4. CASE Answers(r)
    <3>1. conflicts' = [conflicts EXCEPT ![Routed(r)] = @ \cup {e.id}]
      BY <1>4, <2>2, <2>4 DEF RecConflict
    <3>2. settled' \subseteq WriteIds
      BY <1>4, <2>2, <2>3, <2>4 DEF RecConflict, ReplicationTypeOK
    <3>3. conflicts' \in [DBs -> SUBSET WriteIds]
      BY <2>3, <3>1 DEF ReplicationTypeOK
    <3>4. QED
      BY <1>4, <2>1, <2>4, <3>2, <3>3 DEF RecConflict, ReplicationTypeOK
  <2>5. CASE ~Answers(r)
    <3>1. jobs' \in Seq(0 .. Attempts)
      BY <1>4, <2>5, FailedRunTypes DEF RecConflict
    <3>2. QED
      BY <1>4, <2>1, <2>5, <3>1 DEF RecConflict, ReplicationTypeOK
  <2>6. QED
    BY <2>4, <2>5
<1>5. CASE RecMark(r)
  <2>1. rec' \in [Replicas -> RecStates]
    BY <1>5, MarkedRun, RecTakes DEF LogSound
  <2>2. log' \in [DBs -> Seq(Entries)]
    BY <1>5, MarkMoves DEF LogMoves
  <2>3. jobs' \in Seq(0 .. Attempts)
    BY <1>5, FailedRunTypes DEF RecMark, ReplicationTypeOK
  <2>4. QED
    BY <1>5, <2>1, <2>2, <2>3 DEF RecMark, ReplicationTypeOK
<1>6. QED
  BY <1>1, <1>2, <1>3, <1>4, <1>5 DEF RecStep

-----------------------------------------------------------------------------
(* Runs keep what they have to replay while the log keeps its entries. *)
LEMMA RunsKept ==
  ASSUME ReplicationTypeOK, LogSound, LogMoves, rec' = rec
  PROVE  RunsInRange'
<1>1. log["local"] \in Seq(Entries) /\ log'["local"] \in Seq(Entries)
  BY DEF ReplicationTypeOK, LogMoves, DBs
<1>2. Len(log["local"]) <= Len(log'["local"])
  BY DEF LogMoves, LogKept
<1>3. 1 .. Len(log["local"]) \subseteq 1 .. Len(log'["local"])
  BY <1>1, <1>2
<1>4. QED
  BY <1>3 DEF LogSound, RunsInRange, RunInRange

(* One run moves. *)
LEMMA RunMoves ==
  ASSUME ReplicationTypeOK, LogSound, LogMoves, NEW r \in Replicas,
         NEW s \in RecStates, rec' = [rec EXCEPT ![r] = s],
         RunInRange(s, Len(log["local"]))
  PROVE  RunsInRange'
<1>1. log["local"] \in Seq(Entries) /\ log'["local"] \in Seq(Entries)
  BY DEF ReplicationTypeOK, LogMoves, DBs
<1>2. Len(log["local"]) <= Len(log'["local"])
  BY DEF LogMoves, LogKept
<1>3. 1 .. Len(log["local"]) \subseteq 1 .. Len(log'["local"])
  BY <1>1, <1>2
<1>4. rec'[r] = s /\ \A q \in Replicas \ {r} : rec'[q] = rec[q]
  BY RecTakes
<1>5. ASSUME NEW q \in Replicas
      PROVE  RunInRange(rec'[q], Len(log'["local"]))
  <2>1. RunInRange(rec'[q], Len(log["local"]))
    BY <1>4 DEF LogSound, RunsInRange
  <2>2. QED
    BY <1>3, <2>1 DEF RunInRange
<1>6. QED
  BY <1>5 DEF RunsInRange

(* An idle run is in range of any log. *)
LEMMA IdleInRange ==
  ASSUME NEW n
  PROVE  RunInRange(IdleRec, n)
BY DEF RunInRange, IdleRec, Replaying

(* What such steps keep. *)
LEMMA LogSoundKept ==
  ASSUME LogSound, LogMoves, RunsInRange'
  PROVE  LogSound'
<1>1. ASSUME NEW r \in Replicas, rec'[r].todo # {}
      PROVE  rec'[r].from = "local"
  BY <1>1 DEF RunsInRange, RunInRange
<1>2. ReplaysComeFromStandby'
  BY <1>1 DEF LogMoves, LogSound, ReplaysComeFromStandby
<1>3. QED
  BY <1>2 DEF LogSound

(* A step that touches neither logs nor runs. *)
LEMMA LogSoundFrame ==
  ASSUME ReplicationTypeOK, LogSound, UNCHANGED <<log, rec>>
  PROVE  LogSound'
BY LogStays, RunsKept, LogSoundKept

(* Every step keeps the primary's log empty and the runs in range. *)
LEMMA LogStep ==
  ASSUME ReplicationTypeOK, LogSound, [ReplicationNext]_replicationVars
  PROVE  LogSound'
<1> USE DEF clientVars, boundVars
<1>1. ASSUME NEW r \in Replicas, NEW w \in Intents,
             WritePrimary(r, w) \/ WriteLocal(r, w)
      PROVE  LogSound'
  BY <1>1, LogSoundFrame DEF WritePrimary, WriteLocal
<1>2. ASSUME NEW r \in Replicas, NEW w \in Intents, WriteRolledBack(r, w)
      PROVE  LogSound'
  <2>1. PICK e \in Entries : e = Entry(w)
    BY EntryType DEF Intents
  <2>2. LogMoves
    BY <1>2, <2>1, LogGrows DEF WriteRolledBack
  <2>3. QED
    BY <1>2, <2>2, RunsKept, LogSoundKept DEF WriteRolledBack
<1>3. ASSUME NEW u \in unlogged, LogWrite(u)
      PROVE  LogSound'
  <2>1. u.w.op \in Ops /\ u.w.key \in Keys /\ u.w.id \in WriteIds
    BY DEF ReplicationTypeOK, Intents
  <2>2. PICK e \in Entries : e = Entry(u.w)
    BY <2>1, EntryType
  <2>3. LogMoves
    BY <1>3, <2>2, LogGrows DEF LogWrite
  <2>4. QED
    BY <1>3, <2>3, RunsKept, LogSoundKept DEF LogWrite
<1>4. ASSUME NEW u \in unlogged, LogWriteFails(u)
      PROVE  LogSound'
  BY <1>4, LogStays, RunsKept, LogSoundKept DEF LogWriteFails
<1>5. CASE ScheduleSync
  BY <1>5, LogSoundFrame DEF ScheduleSync
<1>6. ASSUME NEW r \in Replicas,
             LinkCut(r) \/ LinkHeals(r) \/ FailOver(r) \/ FailBack(r)
      PROVE  LogSound'
  BY <1>6, LogSoundFrame DEF LinkCut, LinkHeals, FailOver, FailBack
<1>7. ASSUME NEW r \in Replicas, Crash(r)
      PROVE  LogSound'
  BY <1>7, LogStays, IdleTypes, IdleInRange, RunMoves, LogSoundKept DEF Crash
<1>8. ASSUME NEW r \in Replicas, TakeSyncJob(r) \/ SyncStep(r)
      PROVE  LogSound'
  BY <1>8, LogSoundFrame DEF TakeSyncJob, SyncStep, SyncRead, SyncWrite,
                             SyncFindStale, SyncDelete
<1>9. ASSUME NEW r \in Replicas, TakeRecJob(r)
      PROVE  LogSound'
  <2>1. PICK s \in RecStates : /\ rec' = [rec EXCEPT ![r] = s]
                               /\ s.pc = "fetch" /\ s.todo = {}
    BY <1>9, TakenRun
  <2>2. RunInRange(s, Len(log["local"]))
    BY <2>1 DEF RunInRange, Replaying
  <2>3. LogMoves
    BY <1>9, LogStays DEF TakeRecJob
  <2>4. QED
    BY <1>9, <2>1, <2>2, <2>3, RunMoves, LogSoundKept DEF TakeRecJob
<1>10. ASSUME NEW r \in Replicas, RecFetch(r)
       PROVE  LogSound'
  <2>1. PICK s \in RecStates : /\ rec' = [rec EXCEPT ![r] = s]
                               /\ RunInRange(s, Len(log["local"]))
    BY <1>10, FetchedRun DEF LogSound
  <2>2. LogMoves
    BY <1>10, LogStays DEF RecFetch
  <2>3. QED
    BY <1>10, <2>1, <2>2, RunMoves, LogSoundKept DEF RecFetch
<1>11. ASSUME NEW r \in Replicas, RecReplay(r)
       PROVE  LogSound'
  <2>1. PICK s \in RecStates : /\ rec' = [rec EXCEPT ![r] = s]
                               /\ s.pc \in Replaying
                               /\ s.from = rec[r].from /\ s.todo = rec[r].todo
    BY <1>11, ReplayedRun
  <2>2. RunInRange(s, Len(log["local"]))
    BY <1>11, <2>1 DEF RecReplay, LogSound, RunsInRange, RunInRange, Replaying
  <2>3. LogMoves
    BY <1>11, ReplayMoves
  <2>4. QED
    BY <1>11, <2>1, <2>2, <2>3, RunMoves, LogSoundKept DEF RecReplay
<1>12. ASSUME NEW r \in Replicas, RecConflict(r)
       PROVE  LogSound'
  <2>1. PICK s \in RecStates :
          /\ rec' = [rec EXCEPT ![r] = s]
          /\ \/ /\ s.pc \in Replaying
                /\ s.from = rec[r].from /\ s.todo = rec[r].todo
             \/ s = IdleRec
    BY <1>12, FiledRun
  <2>2. RunInRange(rec[r], Len(log["local"])) /\ rec[r].pc = "conflict"
    BY <1>12 DEF RecConflict, LogSound, RunsInRange
  <2>3. RunInRange(s, Len(log["local"]))
    BY <2>1, <2>2, IdleInRange DEF RunInRange, Replaying
  <2>4. LogMoves
    BY <1>12, LogStays DEF RecConflict
  <2>5. QED
    BY <1>12, <2>1, <2>3, <2>4, RunMoves, LogSoundKept DEF RecConflict
<1>13. ASSUME NEW r \in Replicas, RecMark(r)
       PROVE  LogSound'
  <2>1. PICK s \in RecStates :
          /\ rec' = [rec EXCEPT ![r] = s]
          /\ \/ /\ s.pc \in Replaying
                /\ s.from = rec[r].from
                /\ s.todo # {} /\ s.todo \subseteq rec[r].todo
             \/ s = IdleRec
    BY <1>13, MarkedRun DEF LogSound
  <2>2. RunInRange(rec[r], Len(log["local"])) /\ rec[r].pc = "mark"
    BY <1>13 DEF RecMark, LogSound, RunsInRange
  <2>3. RunInRange(s, Len(log["local"]))
    BY <2>1, <2>2, IdleInRange DEF RunInRange, Replaying
  <2>4. LogMoves
    BY <1>13, MarkMoves
  <2>5. QED
    BY <1>13, <2>1, <2>3, <2>4, RunMoves, LogSoundKept DEF RecMark
<1>14. CASE UNCHANGED replicationVars
  BY <1>14, LogSoundFrame DEF replicationVars
<1>15. QED
  BY <1>1, <1>2, <1>3, <1>4, <1>5, <1>6, <1>7, <1>8, <1>9, <1>10, <1>11,
     <1>12, <1>13, <1>14 DEF ReplicationNext, ClientStep, RecStep

-----------------------------------------------------------------------------
(* A step that leaves the primary's rows and the syncs alone. *)
LEMMA SyncSoundFrame ==
  ASSUME SyncSound, UNCHANGED <<sync, steady>>, db'["primary"] = db["primary"]
  PROVE  SyncSound'
BY DEF SyncSound, SteadyIsHeld, SyncsPlaced, PhasesSound

(* Rows the primary loses are no longer held all along. *)
LEMMA HeldShrinks ==
  ASSUME ReplicationTypeOK, SyncSound, sync' = sync,
         steady' = StillHeld(db'["primary"])
  PROVE  SyncSound'
<1>1. \A q \in Replicas : /\ steady'[q] \subseteq steady[q]
                          /\ \A k \in steady'[q] : db'["primary"][k] # 0
  BY DEF StillHeld
<1>2. SteadyIsHeld'
  BY <1>1 DEF SteadyIsHeld
<1>3. PhasesSound'
  BY <1>1 DEF SyncSound, PhasesSound, PhaseSound
<1>4. QED
  BY <1>2, <1>3 DEF SyncSound, SyncsPlaced

(* One sync moves to a state that is sound for the rows held all along. *)
LEMMA SyncMoves ==
  ASSUME ReplicationTypeOK, SyncSound,
         NEW r \in Replicas, NEW s \in SyncStates,
         sync' = [sync EXCEPT ![r] = s], db'["primary"] = db["primary"],
         steady' = steady, PhaseSound(s, steady[r]),
         s.pc \in {"write", "delete"} => s.at \in Keys
  PROVE  SyncSound'
<1>1. sync'[r] = s /\ \A q \in Replicas \ {r} : sync'[q] = sync[q]
  BY SyncTakes
<1>2. SteadyIsHeld'
  BY DEF SyncSound, SteadyIsHeld
<1>3. PhasesSound'
  BY <1>1 DEF SyncSound, PhasesSound
<1>4. SyncsPlaced'
  BY <1>1 DEF SyncSound, SyncsPlaced
<1>5. QED
  BY <1>2, <1>3, <1>4 DEF SyncSound

(* A sync at rest owes nothing. *)
LEMMA IdleSound ==
  ASSUME NEW held
  PROVE  PhaseSound(IdleSync, held) /\ IdleSync.pc = "idle"
BY DEF PhaseSound, IdleSync

(* A page of the primary holds every row it held all along that comes next. *)
LEMMA ReadSound ==
  ASSUME ReplicationTypeOK, SyncSound, NEW r \in Replicas, SyncRead(r)
  PROVE  SyncSound'
<1>1. PICK s \in SyncStates :
        /\ sync' = [sync EXCEPT ![r] = s]
        /\ \/ /\ s.pc = "write" /\ Later(Routed(r), sync[r].at) # {}
              /\ s.at = First(Later(Routed(r), sync[r].at))
              /\ s.seen = sync[r].seen
              /\ s.from = sync[r].from \cup {Routed(r)}
           \/ /\ s.pc = "stale" /\ Later(Routed(r), sync[r].at) = {}
              /\ s.seen = sync[r].seen
              /\ s.from = sync[r].from \cup {Routed(r)}
           \/ s = IdleSync
  BY ReadTakes
<1>2. /\ sync[r].at \in 0 .. KeyCount /\ Routed(r) \in DBs
      /\ steady[r] \subseteq Keys
  BY DEF ReplicationTypeOK, SyncStates, Routed
<1>3. Keys \subseteq Nat /\ sync[r].at \in Nat
  BY <1>2, ReplicationAssumption DEF Keys
<1>4. \A k \in steady[r] : k > sync[r].at => k \in Later("primary", sync[r].at)
  BY <1>2 DEF SyncSound, SteadyIsHeld, Later
<1>5. PhaseSound(sync[r], steady[r]) /\ sync[r].pc = "read"
  BY DEF SyncRead, SyncSound, PhasesSound
<1>6. UNCHANGED <<db, steady>>
  BY DEF SyncRead
<1>7. CASE s.pc = "write"
  <2>1. Later(Routed(r), sync[r].at) # {}
    BY <1>1, <1>7 DEF IdleSync
  <2>2. /\ s.at = First(Later(Routed(r), sync[r].at))
        /\ s.seen = sync[r].seen
        /\ s.from = sync[r].from \cup {Routed(r)}
    BY <1>1, <1>7 DEF IdleSync
  <2>3. s.at \in Keys /\ \A k \in Later(Routed(r), sync[r].at) : s.at <= k
    BY <1>2, <2>1, <2>2, LaterRows
  <2>4. ASSUME "local" \notin s.from, NEW k \in steady[r], k < s.at
        PROVE  k \in s.seen
    <3>1. Routed(r) = "primary" /\ "local" \notin sync[r].from
      BY <1>2, <2>2, <2>4 DEF DBs
    <3>2. k \in Keys /\ k \in Nat /\ s.at \in Nat
      BY <1>2, <1>3, <2>3
    <3>3. k \notin Later("primary", sync[r].at)
      BY <2>3, <2>4, <3>1, <3>2
    <3>4. k <= sync[r].at
      BY <1>3, <1>4, <3>2, <3>3
    <3>5. QED
      BY <1>5, <2>2, <3>1, <3>4 DEF PhaseSound
  <2>5. PhaseSound(s, steady[r])
    BY <1>7, <2>4 DEF PhaseSound
  <2>6. QED
    BY <1>1, <1>6, <2>3, <2>5, SyncMoves
<1>8. CASE s.pc = "stale"
  <2>1. /\ Later(Routed(r), sync[r].at) = {}
        /\ s.seen = sync[r].seen
        /\ s.from = sync[r].from \cup {Routed(r)}
    BY <1>1, <1>8 DEF IdleSync
  <2>2. ASSUME "local" \notin s.from, NEW k \in steady[r]
        PROVE  k \in s.seen
    <3>1. Routed(r) = "primary" /\ "local" \notin sync[r].from
      BY <1>2, <2>1, <2>2 DEF DBs
    <3>2. k \in Nat /\ k \notin Later("primary", sync[r].at)
      BY <1>2, <1>3, <2>1, <3>1
    <3>3. k <= sync[r].at
      BY <1>3, <1>4, <3>2
    <3>4. QED
      BY <1>5, <2>1, <3>1, <3>3 DEF PhaseSound
  <2>3. PhaseSound(s, steady[r])
    BY <1>8, <2>2 DEF PhaseSound
  <2>4. QED
    BY <1>1, <1>6, <1>8, <2>3, SyncMoves
<1>9. CASE s = IdleSync
  BY <1>1, <1>6, <1>9, IdleSound, SyncMoves
<1>10. QED
  BY <1>1, <1>7, <1>8, <1>9

(* Every step keeps the syncs sound. *)
LEMMA SyncsStep ==
  ASSUME ReplicationTypeOK, SyncSound, [ReplicationNext]_replicationVars
  PROVE  SyncSound'
<1> USE DEF clientVars, boundVars
<1>1. ASSUME NEW r \in Replicas, NEW w \in Intents, WritePrimary(r, w)
      PROVE  SyncSound'
  BY <1>1, HeldShrinks DEF WritePrimary
<1>2. ASSUME NEW r \in Replicas, NEW w \in Intents, WriteLocal(r, w)
      PROVE  SyncSound'
  BY <1>2, SyncSoundFrame DEF WriteLocal, ReplicationTypeOK, DBs
<1>3. ASSUME NEW r \in Replicas, NEW w \in Intents, WriteRolledBack(r, w)
      PROVE  SyncSound'
  BY <1>3, SyncSoundFrame DEF WriteRolledBack
<1>4. ASSUME NEW u \in unlogged, LogWrite(u) \/ LogWriteFails(u)
      PROVE  SyncSound'
  BY <1>4, SyncSoundFrame DEF LogWrite, LogWriteFails
<1>5. CASE ScheduleSync
  BY <1>5, SyncSoundFrame DEF ScheduleSync
<1>6. ASSUME NEW r \in Replicas,
             LinkCut(r) \/ LinkHeals(r) \/ FailOver(r) \/ FailBack(r)
      PROVE  SyncSound'
  BY <1>6, SyncSoundFrame DEF LinkCut, LinkHeals, FailOver, FailBack
<1>7. ASSUME NEW r \in Replicas, Crash(r)
      PROVE  SyncSound'
  BY <1>7, IdleTypes, IdleSound, SyncMoves DEF Crash
<1>8. ASSUME NEW r \in Replicas, TakeSyncJob(r)
      PROVE  SyncSound'
  <2>1. CASE modes[r] = "primary"
    <3>1. PICK s \in SyncStates : /\ sync' = [sync EXCEPT ![r] = s]
                                  /\ s.pc = "read" /\ s.at = 0 /\ s.seen = {}
      BY <1>8, <2>1, JobTakes
    <3>2. sync'[r] = s /\ \A q \in Replicas \ {r} : sync'[q] = sync[q]
      BY <3>1, SyncTakes
    <3>3. /\ steady'[r] = {k \in Keys : db["primary"][k] # 0}
          /\ \A q \in Replicas \ {r} : steady'[q] = steady[q]
          /\ db' = db
      BY <1>8, <2>1 DEF TakeSyncJob, ReplicationTypeOK
    <3>4. SteadyIsHeld'
      BY <3>3 DEF SyncSound, SteadyIsHeld
    <3>5. \A k \in Keys : ~(k <= 0)
      BY ReplicationAssumption DEF Keys
    <3>6. PhaseSound(s, steady'[r])
      BY <3>1, <3>3, <3>5 DEF PhaseSound
    <3>7. PhasesSound'
      BY <3>2, <3>3, <3>6 DEF SyncSound, PhasesSound
    <3>8. SyncsPlaced'
      BY <3>1, <3>2 DEF SyncSound, SyncsPlaced
    <3>9. QED
      BY <3>4, <3>7, <3>8 DEF SyncSound
  <2>2. CASE modes[r] # "primary"
    BY <1>8, <2>2, SyncSoundFrame DEF TakeSyncJob
  <2>3. QED
    BY <2>1, <2>2
<1>9. ASSUME NEW r \in Replicas, SyncRead(r)
      PROVE  SyncSound'
  BY <1>9, ReadSound
<1>10. ASSUME NEW r \in Replicas, SyncWrite(r)
       PROVE  SyncSound'
  <2>1. PICK s \in SyncStates : /\ sync' = [sync EXCEPT ![r] = s]
                                /\ s.pc = "read" /\ s.at = sync[r].at
                                /\ s.seen = sync[r].seen \cup {sync[r].at}
                                /\ s.from = sync[r].from
    BY <1>10, WriteTakes DEF SyncSound
  <2>2. PhaseSound(sync[r], steady[r]) /\ sync[r].pc = "write"
    BY <1>10 DEF SyncWrite, SyncSound, PhasesSound
  <2>3. steady[r] \subseteq Nat /\ sync[r].at \in Nat
    BY ReplicationAssumption DEF ReplicationTypeOK, SyncStates, Keys
  <2>4. PhaseSound(s, steady[r])
    BY <2>1, <2>2, <2>3 DEF PhaseSound
  <2>5. db'["primary"] = db["primary"] /\ steady' = steady
    BY <1>10 DEF SyncWrite, ReplicationTypeOK, DBs
  <2>6. QED
    BY <2>1, <2>4, <2>5, SyncMoves
<1>11. ASSUME NEW r \in Replicas, SyncFindStale(r)
       PROVE  SyncSound'
  <2>1. PICK s \in SyncStates :
          /\ sync' = [sync EXCEPT ![r] = s]
          /\ \/ /\ s.pc = "delete" /\ s.at \in Keys \ s.seen
                /\ s.seen = sync[r].seen
                /\ s.from = sync[r].from
             \/ s = IdleSync
    BY <1>11, FindTakes
  <2>2. PhaseSound(sync[r], steady[r]) /\ sync[r].pc = "stale"
    BY <1>11 DEF SyncFindStale, SyncSound, PhasesSound
  <2>3. /\ PhaseSound(s, steady[r])
        /\ s.pc \in {"write", "delete"} => s.at \in Keys
    BY <2>1, <2>2, IdleSound DEF PhaseSound
  <2>4. UNCHANGED <<db, steady>>
    BY <1>11 DEF SyncFindStale
  <2>5. QED
    BY <2>1, <2>3, <2>4, SyncMoves
<1>12. ASSUME NEW r \in Replicas, SyncDelete(r)
       PROVE  SyncSound'
  <2>1. PICK s \in SyncStates : /\ sync' = [sync EXCEPT ![r] = s]
                                /\ s.pc = "stale"
                                /\ s.seen = sync[r].seen
                                /\ s.from = sync[r].from
    BY <1>12, DeleteTakes
  <2>2. PhaseSound(sync[r], steady[r]) /\ sync[r].pc = "delete"
    BY <1>12 DEF SyncDelete, SyncSound, PhasesSound
  <2>3. PhaseSound(s, steady[r])
    BY <2>1, <2>2 DEF PhaseSound
  <2>4. db'["primary"] = db["primary"] /\ steady' = steady
    BY <1>12 DEF SyncDelete, ReplicationTypeOK, DBs
  <2>5. QED
    BY <2>1, <2>3, <2>4, SyncMoves
<1>13. ASSUME NEW r \in Replicas,
              TakeRecJob(r) \/ RecFetch(r) \/ RecConflict(r) \/ RecMark(r)
       PROVE  SyncSound'
  BY <1>13, SyncSoundFrame DEF TakeRecJob, RecFetch, RecConflict, RecMark
<1>14. ASSUME NEW r \in Replicas, RecReplay(r)
       PROVE  SyncSound'
  BY <1>14, HeldShrinks, SyncSoundFrame DEF RecReplay
<1>15. CASE UNCHANGED replicationVars
  BY <1>15, SyncSoundFrame DEF replicationVars
<1>16. QED
  BY <1>1, <1>2, <1>3, <1>4, <1>5, <1>6, <1>7, <1>8, <1>9, <1>10, <1>11,
     <1>12, <1>13, <1>14, <1>15
     DEF ReplicationNext, ClientStep, SyncStep, RecStep

-----------------------------------------------------------------------------
(* Every step keeps the types. *)
LEMMA TypesStep ==
  ASSUME ReplicationInv, [ReplicationNext]_replicationVars
  PROVE  ReplicationTypeOK'
<1>1. CASE ClientStep
  BY <1>1, ClientTypes DEF ReplicationInv
<1>2. CASE ScheduleSync
  BY <1>2 DEF ReplicationInv, ScheduleSync, ReplicationTypeOK, clientVars,
              boundVars
<1>3. ASSUME NEW r \in Replicas,
             \/ LinkCut(r) \/ LinkHeals(r) \/ FailOver(r) \/ FailBack(r)
             \/ Crash(r)
      PROVE  ReplicationTypeOK'
  BY <1>3, ModeTypes DEF ReplicationInv
<1>4. ASSUME NEW r \in Replicas, TakeSyncJob(r) \/ SyncStep(r)
      PROVE  ReplicationTypeOK'
  BY <1>4, SyncTypes DEF ReplicationInv, SyncSound
<1>5. ASSUME NEW r \in Replicas, TakeRecJob(r) \/ RecStep(r)
      PROVE  ReplicationTypeOK'
  BY <1>5, RecTypes DEF ReplicationInv
<1>6. CASE UNCHANGED replicationVars
  BY <1>6 DEF ReplicationInv, replicationVars, ReplicationTypeOK
<1>7. QED
  BY <1>1, <1>2, <1>3, <1>4, <1>5, <1>6 DEF ReplicationNext

(* The system starts within the invariant. *)
LEMMA ReplicationInitially == ReplicationInit => ReplicationInv
<1> SUFFICES ASSUME ReplicationInit
             PROVE  ReplicationInv
  OBVIOUS
<1> USE ReplicationAssumption DEF ReplicationInit
<1>1. \A k \in Keys : (IF k \in created THEN Seed ELSE 0) \in Contents
  BY DEF Seed, Contents
<1>2. db \in [DBs -> [Keys -> Contents]]
  BY <1>1
<1>3. log \in [DBs -> Seq(Entries)] /\ jobs \in Seq(0 .. Attempts)
  OBVIOUS
<1>4. ReplicationTypeOK
  BY <1>2, <1>3, IdleTypes DEF ReplicationTypeOK, DBs
<1>5. LogSound
  BY IdleInRange
     DEF LogSound, RunsInRange, ReplaysComeFromStandby, IdleRec, DBs
<1>6. SyncSound
  BY IdleSound DEF SyncSound, SteadyIsHeld, SyncsPlaced, PhasesSound
<1>7. QED
  BY <1>4, <1>5, <1>6 DEF ReplicationInv

(* The invariant, inductive. *)
LEMMA ReplicationInvariant == ReplicationSpec => []ReplicationInv
<1>1. ReplicationInv /\ [ReplicationNext]_replicationVars => ReplicationInv'
  BY TypesStep, LogStep, SyncsStep DEF ReplicationInv
<1>2. QED
  BY <1>1, ReplicationInitially, PTL DEF ReplicationSpec

(* The state of the standby, its log and its workers stays within its      *)
(* types, for any number of replicas, rows, writes, outages and crashes.   *)
THEOREM ReplicationTypeCorrect == ReplicationSpec => []ReplicationTypeOK
<1>1. ReplicationInv => ReplicationTypeOK
  BY DEF ReplicationInv
<1>2. QED
  BY <1>1, ReplicationInvariant, PTL

(* The primary's own log stays empty, and every run of the reconciler      *)
(* replays entries of the standby's.                                       *)
THEOREM ReplaysAreOfTheStandby == ReplicationSpec => []ReplaysComeFromStandby
<1>1. ReplicationInv => ReplaysComeFromStandby
  BY DEF ReplicationInv, LogSound
<1>2. QED
  BY <1>1, ReplicationInvariant, PTL

(* deleteStaleLocalRows spares every row the primary held from the start   *)
(* of a sync whose pages came from the primary, whatever other replicas'   *)
(* syncs, replays and requests do meanwhile.                               *)
THEOREM SyncsSpareHeldRows == ReplicationSpec => []DeletesOnlyVanishedRows
<1>1. ReplicationInv => DeletesOnlyVanishedRows
  BY DEF ReplicationInv, SyncSound, PhasesSound, PhaseSound,
         DeletesOnlyVanishedRows
<1>2. QED
  BY <1>1, ReplicationInvariant, PTL
=============================================================================
