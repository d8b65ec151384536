------------------------- MODULE StandbyReplication -------------------------
(***************************************************************************)
(* The Postgres standby: request routing and the fallback write log        *)
(* (prisma.module.ts), the mirror sync that copies primary to the standby  *)
(* (db-mirror-sync.service.ts, its worker) and the reconciliation that     *)
(* replays logged writes after recovery (failover-reconciliation.service.  *)
(* ts, its worker).                                                        *)
(*                                                                         *)
(* Every backend replica has a FailoverService of its own, so its own      *)
(* mode; FailoverMonitor models how a mode changes, here only the modes    *)
(* matter.  The two job queues live in Redis and are shared.  One table    *)
(* stands for all: its rows are Keys, in the order of the keyset pages.    *)
(* A row's content is the number of the client write that made it, Seed if *)
(* it is older than all of them, and 0 is "no row".  A page holds one row. *)
(*                                                                         *)
(* Its state keeps names of its own, modes and crashes, so that one module *)
(* can hold the proofs about it and about FailoverMonitor.                 *)
(***************************************************************************)
EXTENDS Naturals, Sequences, FiniteSets

CONSTANTS Replicas,       \* backend processes
          KeyCount,       \* rows are 1 .. KeyCount
          SensitiveKeys,  \* rows of CONFLICT_SENSITIVE_TABLES
          MaxWrites,      \* bound: client writes
          MaxCuts,        \* bound: times a replica loses the primary
          MaxCrashes,     \* bound: process crashes
          Attempts        \* BullMQ attempts of a reconcile job

ASSUME ReplicationAssumption ==
  /\ KeyCount \in Nat \ {0}
  /\ SensitiveKeys \subseteq 1 .. KeyCount
  /\ MaxWrites \in Nat
  /\ MaxCuts \in Nat
  /\ MaxCrashes \in Nat
  /\ Attempts \in Nat \ {0}

VARIABLES reach,      \* per replica: can it reach the primary now
          modes,      \* per replica: getPostgresMode()
          db,         \* rows of both databases
          log,        \* the FailoverWriteLog table of both databases
          conflicts,  \* the FailoverConflict rows of both databases
          unlogged,   \* standby writes committed, log entry not yet created
          syncJob,    \* the scheduler's job: "none" or "due"
          sync,       \* per replica: its mirror-sync worker
          jobs,       \* waiting reconcile jobs, each its attemptsMade
          rec,        \* per replica: its reconciliation worker
          writes,     \* client writes so far; the last one's number
          cuts, crashes,
          created,    \* history: keys ever created
          acked,      \* history: fallback writes acknowledged to a client
          settled,    \* history: entries that reached the primary's tables
          steady      \* history, per replica: rows the primary held ever
                      \* since the replica's sync began

replicationVars ==
  <<reach, modes, db, log, conflicts, unlogged, syncJob, sync, jobs, rec,
    writes, cuts, crashes, created, acked, settled, steady>>

clientVars == <<unlogged, writes, created, acked>>
boundVars  == <<cuts, crashes>>

DBs == {"primary", "local"}
Keys == 1 .. KeyCount
First(S) == CHOOSE k \in S : \A j \in S : k <= j

Seed == MaxWrites + 1
Contents == 0 .. Seed
WriteIds == 1 .. MaxWrites
Ops == {"create", "update", "delete"}

Intents == [op : Ops, key : Keys, id : WriteIds]
Entries == [op : Ops, key : Keys, id : WriteIds, state : {"open", "done"}]

Entry(w) == [op |-> w.op, key |-> w.key, id |-> w.id, state |-> "open"]

IdleSync == [pc |-> "idle", at |-> 0, row |-> 0, seen |-> {}, from |-> {}]
IdleRec  == [pc |-> "idle", tries |-> 0, from |-> "primary", todo |-> {}]

SyncStates == [pc : {"idle", "read", "write", "stale", "delete"},
               at : 0 .. KeyCount, row : Contents, seen : SUBSET Keys,
               from : SUBSET DBs]  \* history: where its pages came from
RecStates == [pc : {"idle", "fetch", "replay", "conflict", "mark"},
              tries : 0 .. Attempts, from : DBs, todo : SUBSET Nat]

ReplicationTypeOK ==
  /\ reach \in [Replicas -> {"up", "down"}]
  /\ modes \in [Replicas -> DBs]
  /\ db \in [DBs -> [Keys -> Contents]]
  /\ log \in [DBs -> Seq(Entries)]
  /\ conflicts \in [DBs -> SUBSET WriteIds]
  /\ unlogged \subseteq [replica : Replicas, w : Intents]
  /\ syncJob \in {"none", "due"}
  /\ sync \in [Replicas -> SyncStates]
  /\ jobs \in Seq(0 .. Attempts)
  /\ rec \in [Replicas -> RecStates]
  /\ writes \in 0 .. MaxWrites
  /\ cuts \in 0 .. MaxCuts
  /\ crashes \in 0 .. MaxCrashes
  /\ created \subseteq Keys
  /\ acked \subseteq WriteIds
  /\ settled \subseteq WriteIds
  /\ steady \in [Replicas -> SUBSET Keys]

(* Any rows, mirrored already; more come from the clients, through either   *)
(* database.                                                               *)
ReplicationInit ==
  /\ reach = [r \in Replicas |-> "up"]
  /\ modes = [r \in Replicas |-> "primary"]
  /\ created \in SUBSET Keys
  /\ db = [d \in DBs |-> [k \in Keys |-> IF k \in created THEN Seed ELSE 0]]
  /\ log = [d \in DBs |-> <<>>]
  /\ conflicts = [d \in DBs |-> {}]
  /\ unlogged = {}
  /\ syncJob = "none"
  /\ sync = [r \in Replicas |-> IdleSync]
  /\ jobs = <<>>
  /\ rec = [r \in Replicas |-> IdleRec]
  /\ writes = 0 /\ cuts = 0 /\ crashes = 0
  /\ acked = {} /\ settled = {}
  /\ steady = [r \in Replicas |-> {}]

-----------------------------------------------------------------------------
(* Routing.  The Proxy picks the database at every property access.        *)

Routed(r) == modes[r]

(* The standby is always reachable, the primary when the link is up. *)
Answers(r) == Routed(r) = "local" \/ reach[r] = "up"

(* What a Prisma create, update or delete requires of the row. *)
Applies(w, rows) ==
  IF w.op = "create" THEN rows[w.key] = 0 ELSE rows[w.key] # 0

Apply(w, rows) ==
  [rows EXCEPT ![w.key] = IF w.op = "delete" THEN 0 ELSE w.id]

(* Ids are random UUIDs: a client creates no row twice. *)
ClientWants(w) ==
  /\ w.id = writes + 1
  /\ w.op = "create" => w.key \notin created

Issue(w) ==
  /\ writes' = w.id
  /\ created' = created \cup {w.key}

StillHeld(rows) ==
  [r \in Replicas |-> {k \in steady[r] : rows[k] # 0}]

(* A request in primary mode: one statement, acknowledged when it commits. *)
WritePrimary(r, w) ==
  /\ Routed(r) = "primary" /\ reach[r] = "up"
  /\ ClientWants(w) /\ Applies(w, db["primary"])
  /\ Issue(w)
  /\ db' = [db EXCEPT !["primary"] = Apply(w, @)]
  /\ steady' = StillHeld(db'["primary"])
  /\ UNCHANGED <<reach, modes, log, conflicts, unlogged, syncJob, sync, jobs,
                 rec, boundVars, acked, settled>>

(* withWriteLog, first await: the write itself on the standby. *)
WriteLocal(r, w) ==
  /\ Routed(r) = "local"
  /\ ClientWants(w) /\ Applies(w, db["local"])
  /\ Issue(w)
  /\ db' = [db EXCEPT !["local"] = Apply(w, @)]
  /\ unlogged' = unlogged \cup {[replica |-> r, w |-> w]}
  /\ UNCHANGED <<reach, modes, log, conflicts, syncJob, sync, jobs, rec,
                 boundVars, acked, settled, steady>>

(* Mutant: the entry is created through the routed client. *)
LogWriteRouted(u) ==
  /\ u \in unlogged
  /\ unlogged' = unlogged \ {u}
  /\ log' = [log EXCEPT ![Routed(u.replica)] = Append(@, Entry(u.w))]
  /\ acked' = acked \cup {u.w.id}
  /\ UNCHANGED <<reach, modes, db, conflicts, syncJob, sync, jobs, rec, writes,
                 boundVars, created, settled, steady>>

(* withWriteLog, second await: the entry, then the answer to the client. *)
LogWrite(u) ==
  /\ u \in unlogged
  /\ unlogged' = unlogged \ {u}
  /\ log' = [log EXCEPT !["local"] = Append(@, Entry(u.w))]
  /\ acked' = acked \cup {u.w.id}
  /\ UNCHANGED <<reach, modes, db, conflicts, syncJob, sync, jobs, rec, writes,
                 boundVars, created, settled, steady>>

(* The insert fails, .catch(() => {}) swallows it, the client is answered. *)
LogWriteFails(u) ==
  /\ u \in unlogged
  /\ unlogged' = unlogged \ {u}
  /\ acked' = acked \cup {u.w.id}
  /\ UNCHANGED <<reach, modes, db, log, conflicts, syncJob, sync, jobs, rec,
                 writes, boundVars, created, settled, steady>>

(* A write inside an interactive transaction that then rolls back: the     *)
(* entry went through the outer client, so it stays.                       *)
WriteRolledBack(r, w) ==
  /\ Routed(r) = "local"
  /\ ClientWants(w) /\ w.op = "update" /\ Applies(w, db["local"])
  /\ writes' = w.id
  /\ log' = [log EXCEPT !["local"] = Append(@, Entry(w))]
  /\ UNCHANGED <<reach, modes, db, conflicts, unlogged, syncJob, sync, jobs,
                 rec, boundVars, created, acked, settled, steady>>

-----------------------------------------------------------------------------
(* Mode changes and failures. *)

LinkCut(r) ==
  /\ reach[r] = "up" /\ cuts < MaxCuts
  /\ reach' = [reach EXCEPT ![r] = "down"]
  /\ cuts' = cuts + 1
  /\ UNCHANGED <<modes, db, log, conflicts, clientVars, syncJob, sync, jobs,
                 rec, crashes, settled, steady>>

LinkHeals(r) ==
  /\ reach[r] = "down"
  /\ reach' = [reach EXCEPT ![r] = "up"]
  /\ UNCHANGED <<modes, db, log, conflicts, clientVars, syncJob, sync, jobs,
                 rec, boundVars, settled, steady>>

FailOver(r) ==
  /\ modes[r] = "primary" /\ reach[r] = "down"
  /\ modes' = [modes EXCEPT ![r] = "local"]
  /\ UNCHANGED <<reach, db, log, conflicts, clientVars, syncJob, sync, jobs,
                 rec, boundVars, settled, steady>>

(* The switch back emits postgres:recovered, and onRecovered adds a job; a *)
(* failing add is only logged.                                             *)
FailBack(r) ==
  /\ modes[r] = "local" /\ reach[r] = "up"
  /\ modes' = [modes EXCEPT ![r] = "primary"]
  /\ jobs' = Append(jobs, 0) \/ UNCHANGED jobs
  /\ UNCHANGED <<reach, db, log, conflicts, clientVars, syncJob, sync, rec,
                 boundVars, settled, steady>>

(* The process dies: its mode, its requests and its workers' progress go   *)
(* with it.  BullMQ finds the stalled jobs and delivers them again.        *)
Crash(r) ==
  /\ crashes < MaxCrashes
  /\ crashes' = crashes + 1
  /\ modes' = [modes EXCEPT ![r] = "primary"]
  /\ unlogged' = {u \in unlogged : u.replica # r}
  /\ sync' = [sync EXCEPT ![r] = IdleSync]
  /\ syncJob' = IF sync[r].pc = "idle" THEN syncJob ELSE "due"
  /\ rec' = [rec EXCEPT ![r] = IdleRec]
  /\ jobs' = IF rec[r].pc = "idle" THEN jobs ELSE Append(jobs, rec[r].tries)
  /\ UNCHANGED <<reach, db, log, conflicts, writes, cuts, created, acked,
                 settled, steady>>

-----------------------------------------------------------------------------
(* DbMirrorSyncWorker and DbMirrorSyncService. *)

(* Every ten minutes the job scheduler makes the next job. *)
ScheduleSync ==
  /\ syncJob = "none"
  /\ syncJob' = "due"
  /\ UNCHANGED <<reach, modes, db, log, conflicts, clientVars, sync, jobs, rec,
                 boundVars, settled, steady>>

(* The processor: the mode is looked at once, before syncAll. *)
TakeSyncJob(r) ==
  /\ syncJob = "due" /\ sync[r].pc = "idle"
  /\ syncJob' = "none"
  /\ \/ /\ modes[r] = "primary"
        /\ sync' = [sync EXCEPT ![r] = [IdleSync EXCEPT !.pc = "read"]]
        /\ steady' = [steady EXCEPT ![r] = {k \in Keys : db["primary"][k] # 0}]
     \/ /\ modes[r] # "primary"
        /\ UNCHANGED <<sync, steady>>
  /\ UNCHANGED <<reach, modes, db, log, conflicts, clientVars, jobs, rec,
                 boundVars, settled>>

Later(d, from) == {k \in Keys : k > from /\ db[d][k] # 0}

(* upsertModel's findMany, through the routed client: the next page, or    *)
(* none and phase 2 begins.  An unreachable primary fails the job.         *)
SyncRead(r) ==
  /\ sync[r].pc = "read"
  /\ LET page == Later(Routed(r), sync[r].at) IN
     \/ /\ Answers(r) /\ page # {}
        /\ sync' = [sync EXCEPT ![r].pc = "write", ![r].at = First(page),
                                ![r].row = db[Routed(r)][First(page)],
                                ![r].from = @ \cup {Routed(r)}]
        /\ UNCHANGED syncJob
     \/ /\ Answers(r) /\ page = {}
        /\ sync' = [sync EXCEPT ![r].pc = "stale", ![r].at = 0,
                                ![r].from = @ \cup {Routed(r)}]
        /\ UNCHANGED syncJob
     \/ /\ ~Answers(r)
        /\ sync' = [sync EXCEPT ![r] = IdleSync]
        /\ syncJob' = "due"
  /\ UNCHANGED <<reach, modes, db, log, conflicts, clientVars, jobs, rec,
                 boundVars, settled, steady>>

(* Mutant: only the last page's ids are kept for phase 2. *)
SyncWriteForgetsPages(r) ==
  /\ sync[r].pc = "write"
  /\ db' = [db EXCEPT !["local"][sync[r].at] = sync[r].row]
  /\ sync' = [sync EXCEPT ![r].pc = "read", ![r].row = 0,
                          ![r].seen = {sync[r].at}]
  /\ UNCHANGED <<reach, modes, log, conflicts, clientVars, syncJob, jobs, rec,
                 boundVars, settled, steady>>

(* upsertModel's transaction on the worker's own standby connection. *)
SyncWrite(r) ==
  /\ sync[r].pc = "write"
  /\ db' = [db EXCEPT !["local"][sync[r].at] = sync[r].row]
  /\ sync' = [sync EXCEPT ![r].pc = "read", ![r].row = 0,
                          ![r].seen = @ \cup {sync[r].at}]
  /\ UNCHANGED <<reach, modes, log, conflicts, clientVars, syncJob, jobs, rec,
                 boundVars, settled, steady>>

Stale(r) == Later("local", sync[r].at) \ sync[r].seen

(* Mutant: no delete-reconciliation. *)
SyncSkipsPhase2(r) ==
  /\ sync[r].pc = "stale"
  /\ sync' = [sync EXCEPT ![r] = IdleSync]
  /\ UNCHANGED <<reach, modes, db, log, conflicts, clientVars, syncJob, jobs,
                 rec, boundVars, settled, steady>>

(* deleteStaleLocalRows: the next local row no page of phase 1 had. *)
SyncFindStale(r) ==
  /\ sync[r].pc = "stale"
  /\ \/ /\ Stale(r) # {}
        /\ sync' = [sync EXCEPT ![r].pc = "delete", ![r].at = First(Stale(r))]
     \/ /\ Stale(r) = {}
        /\ sync' = [sync EXCEPT ![r] = IdleSync]
  /\ UNCHANGED <<reach, modes, db, log, conflicts, clientVars, syncJob, jobs,
                 rec, boundVars, settled, steady>>

SyncDelete(r) ==
  /\ sync[r].pc = "delete"
  /\ db' = [db EXCEPT !["local"][sync[r].at] = 0]
  /\ sync' = [sync EXCEPT ![r].pc = "stale"]
  /\ UNCHANGED <<reach, modes, log, conflicts, clientVars, syncJob, jobs, rec,
                 boundVars, settled, steady>>

SyncStep(r) == SyncRead(r) \/ SyncWrite(r) \/ SyncFindStale(r) \/ SyncDelete(r)

-----------------------------------------------------------------------------
(* FailoverReconciliationWorker and FailoverReconciliationService. *)

TakeRecJob(r) ==
  /\ jobs # <<>> /\ rec[r].pc = "idle"
  /\ rec' = [rec EXCEPT ![r] = [IdleRec EXCEPT !.pc = "fetch",
                                               !.tries = Head(jobs)]]
  /\ jobs' = Tail(jobs)
  /\ UNCHANGED <<reach, modes, db, log, conflicts, clientVars, syncJob, sync,
                 boundVars, settled, steady>>

(* Mutant: the attempts are counted but never exhausted. *)
FailRecJobForEver(r) ==
  /\ rec' = [rec EXCEPT ![r] = IdleRec]
  /\ jobs' = Append(jobs, rec[r].tries + 1)

(* An exception fails the job: retried while attempts last, then the DLQ. *)
FailRecJob(r) ==
  /\ rec' = [rec EXCEPT ![r] = IdleRec]
  /\ jobs' = IF rec[r].tries + 1 < Attempts
             THEN Append(jobs, rec[r].tries + 1) ELSE jobs

OpenEntries(d) == {i \in 1 .. Len(log[d]) : log[d][i].state = "open"}

(* reconcileAll's findMany: the unreconciled entries of the ROUTED database. *)
RecFetch(r) ==
  /\ rec[r].pc = "fetch"
  /\ LET open == OpenEntries(Routed(r)) IN
     \/ /\ Answers(r) /\ open # {}
        /\ rec' = [rec EXCEPT ![r].pc = "replay", ![r].from = Routed(r),
                              ![r].todo = open]
        /\ UNCHANGED jobs
     \/ /\ Answers(r) /\ open = {}
        /\ rec' = [rec EXCEPT ![r] = IdleRec]
        /\ UNCHANGED jobs
     \/ ~Answers(r) /\ FailRecJob(r)
  /\ UNCHANGED <<reach, modes, db, log, conflicts, clientVars, syncJob, sync,
                 boundVars, settled, steady>>

(* Entries come back oldest first. *)
Position(r) == First(rec[r].todo)
Current(r) == log[rec[r].from][Position(r)]

(* replayEntry's try block: the entry's operation, through the routed      *)
(* client.  On the standby that client logs it as one more fallback write. *)
RecReplay(r) ==
  /\ rec[r].pc = "replay"
  /\ LET e == Current(r)
         d == Routed(r) IN
     \/ /\ Answers(r) /\ Applies(e, db[d])
        /\ db' = [db EXCEPT ![d] = Apply(e, @)]
        /\ log' = IF d = "local"
                  THEN [log EXCEPT !["local"] = Append(@, Entry(e))] ELSE log
        /\ settled' = IF d = "primary" THEN settled \cup {e.id} ELSE settled
        /\ steady' = StillHeld(db'["primary"])
        /\ rec' = [rec EXCEPT ![r].pc = "mark"]
     \/ /\ ~(Answers(r) /\ Applies(e, db[d]))
        /\ rec' = [rec EXCEPT ![r].pc =
                     IF e.key \in SensitiveKeys THEN "conflict" ELSE "mark"]
        /\ UNCHANGED <<db, log, settled, steady>>
  /\ UNCHANGED <<reach, modes, conflicts, clientVars, syncJob, sync, jobs,
                 boundVars>>

(* recordConflict, in the database routed to by now. *)
RecConflict(r) ==
  /\ rec[r].pc = "conflict"
  /\ \/ /\ Answers(r)
        /\ conflicts' = [conflicts EXCEPT ![Routed(r)] =
                                           @ \cup {Current(r).id}]
        /\ settled' = IF Routed(r) = "primary"
                      THEN settled \cup {Current(r).id} ELSE settled
        /\ rec' = [rec EXCEPT ![r].pc = "mark"]
        /\ UNCHANGED jobs
     \/ /\ ~Answers(r)
        /\ FailRecJob(r)
        /\ UNCHANGED <<conflicts, settled>>
  /\ UNCHANGED <<reach, modes, db, log, clientVars, syncJob, sync, boundVars,
                 steady>>

(* reconciledAt is set by id in the routed database: an entry read from    *)
(* the other one is not found there, and the update throws.                *)
RecMark(r) ==
  /\ rec[r].pc = "mark"
  /\ \/ /\ Answers(r) /\ Routed(r) = rec[r].from
        /\ log' = [log EXCEPT ![Routed(r)][Position(r)].state = "done"]
        /\ rec' = IF rec[r].todo = {Position(r)}
                  THEN [rec EXCEPT ![r] = IdleRec]
                  ELSE [rec EXCEPT ![r].pc = "replay",
                                   ![r].todo = @ \ {Position(r)}]
        /\ UNCHANGED jobs
     \/ /\ ~(Answers(r) /\ Routed(r) = rec[r].from)
        /\ FailRecJob(r)
        /\ UNCHANGED log
  /\ UNCHANGED <<reach, modes, db, conflicts, clientVars, syncJob, sync,
                 boundVars, settled, steady>>

RecStep(r) == RecFetch(r) \/ RecReplay(r) \/ RecConflict(r) \/ RecMark(r)

-----------------------------------------------------------------------------
ClientStep ==
  \/ \E r \in Replicas, w \in Intents :
       WritePrimary(r, w) \/ WriteLocal(r, w) \/ WriteRolledBack(r, w)
  \/ \E u \in unlogged : LogWrite(u) \/ LogWriteFails(u)

ReplicationNext ==
  \/ ClientStep
  \/ ScheduleSync
  \/ \E r \in Replicas :
       \/ LinkCut(r) \/ LinkHeals(r) \/ FailOver(r) \/ FailBack(r) \/ Crash(r)
       \/ TakeSyncJob(r) \/ SyncStep(r)
       \/ TakeRecJob(r) \/ RecStep(r)

ReplicationSpec == ReplicationInit /\ [][ReplicationNext]_replicationVars

(* The scheduler fires, workers take jobs and proceed, health checks end   *)
(* up noticing the link; links and clients owe nothing.                    *)
ReplicationFairness ==
  /\ WF_replicationVars(ScheduleSync)
  /\ \A r \in Replicas :
       /\ WF_replicationVars(FailOver(r)) /\ WF_replicationVars(FailBack(r))
       /\ WF_replicationVars(TakeSyncJob(r)) /\ WF_replicationVars(SyncStep(r))
       /\ WF_replicationVars(TakeRecJob(r)) /\ WF_replicationVars(RecStep(r))

ReplicationFairSpec == ReplicationSpec /\ ReplicationFairness

-----------------------------------------------------------------------------
(* Properties that hold. *)

LoggedIds == {log["local"][i].id : i \in 1 .. Len(log["local"])}

(* The reconciler replays only what it read from the standby: the          *)
(* primary's own FailoverWriteLog never has an entry, since only the       *)
(* standby client logs.  So a run whose fetch is routed to the primary, as *)
(* it is after a recovery, has nothing to replay.                          *)
ReplaysComeFromStandby ==
  /\ log["primary"] = <<>>
  /\ \A r \in Replicas : rec[r].todo # {} => rec[r].from = "local"

(* Delete-reconciliation spares what the primary holds: once every page    *)
(* of phase 1 came from the primary, phase 2 deletes no row the primary    *)
(* held from the start of the sync on, although the pages are read one by  *)
(* one while rows come and go, and other syncs and replays run.            *)
DeletesOnlyVanishedRows ==
  \A r \in Replicas :
    sync[r].pc = "delete" /\ sync[r].from = {"primary"}
    => sync[r].at \notin steady[r]

(* Left in primary mode, the standby catches up: rows upserted, rows gone  *)
(* deleted, whatever earlier outages and half-done syncs left behind.      *)
AllOnPrimary == \A r \in Replicas : modes[r] = "primary" /\ reach[r] = "up"

StandbyConverges == <>[]AllOnPrimary => <>[](db["local"] = db["primary"])

-----------------------------------------------------------------------------
(* Statements of the documentation and the comments that the code refutes. *)

Open(key) ==
  \E i \in 1 .. Len(log["local"]) :
    log["local"][i].key = key /\ log["local"][i].state = "open"

(* Writes are "accepted (not rejected), and logged": a fallback write that *)
(* a client was told of has its entry.                                     *)
AckedMeansLogged == acked \subseteq LoggedIds

(* "Once Postgres recovers, FailoverReconciliationWorker replays every     *)
(* logged write against primary": a run that ends without an error, in     *)
(* primary mode, leaves no logged write open.                              *)
EndsWell(r) ==
  /\ rec[r].pc = "fetch" /\ rec'[r].pc = "idle"
  /\ Answers(r) /\ Routed(r) = "primary"

RecoveryReplaysEveryWrite ==
  [][\A r \in Replicas :
       EndsWell(r) => \A k \in Keys : ~Open(k)]_replicationVars

(* The sync must not "overwrite the very fallback writes                   *)
(* FailoverReconciliationWorker needs to replay later": it changes no      *)
(* standby row that has an open entry.  A step that changes a standby row  *)
(* and neither logs nor owes an entry is the sync's.                       *)
SyncSparesFallbackWrites ==
  [][\A k \in Keys :
       /\ db'["local"][k] # db["local"][k]
       /\ UNCHANGED <<log, unlogged>>
       => ~Open(k)]_replicationVars

(* "Only actually syncs while Postgres is in primary mode". *)
SyncOnlyInPrimaryMode ==
  [][\A r \in Replicas :
       sync[r].pc \in {"write", "delete"} /\ sync'[r].pc \in {"read", "stale"}
       => modes[r] = "primary"]_replicationVars

(* "Removes local rows that no longer exist on primary": also a sync whose *)
(* mode flipped under way deletes no row the primary held all along.       *)
SyncSparesPrimaryRows ==
  \A r \in Replicas : sync[r].pc = "delete" => sync[r].at \notin steady[r]

(* A reconciled create was replayed against primary, or filed as a         *)
(* conflict there ("replays ... against primary", "still handled").        *)
ReconciledMeansSettled ==
  \A i \in 1 .. Len(log["local"]) :
    log["local"][i].state = "done" /\ log["local"][i].op = "create"
    => log["local"][i].id \in settled

(* "One reconciliation run at a time". *)
OneReconciliationAtATime ==
  \A r, q \in Replicas : rec[r].pc # "idle" /\ rec[q].pc # "idle" => r = q

(* A handled entry "won't be replayed again": its write has no second      *)
(* entry.                                                                  *)
NoWriteLoggedTwice ==
  \A i, j \in 1 .. Len(log["local"]) :
    log["local"][i].id = log["local"][j].id => i = j

(* The log is replayed "in order": the entries of a row stand in the order *)
(* its writes committed.                                                   *)
LogKeepsCommitOrder ==
  \A i, j \in 1 .. Len(log["local"]) :
    /\ i < j
    /\ log["local"][i].key = log["local"][j].key
    => log["local"][i].id <= log["local"][j].id

(* Entries are "writes made against the local standby": none stands for a  *)
(* write the standby rolled back.                                          *)
OnlyCommittedWritesLogged == LoggedIds \subseteq acked
=============================================================================
