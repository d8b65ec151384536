-------------------------- MODULE FailoverMonitor --------------------------
(***************************************************************************)
(* The health check of one store in one process: FailoverService's         *)
(* checkPostgres and checkRedis, and FailoverManager._check of the support *)
(* agent.  They are the same state machine over their own fields; two      *)
(* constants tell them apart:                                              *)
(*                                                                         *)
(*                  PingBounded   PersistentConnection                     *)
(*   checkPostgres  TRUE          TRUE   (withTimeout; a pool of one)      *)
(*   checkRedis     TRUE          FALSE  (commandTimeout; new connection)  *)
(*   _check         FALSE         FALSE  (nothing bounds the ping)         *)
(*                                                                         *)
(* The primary's link is the environment.  "down" refuses a ping at once,  *)
(* "hung" never answers it (packets dropped, or a stalled server).         *)
(***************************************************************************)
EXTENDS Naturals

CONSTANTS FailureThreshold,       \* FAILURE_THRESHOLD
          RecoveryThreshold,      \* RECOVERY_THRESHOLD
          PingBounded,            \* the ping is raced against a timeout
          PersistentConnection,   \* one connection serves every ping
          MaxRestarts             \* bound: process restarts in a behaviour

ASSUME MonitorAssumption == /\ FailureThreshold \in Nat \ {0}
                            /\ RecoveryThreshold \in Nat \ {0}
                            /\ PingBounded \in BOOLEAN
                            /\ PersistentConnection \in BOOLEAN
                            /\ MaxRestarts \in Nat

VARIABLES link,           \* what the primary does with a ping now
          mode,           \* postgresMode / redisMode
          failureCount,   \* consecutive failures counted in primary mode
          successCount,   \* consecutive successes counted in local mode
          check,          \* the reentrancy flag: "idle" or "running"
          conn,           \* "held": the ping connection awaits an old answer
          restarts,       \* restarts so far (bounds the model)
          streak          \* history: the last outcome since boot, and how
                          \* many checks in a row had it

vars == <<link, mode, failureCount, successCount, check, conn, restarts,
          streak>>

Links == {"up", "down", "hung"}

NoOutcome == [last |-> "ok", n |-> 0]

(* The longest run the history tells apart from longer ones. *)
StreakCap == FailureThreshold + RecoveryThreshold

Outcomes == {"ok", "failed"}

Extend(s, outcome) ==
  [last |-> outcome,
   n    |-> IF s.last # outcome THEN 1
            ELSE IF s.n < StreakCap THEN s.n + 1 ELSE s.n]

TypeOK ==
  /\ link \in Links
  /\ mode \in {"primary", "local"}
  /\ failureCount \in 0 .. FailureThreshold
  /\ successCount \in 0 .. RecoveryThreshold
  /\ check \in {"idle", "running"}
  /\ conn \in {"free", "held"}
  /\ restarts \in 0 .. MaxRestarts
  /\ streak \in [last : Outcomes, n : 0 .. StreakCap]

Init ==
  /\ link \in Links
  /\ mode = "primary"
  /\ failureCount = 0
  /\ successCount = 0
  /\ check = "idle"
  /\ conn = "free"
  /\ restarts = 0
  /\ streak = NoOutcome

-----------------------------------------------------------------------------
(* The body of a check. *)

(* The interval timer fires.  A tick that finds a check running returns. *)
StartCheck ==
  /\ check = "idle"
  /\ check' = "running"
  /\ UNCHANGED <<link, mode, failureCount, successCount, conn, restarts,
                 streak>>

(* Mutant: off by one, the mode switches one success early. *)
CountTowardRecoveryEarly ==
  /\ mode' = IF successCount + 2 >= RecoveryThreshold THEN "primary" ELSE mode
  /\ successCount' = IF mode' = "local" THEN successCount + 1 ELSE 0

(* The try block after the ping resolved: successes count in local mode. *)
CountTowardRecovery ==
  \/ /\ mode = "primary"
     /\ UNCHANGED <<mode, successCount>>
  \/ /\ mode = "local"
     /\ successCount + 1 < RecoveryThreshold
     /\ successCount' = successCount + 1
     /\ UNCHANGED mode
  \/ /\ mode = "local"
     /\ successCount + 1 >= RecoveryThreshold
     /\ mode' = "primary"
     /\ successCount' = 0

(* Mutant: the failures before a success still count. *)
CountSuccessKeepsFailures ==
  /\ UNCHANGED failureCount
  /\ CountTowardRecovery
  /\ streak' = Extend(streak, "ok")

(* Mutant: every success starts the count anew. *)
CountSuccessFromOne ==
  /\ failureCount' = 0
  /\ successCount' = IF mode = "local" THEN 1 ELSE 0
  /\ streak' = Extend(streak, "ok")
  /\ UNCHANGED mode

CountSuccess ==
  /\ failureCount' = 0
  /\ CountTowardRecovery
  /\ streak' = Extend(streak, "ok")

(* Mutant: off by one, the mode switches one failure early. *)
CountTowardFailoverEarly ==
  /\ mode' = IF failureCount + 2 >= FailureThreshold THEN "local" ELSE mode
  /\ failureCount' = IF mode' = "primary" THEN failureCount + 1 ELSE 0

(* The catch block: the ping was refused, or the timeout won the race. *)
CountTowardFailover ==
  \/ /\ mode = "local"
     /\ UNCHANGED <<mode, failureCount>>
  \/ /\ mode = "primary"
     /\ failureCount + 1 < FailureThreshold
     /\ failureCount' = failureCount + 1
     /\ UNCHANGED mode
  \/ /\ mode = "primary"
     /\ failureCount + 1 >= FailureThreshold
     /\ mode' = "local"
     /\ failureCount' = 0

CountFailure ==
  /\ successCount' = 0
  /\ CountTowardFailover
  /\ streak' = Extend(streak, "failed")

(* A healthy primary answers, provided the ping got a connection at all. *)
PingAnswered ==
  /\ check = "running"
  /\ link = "up"
  /\ conn = "free"
  /\ CountSuccess
  /\ check' = "idle"
  /\ UNCHANGED <<link, conn, restarts>>

PingRefused ==
  /\ check = "running"
  /\ link = "down"
  /\ CountFailure
  /\ check' = "idle"
  /\ conn' = "free"
  /\ UNCHANGED <<link, restarts>>

(* Mutant: the ping is awaited bare. *)
PingAwaitedBare == FALSE /\ UNCHANGED vars

(* The timeout ends the check, not the query: a ping that was really sent  *)
(* keeps the pool's only connection until the socket answers or breaks, so *)
(* the next check may wait for that connection and time out in its turn.   *)
PingTimesOut ==
  /\ check = "running"
  /\ PingBounded
  /\ link = "hung" \/ conn = "held"
  /\ CountFailure
  /\ check' = "idle"
  /\ conn' = IF PersistentConnection THEN "held" ELSE "free"
  /\ UNCHANGED <<link, restarts>>

(* The answer a timed-out check no longer waits for, or the socket's error *)
(* once packets flow again, gives the connection back to the pool.         *)
LateAnswer ==
  /\ conn = "held"
  /\ link # "hung"
  /\ conn' = "free"
  /\ UNCHANGED <<link, mode, failureCount, successCount, check, restarts,
                 streak>>

-----------------------------------------------------------------------------
(* The environment. *)

LinkChanges ==
  /\ link' \in Links \ {link}
  /\ UNCHANGED <<mode, failureCount, successCount, check, conn, restarts,
                 streak>>

(* All of this state is in memory: a deploy or a crash forgets it. *)
Restart ==
  /\ restarts < MaxRestarts
  /\ restarts' = restarts + 1
  /\ mode' = "primary"
  /\ failureCount' = 0
  /\ successCount' = 0
  /\ check' = "idle"
  /\ conn' = "free"
  /\ streak' = NoOutcome
  /\ UNCHANGED link

EndCheck == PingAnswered \/ PingRefused \/ PingTimesOut

Next == StartCheck \/ EndCheck \/ LateAnswer \/ LinkChanges \/ Restart

Spec == Init /\ [][Next]_vars

(* setInterval keeps firing; a ping that can resolve does; TCP gives up    *)
(* or delivers once the link moves packets.  Nothing is assumed of the     *)
(* link itself or of restarts.                                             *)
Fairness == WF_vars(StartCheck) /\ WF_vars(EndCheck) /\ WF_vars(LateAnswer)

FairSpec == Spec /\ Fairness

-----------------------------------------------------------------------------
(* Properties. *)

(* The counters never drift from what the checks saw: whatever the order   *)
(* of outcomes, timeouts, flips and restarts, the counter of the current   *)
(* mode is the length of the run of checks against it, and the other       *)
(* counter is clear, so a later flip starts from nothing.                  *)
CountersAreStreak ==
  /\ mode = "primary" =>
       /\ successCount = 0
       /\ failureCount < FailureThreshold
       /\ failureCount = IF streak.last = "ok" THEN 0 ELSE streak.n
  /\ mode = "local" =>
       /\ failureCount = 0
       /\ successCount < RecoveryThreshold
       /\ successCount = IF streak.last = "ok" THEN streak.n ELSE 0

FailedRun(s) == s.last = "failed" /\ s.n >= FailureThreshold
GoodRun(s) == s.last = "ok" /\ s.n >= RecoveryThreshold

(* No blip switches the mode (failover.service.ts:14-18): a switch to      *)
(* "local" ends a run of FailureThreshold failed checks of this process,   *)
(* a switch back a run of RecoveryThreshold good ones.  Only a boot resets *)
(* the mode without a check.                                               *)
FlipsNeedARun ==
  [][mode' # mode =>
       \/ mode' = "local" /\ FailedRun(streak')
       \/ mode' = "primary" /\ GoodRun(streak')
       \/ restarts' # restarts]_vars

(* An outage that lasts is noticed, in whatever way the primary fails: a   *)
(* hung ping counts as failed (failover.service.ts:120-127), so the flag   *)
(* that keeps checks from overlapping never latches the detector.          *)
OutageDetected == <>[](link # "up") => <>[](mode = "local")

(* A primary that stays healthy is eventually served from again, even when *)
(* the outage left the ping connection waiting for an answer.              *)
RecoveryDetected == <>[](link = "up") => <>[](mode = "primary")

(* The two counters implement the abstract run of contradicting checks. *)
Promise == INSTANCE Debounce
             WITH against <- IF mode = "primary" THEN failureCount
                                                 ELSE successCount

Debounced == Promise!Spec
=============================================================================
