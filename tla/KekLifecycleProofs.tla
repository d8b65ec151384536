------------------------- MODULE KekLifecycleProofs -------------------------
(***************************************************************************)
(* Proofs about KekLifecycle for every number of pods, users, requests and *)
(* keys: its types, the one active key, that a sealed secret can be opened *)
(* by the process that sealed it, and that no live key is shredded.        *)
(*                                                                         *)
(* SealerCanOpen is not inductive: a process that is about to store must   *)
(* hold the key it sealed to (Sound).  OneActiveTheNewest is not either:   *)
(* the key a commit registers must be newer than any registered before     *)
(* (Generations).                                                          *)
(***************************************************************************)
EXTENDS KekLifecycle, TLAPS, WellFoundedInduction

(* Keys are registered in the order they are generated, and the worker's   *)
(* commit is always about the newest.                                      *)
Generations ==
  /\ \A k \in Keys : registry[k] # "none" => k <= made
  /\ proc[Worker].pc = "commit" => /\ proc[Worker].key = made
                                   /\ registry[made] = "none"

(* Where the worker has a retiring key in hand. *)
OnKey == {"waitnext", "rewrap", "open", "waitopen", "opened", "seal",
          "waitseal", "store", "retire", "shred"}

(* A state s of process p: nobody works nowhere, who is about to store     *)
(* holds the key it sealed to, and keys are looked up by their number.     *)
Sound(p, s) ==
  /\ s.pc # "idle" => s.at \in Replicas
  /\ s.pc = "store" => s.key \in memory[s.at]
  /\ s.pc \in {"waitopen", "waitseal", "backup"} => s.key \in Keys
  /\ s.pc = "open" \/ (p = Worker /\ s.pc \in OnKey) => s.old \in Keys

Holding == \A p \in Procs : Sound(p, proc[p])

IInv == TypeOK /\ Generations /\ OneActiveTheNewest /\ Holding /\ SealerCanOpen

LEMMA WorkerIsProc == Worker \in Procs /\ Requests \subseteq Procs
  BY DEF Procs

LEMMA OnlyActive ==
  ASSUME OneActiveTheNewest
  PROVE  Active # {} /\ Newest(Active) \in Keys /\ registry[Newest(Active)] = "active"
  <1>1. PICK k \in Keys : /\ registry[k] = "active"
                          /\ \A j \in Keys \ {k} : registry[j] # "active"
    BY DEF OneActiveTheNewest
  <1>2. Active = {k}
    BY <1>1 DEF Active
  <1>3. Newest(Active) = k
    BY <1>2 DEF Newest, Keys
  <1> QED BY <1>1, <1>2, <1>3

(* The oldest of a non-empty set of keys is one of them. *)
LEMMA OldestIsMember ==
  ASSUME NEW S \in SUBSET Keys, S # {}
  PROVE  Oldest(S) \in S
  <1>1. S \subseteq Nat
    BY KekAssumption DEF Keys
  <1>2. PICK k \in S : \A j \in S : ~(<<j, k>> \in OpToRel(<, Nat))
    BY <1>1, NatLessThanWellFounded, WFMin
  <1>3. \A j \in S : k <= j
    <2>1. SUFFICES ASSUME NEW j \in S, j < k
                   PROVE  FALSE
      BY <1>1
    <2>2. <<j, k>> \in OpToRel(<, Nat)
      BY <1>1, <2>1, Zenon DEF OpToRel
    <2> QED BY <1>2, <2>2
  <1> QED BY <1>3 DEF Oldest

LEMMA IdleOK ==
  /\ Idle \in ProcStates /\ Idle.pc = "idle"
  /\ IdleReload \in ReloadStates
  /\ NoCred \in CredStates /\ NoCred.by = Nobody
  BY KekAssumption DEF Idle, ProcStates, Pcs, IdleReload, ReloadStates, NoCred,
                       CredStates

(* The step of one process to a sound state, while the keys stay in memory *)
(* and the registry stays as it is. *)
LEMMA Moves ==
  ASSUME IInv, NEW p \in Procs, NEW s \in ProcStates,
         proc' = [proc EXCEPT ![p] = s], Sound(p, s),
         p = Worker => s.pc # "commit",
         UNCHANGED <<registry, made, memory>>
  PROVE  /\ proc' \in [Procs -> ProcStates]
         /\ Generations' /\ OneActiveTheNewest' /\ Holding'
  <1> USE DEF IInv
  <1>1. proc' \in [Procs -> ProcStates]
    BY DEF TypeOK
  <1>2. Generations'
    BY WorkerIsProc DEF TypeOK, Generations
  <1>3. OneActiveTheNewest'
    BY DEF OneActiveTheNewest
  <1>4. Holding'
    BY DEF TypeOK, Holding, Sound
  <1> QED BY <1>1, <1>2, <1>3, <1>4

(* Nobody moves and the registry stays: only the growing memory matters. *)
LEMMA Rests ==
  ASSUME IInv, UNCHANGED <<registry, made, memory, proc>>
  PROVE  Generations' /\ OneActiveTheNewest' /\ Holding'
  BY DEF IInv, Generations, OneActiveTheNewest, Holding, Sound

LEMMA StartReloadOK ==
  ASSUME IInv, NEW r \in Replicas, StartReload(r)
  PROVE  reload' \in [Replicas -> ReloadStates] /\ missed' \in [Replicas -> SUBSET Keys]
  <1>1. CASE reload[r].pc = "idle"
    <2>1. reload' = [reload EXCEPT ![r] = [reload[r] EXCEPT !.pc = "query"]]
      BY <1>1 DEF StartReload, IInv, TypeOK
    <2>2. [reload[r] EXCEPT !.pc = "query"] \in ReloadStates
      BY DEF IInv, TypeOK, ReloadStates
    <2> QED BY <1>1, <2>1, <2>2 DEF StartReload, IInv, TypeOK
  <1>2. CASE reload[r].pc # "idle"
    BY <1>2 DEF StartReload, IInv, TypeOK
  <1> QED BY <1>1, <1>2

(* A lookup leaves its process failed, waiting, or past the lookup and     *)
(* with the key in its pod's memory.                                       *)
LEMMA LookUpOK ==
  ASSUME IInv, NEW p \in Procs, NEW k \in Keys,
         NEW found \in {"store", "opened"}, NEW wait \in {"waitopen", "waitseal"},
         proc[p].pc \in {"open", "seal"}, LookUp(p, k, found, wait),
         UNCHANGED <<keyVars, cred, todo, bounds>>
  PROVE  IInv'
  <1> USE DEF IInv
  <1> DEFINE r == proc[p].at
  <1>1. /\ proc[p] \in ProcStates /\ r \in Replicas /\ k \in 0 .. MaxKeys
        /\ p = Worker => proc[p].old \in Keys
    BY DEF TypeOK, Holding, Sound, OnKey, Keys
  <1>2. found \in Pcs /\ wait \in Pcs
    BY DEF Pcs, Waits
  <1>3. CASE UNCHANGED storeVars /\ proc' = [proc EXCEPT ![p].pc = found, ![p].key = k]
             /\ k \in memory[r]
    <2> DEFINE s == [proc[p] EXCEPT !.pc = found, !.key = k]
    <2>1. proc' = [proc EXCEPT ![p] = s]
      BY <1>3 DEF TypeOK
    <2>2. s \in ProcStates /\ s.pc = found /\ s.at = r /\ s.key = k /\ s.old = proc[p].old
      BY <1>1, <1>2 DEF ProcStates
    <2> HIDE DEF s
    <2>3. Sound(p, s)
      BY <1>1, <1>3, <2>2 DEF Sound
    <2>4. /\ proc' \in [Procs -> ProcStates]
          /\ Generations' /\ OneActiveTheNewest' /\ Holding'
      BY <1>3, <2>1, <2>2, <2>3, Moves DEF storeVars, keyVars
    <2> QED BY <1>3, <2>4 DEF TypeOK, SealerCanOpen, storeVars, keyVars, bounds
  <1>4. CASE UNCHANGED storeVars /\ Fail(p)
    <2>1. Sound(p, Idle)
      BY IdleOK DEF Sound, OnKey
    <2>2. /\ proc' \in [Procs -> ProcStates]
          /\ Generations' /\ OneActiveTheNewest' /\ Holding'
      BY <1>4, <2>1, IdleOK, Moves DEF storeVars, keyVars, Fail
    <2> QED BY <1>4, <2>2 DEF TypeOK, SealerCanOpen, storeVars, keyVars, bounds
  <1>5. CASE StartReload(r) /\ UNCHANGED <<memory, booting>>
             /\ proc' = [proc EXCEPT ![p].pc = wait, ![p].key = k]
    <2> DEFINE s == [proc[p] EXCEPT !.pc = wait, !.key = k]
    <2>1. proc' = [proc EXCEPT ![p] = s]
      BY <1>5 DEF TypeOK
    <2>2. s \in ProcStates /\ s.pc = wait /\ s.at = r /\ s.key = k /\ s.old = proc[p].old
      BY <1>1, <1>2 DEF ProcStates
    <2> HIDE DEF s
    <2>3. Sound(p, s)
      BY <1>1, <1>5, <2>2 DEF Sound
    <2>4. /\ proc' \in [Procs -> ProcStates]
          /\ Generations' /\ OneActiveTheNewest' /\ Holding'
      BY <1>5, <2>1, <2>2, <2>3, Moves DEF storeVars, keyVars
    <2>5. reload' \in [Replicas -> ReloadStates] /\ missed' \in [Replicas -> SUBSET Keys]
      BY <1>1, <1>5, StartReloadOK
    <2> QED BY <1>5, <2>4, <2>5 DEF TypeOK, SealerCanOpen, keyVars, bounds
  <1> QED BY <1>3, <1>4, <1>5 DEF LookUp

LEMMA InitOK == Init => IInv
  <1> SUFFICES ASSUME Init PROVE IInv
    OBVIOUS
  <1> USE KekAssumption, WorkerIsProc DEF Init
  <1>1. 1 \in Keys
    BY DEF Keys
  <1>2. TypeOK
    <2>1. registry \in [Keys -> Status] /\ ssm \subseteq Keys
      BY <1>1 DEF Status
    <2>2. volume \in [Replicas -> SUBSET Keys] /\ memory = volume
      BY <1>1
    <2>3. reload \in [Replicas -> ReloadStates]
      BY DEF IdleReload, ReloadStates
    <2>4. missed \in [Replicas -> SUBSET Keys] /\ booting \subseteq Replicas
      OBVIOUS
    <2>5. cred \in [Users -> CredStates]
      BY DEF NoCred, CredStates
    <2>6. proc \in [Procs -> ProcStates]
      BY DEF Idle, Pcs, ProcStates
    <2>7. /\ todo \subseteq Keys /\ made \in Keys /\ wiped \subseteq Keys /\ unsaid \subseteq Keys
          /\ enrols \in 0 .. MaxEnrols /\ restarts \in 0 .. MaxRestarts
      BY <1>1
    <2> QED BY <2>1, <2>2, <2>3, <2>4, <2>5, <2>6, <2>7 DEF TypeOK
  <1>3. Generations
    BY <1>1 DEF Generations, Keys, Idle
  <1>4. OneActiveTheNewest
    BY <1>1 DEF OneActiveTheNewest
  <1>5. Holding
    BY DEF Holding, Sound, OnKey, Idle
  <1>6. SealerCanOpen
    BY DEF SealerCanOpen, NoCred
  <1> QED BY <1>2, <1>3, <1>4, <1>5, <1>6 DEF IInv

(* A step that moves one process and changes at most the worker's list and *)
(* the counters of the bounds. *)
LEMMA MovesOnly ==
  ASSUME IInv, NEW p \in Procs, NEW s \in ProcStates,
         proc' = [proc EXCEPT ![p] = s], Sound(p, s), s.pc # "commit",
         UNCHANGED <<keyVars, storeVars, cred>>,
         todo' \subseteq Keys,
         enrols' \in 0 .. MaxEnrols, restarts' \in 0 .. MaxRestarts
  PROVE  IInv'
  <1>1. /\ proc' \in [Procs -> ProcStates]
        /\ Generations' /\ OneActiveTheNewest' /\ Holding'
    BY Moves DEF keyVars, storeVars
  <1>2. TypeOK' /\ SealerCanOpen'
    BY <1>1 DEF IInv, TypeOK, SealerCanOpen, keyVars, storeVars
  <1> QED BY <1>1, <1>2 DEF IInv

(* A failed process leaves the rest of the invariant alone. *)
LEMMA FailOK ==
  ASSUME IInv, NEW p \in Procs, Fail(p), UNCHANGED <<registry, made, memory>>
  PROVE  /\ proc' \in [Procs -> ProcStates]
         /\ Generations' /\ OneActiveTheNewest' /\ Holding'
  <1>1. Sound(p, Idle)
    BY IdleOK DEF Sound, OnKey
  <1> QED BY <1>1, IdleOK, Moves DEF Fail

LEMMA EnrolStartOK ==
  ASSUME IInv, NEW r \in Replicas, NEW q \in Requests, NEW u \in Users,
         EnrolStart(q, r, u)
  PROVE  IInv'
  <1> DEFINE s == [Idle EXCEPT !.pc = "seal", !.at = r, !.user = u,
                               !.secret = enrols + 1]
  <1>1. q \in Procs /\ q # Worker
    BY KekAssumption, WorkerIsProc
  <1>2. enrols' = enrols + 1 /\ enrols' \in 0 .. MaxEnrols
    BY KekAssumption DEF EnrolStart, IInv, TypeOK
  <1>3. s \in ProcStates
    BY <1>2, IdleOK DEF ProcStates, Pcs
  <1>4. s.pc # "commit" /\ Sound(q, s)
    BY <1>1 DEF Idle, Sound
  <1> QED
    BY <1>1, <1>2, <1>3, <1>4, MovesOnly
    DEF EnrolStart, keyVars, storeVars, IInv, TypeOK

LEMMA VerifyStartOK ==
  ASSUME IInv, NEW r \in Replicas, NEW q \in Requests, NEW u \in Users,
         VerifyStart(q, r, u)
  PROVE  IInv'
  <1> DEFINE s == [Idle EXCEPT !.pc = "open", !.at = r, !.user = u,
                          !.old = cred[u].key, !.secret = cred[u].secret]
  <1>1. proc[q] \in ProcStates /\ q \in Procs
    BY WorkerIsProc DEF IInv, TypeOK
  <1>2. proc' = [proc EXCEPT ![q] = s]
    BY <1>1 DEF VerifyStart, keyVars, storeVars, bounds, IInv, TypeOK
  <1>3. s \in ProcStates /\ s.pc # "commit"
    BY <1>1, KekAssumption, IdleOK
    DEF VerifyStart, keyVars, storeVars, bounds, IInv, TypeOK, ProcStates,
        Pcs, Keys, Procs, CredStates
  <1>4. Sound(q, s)
    BY <1>1, KekAssumption
    DEF VerifyStart, keyVars, storeVars, bounds, IInv, TypeOK, Holding,
        Sound, OnKey, Idle, Keys, Procs, CredStates
  <1> QED
    BY <1>1, <1>2, <1>3, <1>4, KekAssumption, MovesOnly
    DEF VerifyStart, keyVars, storeVars, bounds, IInv, TypeOK

LEMMA VerifyDoneOK ==
  ASSUME IInv, NEW q \in Requests, VerifyDone(q)
  PROVE  IInv'
  <1> DEFINE s == IF registry[proc[q].old] = "retiring" THEN [proc[q] EXCEPT !.pc = "seal"]
                                                       ELSE Idle
  <1>1. proc[q] \in ProcStates /\ q \in Procs
    BY WorkerIsProc DEF IInv, TypeOK
  <1>2. proc' = [proc EXCEPT ![q] = s]
    BY <1>1
    DEF VerifyDone, Become, Fail, keyVars, storeVars, bounds, IInv, TypeOK
  <1>3. s \in ProcStates /\ s.pc # "commit"
    BY <1>1, KekAssumption, IdleOK
    DEF VerifyDone, Become, Fail, keyVars, storeVars, bounds, IInv, TypeOK,
        ProcStates, Pcs, Keys, Procs
  <1>4. Sound(q, s)
    BY <1>1, KekAssumption
    DEF VerifyDone, Become, Fail, keyVars, storeVars, bounds, IInv, TypeOK,
        Holding, Sound, OnKey, Idle, Keys, Procs
  <1> QED
    BY <1>1, <1>2, <1>3, <1>4, KekAssumption, MovesOnly
    DEF VerifyDone, Become, Fail, keyVars, storeVars, bounds, IInv, TypeOK

LEMMA RotStartOK ==
  ASSUME IInv, NEW r \in Replicas, RotStart(r)
  PROVE  IInv'
  <1>1. PICK pc \in {"file", "ready"} :
          proc' = [proc EXCEPT ![Worker] = [Idle EXCEPT !.pc = pc, !.at = r]]
    BY DEF RotStart
  <1> DEFINE s == [Idle EXCEPT !.pc = pc, !.at = r]
  <1>2. s \in ProcStates
    BY IdleOK DEF ProcStates, Pcs
  <1>3. s.pc # "commit" /\ Sound(Worker, s)
    BY DEF Idle, Sound, OnKey
  <1> QED
    BY <1>1, <1>2, <1>3, WorkerIsProc, MovesOnly
    DEF RotStart, keyVars, storeVars, bounds, IInv, TypeOK

LEMMA RotReadyOK ==
  ASSUME IInv, RotReady
  PROVE  IInv'
  <1> DEFINE s == [W EXCEPT !.pc = "list"]
  <1>1. proc[Worker] \in ProcStates /\ Worker \in Procs
    BY WorkerIsProc DEF IInv, TypeOK
  <1>2. proc' = [proc EXCEPT ![Worker] = s]
    BY <1>1 DEF RotReady, Become, W, keyVars, storeVars, bounds, IInv, TypeOK
  <1>3. s \in ProcStates /\ s.pc # "commit"
    BY <1>1, KekAssumption, IdleOK
    DEF RotReady, Become, W, keyVars, storeVars, bounds, IInv, TypeOK,
        ProcStates, Pcs, Keys
  <1>4. Sound(Worker, s)
    BY <1>1, KekAssumption
    DEF RotReady, Become, W, keyVars, storeVars, bounds, IInv, TypeOK,
        Holding, Sound, OnKey, Idle, Keys
  <1> QED
    BY <1>1, <1>2, <1>3, <1>4, KekAssumption, MovesOnly
    DEF RotReady, Become, W, keyVars, storeVars, bounds, IInv, TypeOK

LEMMA RotOpenedOK ==
  ASSUME IInv, RotOpened
  PROVE  IInv'
  <1> DEFINE s == [W EXCEPT !.pc = "seal"]
  <1>1. proc[Worker] \in ProcStates /\ Worker \in Procs
    BY WorkerIsProc DEF IInv, TypeOK
  <1>2. proc' = [proc EXCEPT ![Worker] = s]
    BY <1>1 DEF RotOpened, Become, W, keyVars, storeVars, bounds, IInv, TypeOK
  <1>3. s \in ProcStates /\ s.pc # "commit"
    BY <1>1, KekAssumption, IdleOK
    DEF RotOpened, Become, W, keyVars, storeVars, bounds, IInv, TypeOK,
        ProcStates, Pcs, Keys
  <1>4. Sound(Worker, s)
    BY <1>1, KekAssumption
    DEF RotOpened, Become, W, keyVars, storeVars, bounds, IInv, TypeOK,
        Holding, Sound, OnKey, Idle, Keys
  <1> QED
    BY <1>1, <1>2, <1>3, <1>4, KekAssumption, MovesOnly
    DEF RotOpened, Become, W, keyVars, storeVars, bounds, IInv, TypeOK

LEMMA RotRewrapOK ==
  ASSUME IInv, RotRewrap
  PROVE  IInv'
  <1>1. W \in ProcStates /\ W.at \in Replicas /\ W.old \in Keys
    BY WorkerIsProc DEF IInv, TypeOK, Holding, Sound, OnKey, RotRewrap, W
  <1>2. CASE Become(Worker, "retire")
    <2> DEFINE s == [W EXCEPT !.pc = "retire"]
    <2>1. proc' = [proc EXCEPT ![Worker] = s]
      BY <1>2, WorkerIsProc DEF Become, W, IInv, TypeOK
    <2>2. s \in ProcStates /\ s.pc # "commit" /\ Sound(Worker, s)
      BY <1>1 DEF ProcStates, Pcs, Sound
    <2> QED
      BY <2>1, <2>2, WorkerIsProc, MovesOnly
      DEF RotRewrap, keyVars, storeVars, bounds, IInv, TypeOK
  <1>3. ASSUME NEW u \in SealedTo(W.old),
               proc' = [proc EXCEPT ![Worker].pc = "open", ![Worker].user = u,
                                    ![Worker].secret = cred[u].secret]
        PROVE  IInv'
    <2> DEFINE s == [W EXCEPT !.pc = "open", !.user = u, !.secret = cred[u].secret]
    <2>1. proc' = [proc EXCEPT ![Worker] = s]
      BY <1>3, WorkerIsProc DEF W, IInv, TypeOK
    <2>2. u \in Users /\ cred[u].secret \in 0 .. MaxEnrols
      BY <1>3 DEF SealedTo, IInv, TypeOK, CredStates
    <2>3. s \in ProcStates /\ s.pc # "commit" /\ Sound(Worker, s)
      BY <1>1, <2>2 DEF ProcStates, Pcs, Sound
    <2> QED
      BY <2>1, <2>3, WorkerIsProc, MovesOnly
      DEF RotRewrap, keyVars, storeVars, bounds, IInv, TypeOK
  <1> QED BY <1>2, <1>3 DEF RotRewrap

LEMMA RotNextOK ==
  ASSUME IInv, RotNext
  PROVE  IInv'
  <1>1. /\ W \in ProcStates /\ W.at \in Replicas /\ W.pc = "list"
        /\ todo \subseteq Keys
    BY WorkerIsProc DEF IInv, TypeOK, Holding, Sound, RotNext, W
  <1>2. CASE Fail(Worker) /\ UNCHANGED <<todo, storeVars>>
    <2>1. /\ proc' \in [Procs -> ProcStates]
          /\ Generations' /\ OneActiveTheNewest' /\ Holding'
      BY <1>2, FailOK, WorkerIsProc DEF RotNext, keyVars, storeVars
    <2> QED
      BY <1>2, <2>1
      DEF RotNext, IInv, TypeOK, SealerCanOpen, keyVars, storeVars, bounds
  <1>3. ASSUME todo # {}
        PROVE  Oldest(todo) \in Keys
    BY <1>1, <1>3, OldestIsMember
  <1>4. CASE /\ todo # {} /\ todo' = todo \ {Oldest(todo)}
             /\ UNCHANGED storeVars
             /\ proc' = [proc EXCEPT ![Worker].pc = "rewrap", ![Worker].old = Oldest(todo)]
    <2> DEFINE s == [W EXCEPT !.pc = "rewrap", !.old = Oldest(todo)]
    <2>1. proc' = [proc EXCEPT ![Worker] = s]
      BY <1>4, WorkerIsProc DEF W, IInv, TypeOK
    <2>2. Oldest(todo) \in Keys /\ Oldest(todo) \in 0 .. MaxKeys
      BY <1>3, <1>4 DEF Keys
    <2>3. s \in ProcStates /\ s.pc # "commit" /\ Sound(Worker, s)
      BY <1>1, <2>2 DEF ProcStates, Pcs, Sound
    <2> QED
      BY <1>1, <1>4, <2>1, <2>3, WorkerIsProc, MovesOnly
      DEF RotNext, keyVars, storeVars, bounds, IInv, TypeOK
  <1>5. CASE /\ todo # {} /\ todo' = todo \ {Oldest(todo)}
             /\ StartReload(W.at) /\ UNCHANGED <<memory, booting>>
             /\ proc' = [proc EXCEPT ![Worker].pc = "waitnext", ![Worker].old = Oldest(todo)]
    <2> DEFINE s == [W EXCEPT !.pc = "waitnext", !.old = Oldest(todo)]
    <2>1. proc' = [proc EXCEPT ![Worker] = s]
      BY <1>5, WorkerIsProc DEF W, IInv, TypeOK
    <2>2. Oldest(todo) \in Keys /\ Oldest(todo) \in 0 .. MaxKeys
      BY <1>3, <1>5 DEF Keys
    <2>3. s \in ProcStates /\ s.pc # "commit" /\ Sound(Worker, s)
      BY <1>1, <2>2 DEF ProcStates, Pcs, Waits, Sound
    <2>4. /\ proc' \in [Procs -> ProcStates]
          /\ Generations' /\ OneActiveTheNewest' /\ Holding'
      BY <1>5, <2>1, <2>3, WorkerIsProc, Moves DEF RotNext, keyVars
    <2>5. reload' \in [Replicas -> ReloadStates] /\ missed' \in [Replicas -> SUBSET Keys]
      BY <1>1, <1>5, StartReloadOK
    <2> QED
      BY <1>5, <2>4, <2>5
      DEF RotNext, IInv, TypeOK, SealerCanOpen, keyVars, bounds
  <1> QED BY <1>2, <1>4, <1>5 DEF RotNext

LEMMA RotBackupOK ==
  ASSUME IInv, RotBackup
  PROVE  IInv'
  <1> DEFINE s == [W EXCEPT !.pc = "waitlist"]
  <1>1. W \in ProcStates /\ W.at \in Replicas /\ W.key \in Keys
    BY WorkerIsProc DEF IInv, TypeOK, Holding, Sound, RotBackup, W
  <1>2. proc' = [proc EXCEPT ![Worker] = s]
    BY WorkerIsProc DEF RotBackup, Become, W, IInv, TypeOK
  <1>3. s \in ProcStates /\ s.pc # "commit" /\ Sound(Worker, s)
    BY <1>1 DEF ProcStates, Pcs, Waits, Sound, OnKey
  <1>4. /\ proc' \in [Procs -> ProcStates]
        /\ Generations' /\ OneActiveTheNewest' /\ Holding'
    BY <1>2, <1>3, WorkerIsProc, Moves DEF RotBackup
  <1>5. reload' \in [Replicas -> ReloadStates] /\ missed' \in [Replicas -> SUBSET Keys]
    BY <1>1, StartReloadOK DEF RotBackup
  <1>6. ssm' \subseteq Keys
    BY <1>1 DEF RotBackup, IInv, TypeOK
  <1> QED
    BY <1>4, <1>5, <1>6 DEF RotBackup, IInv, TypeOK, SealerCanOpen, bounds

(* The transaction, whether the worker is told that it took effect or not. *)
LEMMA RegistersOK ==
  ASSUME IInv, W.pc = "commit", registry' = Registered,
         NEW pc \in {"backup", "caught"}, Become(Worker, pc),
         unsaid' \subseteq Keys,
         UNCHANGED <<volume, ssm, made, wiped, storeVars, cred, todo, bounds>>
  PROVE  IInv'
  <1> DEFINE s == [W EXCEPT !.pc = pc]
  <1>1. /\ W \in ProcStates /\ W.at \in Replicas /\ W.key = made /\ made \in Keys
        /\ registry[made] = "none"
        /\ \A k \in Keys : registry[k] # "none" => k < made
    BY WorkerIsProc
    DEF IInv, TypeOK, Generations, Holding, Sound, W, Keys
  <1>2. proc' = [proc EXCEPT ![Worker] = s]
    BY WorkerIsProc DEF Become, W, IInv, TypeOK
  <1>3. s \in ProcStates /\ s.pc = pc /\ Sound(Worker, s)
    BY <1>1 DEF ProcStates, Pcs, Sound, OnKey
  <1>4. proc' \in [Procs -> ProcStates] /\ Holding'
    BY <1>2, <1>3, WorkerIsProc
    DEF IInv, TypeOK, Holding, Sound, storeVars
  <1>5. registry' \in [Keys -> Status] /\ registry'[made] = "active"
    BY <1>1 DEF Registered, IInv, TypeOK, Status
  <1>6. \A j \in Keys \ {made} : /\ registry'[j] # "active"
                                 /\ registry'[j] = "none" <=> registry[j] = "none"
    BY <1>1 DEF Registered, IInv, TypeOK, Status
  <1>7. OneActiveTheNewest'
    BY <1>1, <1>5, <1>6 DEF OneActiveTheNewest, Keys
  <1>8. Generations'
    <2>1. proc'[Worker].pc # "commit" /\ made' = made
      BY <1>2, <1>3, WorkerIsProc DEF IInv, TypeOK
    <2>2. \A k \in Keys : registry'[k] # "none" => k <= made
      BY <1>1, <1>6 DEF Keys
    <2> QED BY <2>1, <2>2 DEF Generations
  <1> QED
    BY <1>4, <1>5, <1>7, <1>8
    DEF IInv, TypeOK, SealerCanOpen, storeVars, bounds

LEMMA RotCommitOK ==
  ASSUME IInv, RotCommit
  PROVE  IInv'
  BY RegistersOK DEF RotCommit, IInv, TypeOK

LEMMA RotCommitThrowsOK ==
  ASSUME IInv, RotCommitThrows
  PROVE  IInv'
  <1>1. W.pc = "commit" /\ W \in ProcStates /\ W.at \in Replicas /\ W.key \in Keys
    BY WorkerIsProc
    DEF RotCommitThrows, IInv, TypeOK, Generations, Holding, Sound, W, Keys
  <1>2. CASE UNCHANGED <<registry, unsaid>>
    <2> DEFINE s == [W EXCEPT !.pc = "caught"]
    <2>1. proc' = [proc EXCEPT ![Worker] = s]
      BY WorkerIsProc DEF RotCommitThrows, Become, W, IInv, TypeOK
    <2>2. s \in ProcStates /\ s.pc # "commit" /\ Sound(Worker, s)
      BY <1>1 DEF ProcStates, Pcs, Sound, OnKey
    <2>3. /\ proc' \in [Procs -> ProcStates]
          /\ Generations' /\ OneActiveTheNewest' /\ Holding'
      BY <1>2, <2>1, <2>2, Moves, WorkerIsProc DEF RotCommitThrows, storeVars
    <2> QED
      BY <1>2, <2>3
      DEF RotCommitThrows, IInv, TypeOK, SealerCanOpen, storeVars, bounds
  <1>3. CASE registry' = Registered /\ unsaid' = unsaid \cup {W.key}
    <2>1. unsaid' \subseteq Keys
      BY <1>1, <1>3 DEF IInv, TypeOK
    <2> QED
      BY <1>1, <1>3, <2>1, RegistersOK DEF RotCommitThrows
  <1> QED
    BY <1>2, <1>3 DEF RotCommitThrows

LEMMA RotWriteFileOK ==
  ASSUME IInv, RotWriteFile
  PROVE  IInv'
  <1> DEFINE s == [W EXCEPT !.pc = "commit", !.key = made + 1]
  <1>1. /\ W \in ProcStates /\ W.at \in Replicas /\ W.pc = "file"
        /\ made \in Keys /\ made + 1 \in Keys /\ made + 1 \in 0 .. MaxKeys
    BY KekAssumption, WorkerIsProc
    DEF IInv, TypeOK, Holding, Sound, RotWriteFile, W, Keys
  <1>2. proc' = [proc EXCEPT ![Worker] = s]
    BY WorkerIsProc DEF RotWriteFile, W, IInv, TypeOK
  <1>3. s \in ProcStates /\ Sound(Worker, s)
    BY <1>1 DEF ProcStates, Pcs, Sound, OnKey
  <1>4. proc' \in [Procs -> ProcStates] /\ Holding'
    BY <1>2, <1>3, WorkerIsProc, ZenonT(30)
    DEF RotWriteFile, IInv, TypeOK, Holding, Sound, storeVars
  <1>5. volume' \in [Replicas -> SUBSET Keys]
    BY <1>1 DEF RotWriteFile, IInv, TypeOK
  <1>6. OneActiveTheNewest'
    BY DEF RotWriteFile, IInv, OneActiveTheNewest
  <1>7. Generations'
    <2>1. proc'[Worker].key = made' /\ made' = made + 1 /\ registry' = registry
      BY <1>1, <1>2, WorkerIsProc DEF RotWriteFile, IInv, TypeOK, ProcStates
    <2>2. registry[made + 1] = "none"
      BY <1>1 DEF IInv, Generations, Keys
    <2>3. \A k \in Keys : registry[k] # "none" => k <= made + 1
      BY <1>1 DEF IInv, Generations, Keys
    <2> QED BY <2>1, <2>2, <2>3 DEF Generations
  <1> QED
    BY <1>1, <1>4, <1>5, <1>6, <1>7
    DEF RotWriteFile, IInv, TypeOK, SealerCanOpen, storeVars, bounds

LEMMA RotRetireOK ==
  ASSUME IInv, RotRetire
  PROVE  IInv'
  <1>1. /\ W \in ProcStates /\ W.at \in Replicas /\ W.old \in Keys
    BY WorkerIsProc DEF IInv, TypeOK, Holding, Sound, OnKey, RotRetire, W
  <1>2. PICK pc \in {"shred", "list"} : Become(Worker, pc)
    BY DEF RotRetire
  <1> DEFINE s == [W EXCEPT !.pc = pc]
  <1>3. proc' = [proc EXCEPT ![Worker] = s]
    BY <1>2, WorkerIsProc DEF Become, W, IInv, TypeOK
  <1>4. s \in ProcStates /\ Sound(Worker, s) /\ s.pc # "commit"
    BY <1>1 DEF ProcStates, Pcs, Sound
  <1>5. proc' \in [Procs -> ProcStates] /\ Holding' /\ proc'[Worker].pc # "commit"
    BY <1>3, <1>4, WorkerIsProc
    DEF RotRetire, IInv, TypeOK, Holding, Sound, storeVars
  <1>6. /\ registry' \in [Keys -> Status]
        /\ \A k \in Keys : /\ registry'[k] = "active" <=> registry[k] = "active"
                           /\ registry'[k] = "none" <=> registry[k] = "none"
    BY <1>1 DEF RotRetire, IInv, TypeOK, Status
  <1>7. OneActiveTheNewest'
    BY <1>6 DEF IInv, OneActiveTheNewest
  <1>8. Generations'
    BY <1>5, <1>6 DEF RotRetire, IInv, Generations
  <1> QED
    BY <1>5, <1>6, <1>7, <1>8
    DEF RotRetire, IInv, TypeOK, SealerCanOpen, storeVars, bounds

LEMMA ShredOK ==
  ASSUME IInv, RotShred \/ RotDiscard
  PROVE  IInv'
  <1>1. W \in ProcStates /\ W.at \in Replicas
    BY WorkerIsProc
    DEF IInv, TypeOK, Holding, Sound, RotShred, RotDiscard, W
  <1>2. volume' \in [Replicas -> SUBSET Keys]
    BY <1>1 DEF RotShred, RotDiscard, IInv, TypeOK
  <1>3. /\ proc' \in [Procs -> ProcStates]
        /\ Generations' /\ OneActiveTheNewest' /\ Holding'
    <2>1. CASE RotDiscard
      BY <2>1, FailOK, WorkerIsProc DEF RotDiscard, storeVars
    <2>2. CASE RotShred
      <3> DEFINE s == [W EXCEPT !.pc = "list"]
      <3>1. proc' = [proc EXCEPT ![Worker] = s]
        BY <2>2, WorkerIsProc DEF RotShred, Become, W, IInv, TypeOK
      <3>2. s \in ProcStates /\ Sound(Worker, s) /\ s.pc # "commit"
        BY <1>1 DEF ProcStates, Pcs, Sound, OnKey
      <3> QED
        BY <2>2, <3>1, <3>2, Moves, WorkerIsProc DEF RotShred, storeVars
    <2> QED BY <2>1, <2>2
  <1> QED
    BY <1>2, <1>3
    DEF RotShred, RotDiscard, IInv, TypeOK, SealerCanOpen, storeVars, bounds

LEMMA StoreOK ==
  ASSUME IInv, NEW p \in Procs, proc[p].pc = "store",
         EnrolStore(p) \/ (p # Worker /\ VerifyStore(p)) \/ (p = Worker /\ RotStore)
  PROVE  IInv'
  <1>1. proc[p] \in ProcStates /\ proc[p].at \in Replicas /\ proc[p].key \in memory[proc[p].at]
    BY DEF IInv, TypeOK, Holding, Sound
  <1>2. Sealed(p) \in CredStates /\ Sealed(p).key \in memory[Sealed(p).by]
    BY <1>1 DEF Sealed, CredStates, ProcStates
  <1>3. \E u \in Users \cup {Nobody} :
          cred' = cred \/ cred' = [cred EXCEPT ![u] = Sealed(p)]
    BY <1>1 DEF EnrolStore, VerifyStore, RotStore, W, ProcStates
  <1>4. cred' \in [Users -> CredStates]
    BY <1>2, <1>3 DEF IInv, TypeOK
  <1>5. UNCHANGED <<keyVars, storeVars, todo, bounds>>
    BY DEF EnrolStore, VerifyStore, RotStore
  <1>6. SealerCanOpen'
    BY <1>2, <1>3, <1>5 DEF IInv, TypeOK, SealerCanOpen, storeVars
  <1>7. /\ proc' \in [Procs -> ProcStates]
        /\ Generations' /\ OneActiveTheNewest' /\ Holding'
    <2>1. CASE Fail(p)
      BY <1>5, <2>1, FailOK DEF keyVars, storeVars
    <2>2. CASE p = Worker /\ RotStore
      <3> DEFINE s == [W EXCEPT !.pc = "rewrap"]
      <3>1. proc' = [proc EXCEPT ![Worker] = s]
        BY <2>2, WorkerIsProc DEF RotStore, Become, W, IInv, TypeOK
      <3>2. W.old \in Keys
        BY <2>2, WorkerIsProc DEF RotStore, IInv, Holding, Sound, OnKey, W
      <3>3. s \in ProcStates /\ Sound(Worker, s) /\ s.pc # "commit"
        BY <1>1, <2>2, <3>2 DEF ProcStates, Pcs, Sound, W
      <3> QED
        BY <1>5, <3>1, <3>3, Moves, WorkerIsProc DEF keyVars, storeVars
    <2> QED BY <2>1, <2>2 DEF EnrolStore, VerifyStore
  <1> QED BY <1>4, <1>5, <1>6, <1>7 DEF IInv, TypeOK, keyVars, storeVars, bounds

LEMMA DeleteTotpOK ==
  ASSUME IInv, NEW u \in Users, DeleteTotp(u)
  PROVE  IInv'
  <1>1. Generations' /\ OneActiveTheNewest' /\ Holding'
    BY Rests DEF DeleteTotp, keyVars, storeVars
  <1>2. TypeOK' /\ SealerCanOpen'
    BY IdleOK
    DEF DeleteTotp, IInv, TypeOK, SealerCanOpen, keyVars, storeVars, bounds
  <1> QED BY <1>1, <1>2 DEF IInv

LEMMA ReloadStepsOK ==
  ASSUME IInv, NEW r \in Replicas, ReloadQuery(r) \/ WindowPasses(r)
  PROVE  IInv'
  <1>1. Generations' /\ OneActiveTheNewest' /\ Holding'
    BY Rests DEF ReloadQuery, WindowPasses, keyVars
  <1>2. reload' \in [Replicas -> ReloadStates]
    BY DEF ReloadQuery, WindowPasses, Live, ReloadStates, IInv, TypeOK
  <1>3. TypeOK' /\ SealerCanOpen'
    BY <1>2
    DEF ReloadQuery, WindowPasses, IInv, TypeOK, SealerCanOpen, keyVars,
        bounds
  <1> QED BY <1>1, <1>3 DEF IInv

(* A finished reload only adds to its pod's memory, and whoever it wakes   *)
(* goes on to store only with its key among the loaded ones.               *)
LEMMA ReloadLoadOK ==
  ASSUME IInv, NEW r \in Replicas, ReloadLoad(r)
  PROVE  IInv'
  <1> DEFINE new == (reload[r].rows \ memory[r]) \cap Readable(r)
             mem == memory[r] \cup new
  <1>1. new \subseteq Keys /\ mem \subseteq Keys
    BY DEF Readable, IInv, TypeOK, ReloadStates
  <1>2. /\ memory' = [memory EXCEPT ![r] = mem]
        /\ volume' = [volume EXCEPT ![r] = @ \cup new]
        /\ reload' = [reload EXCEPT ![r] = IdleReload]
        /\ booting' = booting \ {r}
        /\ proc' = [p \in Procs |-> IF p \in Waiting(r) THEN Woken(p, mem) ELSE proc[p]]
    BY DEF ReloadLoad
  <1> HIDE DEF new, mem
  <1>3. \A q \in Replicas : memory[q] \subseteq memory'[q]
    <2>1. memory[r] \subseteq mem
      BY DEF mem
    <2> QED BY <1>2, <2>1 DEF IInv, TypeOK
  <1>4. ASSUME NEW p \in Procs
        PROVE  /\ proc'[p] \in ProcStates
               /\ Sound(p, proc[p])'
               /\ proc'[p].pc = "commit" => proc'[p] = proc[p]
    <2>1. proc[p] \in ProcStates /\ Sound(p, proc[p])
      BY DEF IInv, TypeOK, Holding
    <2>2. CASE p \notin Waiting(r)
      <3>1. proc'[p] = proc[p]
        BY <1>2, <2>2
      <3> QED BY <1>3, <2>1, <3>1 DEF Sound
    <2>3. CASE p \in Waiting(r)
      <3>1. proc'[p] = Woken(p, mem) /\ proc[p].at = r /\ proc[p].pc \in Waits
        BY <1>2, <2>3 DEF Waiting
      <3>2. CASE proc'[p] = Idle
        BY <3>2, IdleOK DEF Sound, OnKey
      <3>3. ASSUME NEW pc \in {"opened", "store", "rewrap", "list", "ready"},
                   proc'[p] = [proc[p] EXCEPT !.pc = pc],
                   pc = "store" => proc[p].key \in mem,
                   p = Worker /\ pc \in OnKey => proc[p].old \in Keys
            PROVE  /\ proc'[p] \in ProcStates
                   /\ Sound(p, proc[p])' /\ proc'[p].pc # "commit"
        <4>1. /\ proc'[p] \in ProcStates /\ proc'[p].pc = pc
              /\ proc'[p].at = r /\ proc'[p].key = proc[p].key
              /\ proc'[p].old = proc[p].old
          BY <2>1, <3>1, <3>3 DEF ProcStates, Pcs
        <4>2. memory'[r] = mem
          BY <1>2 DEF IInv, TypeOK
        <4> QED BY <3>1, <3>3, <4>1, <4>2 DEF Sound
      <3>4. \/ proc'[p] = Idle
            \/ /\ proc[p].pc = "waitopen" /\ proc'[p] = [proc[p] EXCEPT !.pc = "opened"]
            \/ /\ proc[p].pc = "waitseal" /\ proc'[p] = [proc[p] EXCEPT !.pc = "store"]
               /\ proc[p].key \in mem
            \/ /\ proc[p].pc = "waitnext" /\ proc'[p] = [proc[p] EXCEPT !.pc = "rewrap"]
            \/ /\ proc[p].pc = "waitnext" /\ proc'[p] = [proc[p] EXCEPT !.pc = "list"]
            \/ /\ proc[p].pc = "waitlist" /\ proc'[p] = [proc[p] EXCEPT !.pc = "ready"]
        BY <3>1 DEF Woken, Waits
      <3>5. proc[p].pc \in {"waitopen", "waitseal", "waitnext"} /\ p = Worker
            => proc[p].old \in Keys
        BY <2>1 DEF Sound, OnKey
      <3> QED BY <3>2, <3>3, <3>4, <3>5, IdleOK DEF OnKey
    <2> QED BY <2>2, <2>3
  <1>5. TypeOK'
    <2>1. proc' \in [Procs -> ProcStates]
      BY <1>2, <1>4
    <2>2. missed' \in [Replicas -> SUBSET Keys]
      BY DEF ReloadLoad, IInv, TypeOK, Holding, Sound, Waiting
    <2>3. memory' \in [Replicas -> SUBSET Keys] /\ volume' \in [Replicas -> SUBSET Keys]
      BY <1>1, <1>2 DEF IInv, TypeOK
    <2>4. reload' \in [Replicas -> ReloadStates] /\ booting' \subseteq Replicas
      BY <1>2, IdleOK DEF IInv, TypeOK
    <2> QED BY <2>1, <2>2, <2>3, <2>4 DEF ReloadLoad, IInv, TypeOK, bounds
  <1>6. Generations'
    BY <1>4, WorkerIsProc DEF ReloadLoad, IInv, Generations
  <1>7. OneActiveTheNewest'
    BY DEF ReloadLoad, IInv, OneActiveTheNewest
  <1>8. Holding'
    BY <1>4 DEF Holding
  <1>9. SealerCanOpen'
    BY <1>3 DEF ReloadLoad, IInv, TypeOK, CredStates, SealerCanOpen
  <1> QED BY <1>5, <1>6, <1>7, <1>8, <1>9 DEF IInv

(* A restart empties its pod's memory, and with it ends every process that *)
(* counted on it. *)
LEMMA RestartOK ==
  ASSUME IInv, NEW r \in Replicas, Restart(r)
  PROVE  IInv'
  <1>1. \A p \in Procs : proc'[p] = IF proc[p].at = r THEN Idle ELSE proc[p]
    BY DEF Restart
  <1>2. TypeOK'
    <2>1. proc' \in [Procs -> ProcStates]
      BY IdleOK DEF Restart, IInv, TypeOK
    <2>2. \A u \in Users : cred'[u] = IF cred[u].by = r THEN [cred[u] EXCEPT !.by = Nobody]
                                                          ELSE cred[u]
      BY DEF Restart
    <2>3. \A u \in Users : cred'[u] \in CredStates
      BY <2>2, ZenonT(30) DEF IInv, TypeOK, CredStates
    <2>4. cred' \in [Users -> CredStates]
      BY <2>3 DEF Restart
    <2>5. [pc |-> "query", rows |-> {}] \in ReloadStates
      BY DEF ReloadStates
    <2>6. reload' \in [Replicas -> ReloadStates]
      BY <2>5 DEF Restart, IInv, TypeOK
    <2>7. /\ volume' \in [Replicas -> SUBSET Keys] /\ wiped' \subseteq Keys
          /\ memory' \in [Replicas -> SUBSET Keys] /\ missed' \in [Replicas -> SUBSET Keys]
          /\ booting' \subseteq Replicas
      BY DEF Restart, IInv, TypeOK
    <2>8. restarts' \in 0 .. MaxRestarts
      BY KekAssumption DEF Restart, IInv, TypeOK
    <2> QED BY <2>1, <2>4, <2>6, <2>7, <2>8 DEF Restart, IInv, TypeOK
  <1>3. Generations'
    BY <1>1, WorkerIsProc, IdleOK DEF Restart, IInv, Generations
  <1>4. OneActiveTheNewest'
    BY DEF Restart, IInv, OneActiveTheNewest
  <1>5. Holding'
    <2>1. \A p \in Procs : Sound(p, proc[p])'
      <3> TAKE p \in Procs
      <3>1. CASE proc[p].at = r
        BY <1>1, <3>1, IdleOK DEF Sound, OnKey
      <3>2. CASE proc[p].at # r
        <4>1. proc'[p] = proc[p] /\ Sound(p, proc[p])
          BY <1>1, <3>2 DEF IInv, Holding
        <4>2. \A q \in Replicas \ {r} : memory'[q] = memory[q]
          BY DEF Restart, IInv, TypeOK
        <4> QED BY <3>2, <4>1, <4>2, IdleOK DEF Sound
      <3> QED BY <3>1, <3>2
    <2> QED BY <2>1 DEF Holding
  <1>6. SealerCanOpen'
    <2> SUFFICES ASSUME NEW u \in Users, cred'[u].by # Nobody
                 PROVE  cred'[u].key \in memory'[cred'[u].by]
      BY DEF SealerCanOpen
    <2>1. cred[u].by # r /\ cred'[u] = cred[u]
      BY DEF Restart, IInv, TypeOK, CredStates
    <2> QED BY <2>1 DEF Restart, IInv, TypeOK, CredStates, SealerCanOpen
  <1> QED BY <1>2, <1>3, <1>4, <1>5, <1>6 DEF IInv

LEMMA Inductive == IInv /\ [Next]_vars => IInv'
  <1> SUFFICES ASSUME IInv, [Next]_vars PROVE IInv'
    OBVIOUS
  <1>1. ASSUME NEW r \in Replicas, ReloadQuery(r) \/ WindowPasses(r)
        PROVE  IInv'
    BY <1>1, ReloadStepsOK
  <1>2. ASSUME NEW r \in Replicas, ReloadLoad(r)
        PROVE  IInv'
    BY <1>2, ReloadLoadOK
  <1>3. ASSUME NEW r \in Replicas, RotStart(r)
        PROVE  IInv'
    BY <1>3, RotStartOK
  <1>4. ASSUME NEW r \in Replicas, Restart(r)
        PROVE  IInv'
    BY <1>4, RestartOK
  <1>5. ASSUME NEW r \in Replicas, NEW q \in Requests, NEW u \in Users, EnrolStart(q, r, u)
        PROVE  IInv'
    BY <1>5, EnrolStartOK
  <1>6. ASSUME NEW r \in Replicas, NEW q \in Requests, NEW u \in Users, VerifyStart(q, r, u)
        PROVE  IInv'
    BY <1>6, VerifyStartOK
  <1>7. ASSUME NEW p \in Procs, Seal(p)
        PROVE  IInv'
    <2>1. Newest(Active) \in Keys
      BY OnlyActive DEF IInv
    <2> QED BY <1>7, <2>1, LookUpOK DEF Seal
  <1>8. ASSUME NEW p \in Procs, Open(p)
        PROVE  IInv'
    <2>1. proc[p].old \in Keys
      BY <1>8 DEF Open, IInv, Holding, Sound
    <2> QED BY <1>8, <2>1, LookUpOK DEF Open
  <1>9. ASSUME NEW q \in Requests, EnrolStore(q) \/ VerifyStore(q)
        PROVE  IInv'
    BY <1>9, StoreOK, WorkerIsProc, KekAssumption DEF EnrolStore, VerifyStore
  <1>10. ASSUME NEW q \in Requests, VerifyDone(q)
         PROVE  IInv'
    BY <1>10, VerifyDoneOK
  <1>11. ASSUME NEW u \in Users, DeleteTotp(u)
         PROVE  IInv'
    BY <1>11, DeleteTotpOK
  <1>12. ASSUME RotStep
         PROVE  IInv'
    <2>1. CASE RotStore
      BY <2>1, StoreOK, WorkerIsProc DEF RotStore, W
    <2> QED
      BY <1>12, <2>1, RotWriteFileOK, RotCommitOK, RotCommitThrowsOK, ShredOK, RotBackupOK,
          RotReadyOK,
         RotNextOK, RotRewrapOK, RotOpenedOK, RotRetireOK DEF RotStep
  <1>13. ASSUME UNCHANGED vars
         PROVE  IInv'
    <2>1. Generations' /\ OneActiveTheNewest' /\ Holding'
      BY <1>13, Rests DEF vars
    <2> QED BY <1>13, <2>1 DEF vars, IInv, TypeOK, SealerCanOpen
  <1> QED
    BY <1>1, <1>2, <1>3, <1>4, <1>5, <1>6, <1>7, <1>8, <1>9, <1>10, <1>11,
        <1>12, <1>13
    DEF Next, Lookups, RequestStep

LEMMA Invariant == Spec => []IInv
  BY InitOK, Inductive, PTL DEF Spec

-----------------------------------------------------------------------------
(* No live key is lost: what a commit registers is on disk, and what the   *)
(* worker shreds is retired, was never registered (Generations), or was    *)
(* registered by the commit it was told had failed.                        *)
FilesSafe == /\ LiveKeysKept
             /\ W.pc = "commit" => W.key \in Kept
             /\ W.pc = "caught" => registry[W.key] = "none" \/ W.key \in unsaid
             /\ W.pc = "shred" => registry[W.old] = "retired"

(* Only the worker's own steps between file and shred matter. *)
LEMMA NothingShredded ==
  ASSUME FilesSafe, Kept \subseteq Kept', registry' = registry, unsaid' = unsaid,
         W'.pc \in {"commit", "caught", "shred"} => W' = W
  PROVE  FilesSafe'
  BY DEF FilesSafe, LiveKeysKept, Live, Kept

LEMMA RestartShredsNothing ==
  ASSUME IInv, FilesSafe, NEW r \in Replicas, Restart(r)
  PROVE  FilesSafe'
  <1>1. W' = Idle \/ W' = W
    BY WorkerIsProc DEF Restart, W
  <1>2. Kept \subseteq Kept'
    <2> SUFFICES ASSUME NEW k \in Kept PROVE k \in Kept'
      OBVIOUS
    <2>1. CASE k \in ssm \cup wiped
      BY <2>1 DEF Restart, Kept
    <2>2. ASSUME NEW s \in Replicas, k \in volume[s]
          PROVE  k \in Kept'
      BY <2>2 DEF Restart, IInv, TypeOK, Kept
    <2> QED BY <2>1, <2>2 DEF Kept
  <1> QED BY <1>1, <1>2, NothingShredded, IdleOK DEF Restart

LEMMA ReloadShredsNothing ==
  ASSUME IInv, FilesSafe, NEW r \in Replicas, ReloadLoad(r)
  PROVE  FilesSafe'
  <1> DEFINE mem == memory[r] \cup ((reload[r].rows \ memory[r]) \cap Readable(r))
  <1>1. W' = IF Worker \in Waiting(r) THEN Woken(Worker, mem) ELSE W
    BY WorkerIsProc DEF ReloadLoad, W
  <1>2. W \in ProcStates
    BY WorkerIsProc DEF IInv, TypeOK, W
  <1>3. Worker \in Waiting(r) => W'.pc \notin {"commit", "caught", "shred"}
    BY <1>1, <1>2, IdleOK DEF Waiting, Woken, Waits, W, ProcStates
  <1>4. \A s \in Replicas : volume[s] \subseteq volume'[s]
    BY DEF ReloadLoad, IInv, TypeOK
  <1>5. Kept \subseteq Kept'
    BY <1>4 DEF ReloadLoad, Kept
  <1> HIDE DEF mem
  <1> QED BY <1>1, <1>3, <1>5, NothingShredded DEF ReloadLoad

(* Requests, and the worker's steps up to the retirement, touch no file.   *)
LEMMA OthersShredNothing ==
  ASSUME IInv, FilesSafe, UNCHANGED <<registry, volume, wiped, unsaid>>, ssm \subseteq ssm',
         W' = W \/ W'.pc \notin {"commit", "caught", "shred"}
  PROVE  FilesSafe'
  BY NothingShredded DEF Kept

LEMMA LookUpShredsNothing ==
  ASSUME IInv, FilesSafe, NEW p \in Procs, Seal(p) \/ Open(p)
  PROVE  FilesSafe'
  <1>1. W' = W \/ W'.pc \notin {"commit", "caught", "shred"}
    BY WorkerIsProc, IdleOK DEF Seal, Open, LookUp, Fail, W, IInv, TypeOK, ProcStates
  <1> QED BY <1>1, OthersShredNothing DEF Seal, Open, keyVars

LEMMA RequestShredsNothing ==
  ASSUME IInv, FilesSafe, NEW q \in Requests,
         \/ RequestStep(q)
         \/ \E r \in Replicas, u \in Users : EnrolStart(q, r, u) \/ VerifyStart(q, r, u)
  PROVE  FilesSafe'
  <1>1. W' = W
    BY KekAssumption, WorkerIsProc
    DEF RequestStep, EnrolStore, VerifyDone, VerifyStore, EnrolStart, VerifyStart,
        Become, Fail, W, IInv, TypeOK
  <1> QED
    BY <1>1, OthersShredNothing
    DEF RequestStep, EnrolStore, VerifyDone, VerifyStore, EnrolStart, VerifyStart, keyVars

LEMMA RotationShredsSafely ==
  ASSUME IInv, FilesSafe, RotStep
  PROVE  FilesSafe'
  <1>1. W \in ProcStates /\ Worker \in Procs /\ (W.pc # "idle" => W.at \in Replicas)
    BY WorkerIsProc DEF IInv, TypeOK, Holding, Sound, W
  <1>2. CASE RotWriteFile
    <2>1. W'.key = made + 1 /\ W'.pc = "commit"
      BY <1>1, <1>2 DEF RotWriteFile, W, IInv, TypeOK, ProcStates
    <2>2. \A s \in Replicas : volume[s] \subseteq volume'[s]
      BY <1>2 DEF RotWriteFile, IInv, TypeOK
    <2>3. made + 1 \in volume'[W.at]
      BY <1>1, <1>2 DEF RotWriteFile, IInv, TypeOK
    <2>4. Kept \subseteq Kept' /\ W'.key \in Kept'
      BY <1>1, <1>2, <2>1, <2>2, <2>3 DEF RotWriteFile, Kept
    <2> QED BY <1>2, <2>1, <2>4 DEF RotWriteFile, FilesSafe, LiveKeysKept, Live, Kept
  <1>3. CASE RotCommit
    <2>1. Kept' = Kept /\ W'.pc = "backup"
      BY <1>1, <1>3 DEF RotCommit, Become, Kept, W, IInv, TypeOK, ProcStates
    <2>2. Live' \subseteq Live \cup {W.key}
      BY <1>3 DEF RotCommit, Registered, Live
    <2> QED BY <1>3, <2>1, <2>2 DEF RotCommit, FilesSafe, LiveKeysKept
  <1>4. CASE RotCommitThrows
    <2>1. Kept' = Kept /\ W'.pc = "caught" /\ W'.key = W.key
      BY <1>1, <1>4 DEF RotCommitThrows, Become, Kept, W, IInv, TypeOK, ProcStates
    <2>2. CASE UNCHANGED <<registry, unsaid>>
      <3>1. registry'[W.key] = "none"
        BY <1>4, <2>2 DEF RotCommitThrows, IInv, Generations, W
      <3>2. Live' = Live
        BY <2>2 DEF Live
      <3> QED BY <2>1, <2>2, <3>1, <3>2 DEF FilesSafe, LiveKeysKept
    <2>3. CASE registry' = Registered /\ unsaid' = unsaid \cup {W.key}
      <3>1. Live' \subseteq Live \cup {W.key}
        BY <2>3 DEF Registered, Live
      <3> QED BY <2>1, <2>3, <3>1 DEF FilesSafe, LiveKeysKept
    <2> QED BY <1>4, <2>2, <2>3 DEF RotCommitThrows
  <1>8. CASE RotDiscard
    <2>1. W.key \notin Live \/ W.key \in unsaid
      BY <1>8 DEF RotDiscard, FilesSafe, Live
    <2>2. Kept \ {W.key} \subseteq Kept'
      BY <1>1, <1>8 DEF RotDiscard, Kept, IInv, TypeOK
    <2>3. W'.pc = "idle"
      BY <1>1, <1>8, IdleOK DEF RotDiscard, Fail, W, IInv, TypeOK
    <2>4. Live' = Live /\ unsaid' = unsaid
      BY <1>8 DEF RotDiscard, Live
    <2> QED
      BY <2>1, <2>2, <2>3, <2>4 DEF FilesSafe, LiveKeysKept
  <1>5. CASE RotRetire
    <2>1. Kept' = Kept /\ Live' \subseteq Live /\ unsaid' = unsaid
      BY <1>5 DEF RotRetire, Kept, Live, IInv, TypeOK
    <2>2. W'.pc = "list" \/ (W'.pc = "shred" /\ W'.old = W.old /\ registry'[W.old] = "retired")
      <3>1. W.old \in Keys
        BY <1>5, WorkerIsProc DEF RotRetire, W, IInv, Holding, Sound, OnKey
      <3> QED BY <1>1, <1>5, <3>1 DEF RotRetire, Become, W, IInv, TypeOK, ProcStates
    <2> QED BY <2>1, <2>2 DEF FilesSafe, LiveKeysKept
  <1>6. CASE RotShred
    <2>1. W.old \notin Live
      BY <1>6 DEF RotShred, FilesSafe, Live, W
    <2>2. Kept \ {W.old} \subseteq Kept'
      BY <1>1, <1>6 DEF RotShred, Kept, IInv, TypeOK
    <2>3. W'.pc = "list"
      BY <1>1, <1>6 DEF RotShred, Become, W, IInv, TypeOK, ProcStates
    <2> QED BY <1>6, <2>1, <2>2, <2>3 DEF RotShred, FilesSafe, LiveKeysKept, Live, Kept
  <1>7. CASE RotBackup \/ RotReady \/ RotNext \/ RotRewrap \/ RotOpened \/ RotStore
    <2>1. W'.pc \in {"idle", "waitlist", "waitnext", "list", "rewrap", "open", "seal", "retire"}
      <3>1. CASE RotBackup \/ RotReady
        BY <1>1, <3>1 DEF RotBackup, RotReady, Become, W, IInv, TypeOK, ProcStates
      <3>2. CASE RotNext
        BY <1>1, <3>2, IdleOK DEF RotNext, Fail, W, IInv, TypeOK, ProcStates
      <3>3. CASE RotRewrap
        <4>1. CASE Become(Worker, "retire")
          BY <1>1, <4>1 DEF Become, W, IInv, TypeOK, ProcStates
        <4>2. ASSUME NEW u \in Users,
                     proc' = [proc EXCEPT ![Worker].pc = "open", ![Worker].user = u,
                                          ![Worker].secret = cred[u].secret]
              PROVE  W'.pc = "open"
          BY <1>1, <4>2 DEF W, IInv, TypeOK, ProcStates
        <4> QED BY <3>3, <4>1, <4>2 DEF RotRewrap, SealedTo
      <3>4. CASE RotOpened \/ RotStore
        BY <1>1, <3>4 DEF RotOpened, RotStore, Become, W, IInv, TypeOK, ProcStates
      <3> QED BY <1>7, <3>1, <3>2, <3>3, <3>4
    <2> QED
      BY <1>7, <2>1, OthersShredNothing
      DEF RotBackup, RotReady, RotNext, RotRewrap, RotOpened, RotStore, keyVars
  <1> QED BY <1>2, <1>3, <1>4, <1>5, <1>6, <1>7, <1>8 DEF RotStep

LEMMA FilesStep == IInv /\ FilesSafe /\ [Next]_vars => FilesSafe'
  <1> SUFFICES ASSUME IInv, FilesSafe, [Next]_vars PROVE FilesSafe'
    OBVIOUS
  <1>1. ASSUME NEW r \in Replicas, ReloadQuery(r) \/ WindowPasses(r)
        PROVE  FilesSafe'
    BY <1>1, OthersShredNothing DEF ReloadQuery, WindowPasses, keyVars, W
  <1>2. ASSUME NEW r \in Replicas, RotStart(r)
        PROVE  FilesSafe'
    <2>1. W'.pc \notin {"commit", "caught", "shred"}
      BY <1>2, WorkerIsProc DEF RotStart, W, IInv, TypeOK, Idle
    <2> QED BY <1>2, <2>1, OthersShredNothing DEF RotStart, keyVars
  <1>3. ASSUME NEW u \in Users, DeleteTotp(u)
        PROVE  FilesSafe'
    BY <1>3, OthersShredNothing DEF DeleteTotp, keyVars, W
  <1>4. CASE UNCHANGED vars
    BY <1>4, OthersShredNothing DEF vars, W
  <1> QED
    BY <1>1, <1>2, <1>3, <1>4, RestartShredsNothing, ReloadShredsNothing,
       LookUpShredsNothing, RequestShredsNothing, RotationShredsSafely
    DEF Next, Lookups

LEMMA FilesInit == Init => FilesSafe
  <1> SUFFICES ASSUME Init PROVE FilesSafe
    OBVIOUS
  <1>1. PICK first \in Replicas :
          volume = [r \in Replicas |-> IF r = first \/ 1 \in ssm THEN {1} ELSE {}]
    BY DEF Init
  <1>2. 1 \in Kept
    BY <1>1 DEF Kept
  <1>3. W.pc = "idle" /\ Live \subseteq {1}
    BY WorkerIsProc, IdleOK DEF Init, W, Live
  <1> QED BY <1>2, <1>3 DEF FilesSafe, LiveKeysKept, Kept

(* Every variable of the key lifecycle stays within its declared states. *)
THEOREM KekTypeCorrect == Spec => []TypeOK
  BY Invariant, PTL DEF IInv

(* However rotations crash and fail between file, commit and backup        *)
(* (KekRotationService), the registry offers exactly one key to seal to,   *)
(* the newest it ever had.                                                 *)
THEOREM ActiveKeyIsNewest == Spec => []OneActiveTheNewest
  BY Invariant, PTL DEF IInv

(* Whatever rotates between a request's look at the registry and its       *)
(* store, a process never stores a secret it cannot open again             *)
(* (KekKeyStore.getActivePublicKey).                                       *)
THEOREM SealerKeepsKey == Spec => []SealerCanOpen
  BY Invariant, PTL DEF IInv

(* Whatever rotation fails or is cut off between its file, its commit, its *)
(* retirement and its shredding (KekRotationService), a key that is active *)
(* or retiring keeps a file or an SSM copy, unless a pod's volume took it  *)
(* or the transaction that registered it was told to have failed.          *)
THEOREM LiveKeysAreKept == Spec => []LiveKeysKept
  <1>1. FilesSafe => LiveKeysKept
    BY DEF FilesSafe
  <1> QED BY <1>1, Invariant, FilesInit, FilesStep, PTL DEF Spec
=============================================================================
