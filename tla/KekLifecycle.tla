---------------------------- MODULE KekLifecycle ----------------------------
(***************************************************************************)
(* The keys that seal TOTP secrets (backend/src/crypto): the registry, the *)
(* key files on each pod's volume, the SSM backup, the keys each process   *)
(* has in memory (KekKeyStore), the daily rotation (KekRotationService) and*)
(* the requests that seal or open a secret meanwhile (MfaService).         *)
(*                                                                         *)
(* A key is its place in creation order, a secret the number of the        *)
(* enrolment that made it.  Sealing is modelled by what it needs: the key  *)
(* it seals to, and who holds the private half.  A re-wrap batch holds one *)
(* row.  The worker's job and the requests share the steps that look a key *)
(* up, so they are processes of one kind.                                  *)
(***************************************************************************)
EXTENDS Naturals, FiniteSets

CONSTANTS Replicas,      \* backend pods
          Users,         \* admins with a TotpCredential
          Requests,      \* request slots: enrolments and verifications
          Worker,        \* the rotation job (one at a time)
          MaxKeys,       \* bound: keys ever generated
          MaxEnrols,     \* bound: enrolments
          MaxRestarts    \* bound: pod restarts

ASSUME KekAssumption == /\ Worker \notin Requests
                        /\ MaxKeys \in Nat \ {0}
                        /\ MaxEnrols \in Nat
                        /\ MaxRestarts \in Nat

VARIABLES registry,   \* KekRegistry: status of each key
          volume,     \* per pod: keys with a file in KEK_KEYS_DIR
          ssm,        \* keys with a copy in Parameter Store
          memory,     \* per pod: privateKeys
          reload,     \* per pod: the reload in flight
          missed,     \* per pod: missedSinceReload, until the interval passes
          booting,    \* pods whose boot-time reload is not over: not serving
          cred,       \* TotpCredential of each user
          proc,       \* what each request and the worker are doing
          todo,       \* the worker's list of retiring keys
          made,       \* keys generated so far
          enrols, restarts,
          wiped,      \* history: keys whose file went with a pod's volume
          unsaid      \* history: keys registered by a commit that was told failed

vars == <<registry, volume, ssm, memory, reload, missed, booting, cred, proc,
          todo, made, enrols, restarts, wiped, unsaid>>

storeVars == <<memory, reload, missed, booting>>   \* KekKeyStore
keyVars   == <<registry, volume, ssm, made, wiped, unsaid>>
bounds    == <<enrols, restarts>>

Procs == Requests \cup {Worker}
Keys == 1 .. MaxKeys
Secrets == 1 .. MaxEnrols
Nobody == "nobody"

Status == {"none", "active", "retiring", "retired"}
Live == {k \in Keys : registry[k] \in {"active", "retiring"}}
NoCred == [key |-> 0, secret |-> 0, by |-> Nobody]
Idle == [pc |-> "idle", at |-> Nobody, user |-> Nobody, old |-> 0, key |-> 0,
         secret |-> 0]
IdleReload == [pc |-> "idle", rows |-> {}]

Waits == {"waitopen", "waitseal", "waitlist", "waitnext"}
Pcs == {"idle", "open", "opened", "seal", "store", "file", "commit", "caught",
        "backup", "ready", "list", "next", "rewrap", "retire", "shred"} \cup Waits

ReloadStates == [pc : {"idle", "query", "load"}, rows : SUBSET Keys]
CredStates == [key : 0 .. MaxKeys, secret : 0 .. MaxEnrols,
               by : Replicas \cup {Nobody}]
ProcStates == [pc : Pcs, at : Replicas \cup {Nobody},
               user : Users \cup {Nobody}, old : 0 .. MaxKeys,
               key : 0 .. MaxKeys, secret : 0 .. MaxEnrols]

TypeOK ==
  /\ registry \in [Keys -> Status]
  /\ volume \in [Replicas -> SUBSET Keys]
  /\ ssm \subseteq Keys
  /\ memory \in [Replicas -> SUBSET Keys]
  /\ reload \in [Replicas -> ReloadStates]
  /\ missed \in [Replicas -> SUBSET Keys]
  /\ booting \subseteq Replicas
  /\ cred \in [Users -> CredStates]
  /\ proc \in [Procs -> ProcStates]
  /\ todo \subseteq Keys
  /\ made \in Keys
  /\ enrols \in 0 .. MaxEnrols
  /\ restarts \in 0 .. MaxRestarts
  /\ wiped \subseteq Keys
  /\ unsaid \subseteq Keys

(* One pod bootstrapped the first key (docker-entrypoint.sh).  If the copy *)
(* reached SSM the other pods restored it from there when they booted.     *)
Init ==
  /\ registry = [k \in Keys |-> IF k = 1 THEN "active" ELSE "none"]
  /\ ssm \in {{}, {1}}
  /\ \E first \in Replicas :
       volume = [r \in Replicas |-> IF r = first \/ 1 \in ssm THEN {1} ELSE {}]
  /\ memory = volume
  /\ reload = [r \in Replicas |-> IdleReload]
  /\ missed = [r \in Replicas |-> {}]
  /\ booting = {}
  /\ cred = [u \in Users |-> NoCred]
  /\ proc = [p \in Procs |-> Idle]
  /\ todo = {}
  /\ made = 1
  /\ enrols = 0 /\ restarts = 0
  /\ wiped = {}
  /\ unsaid = {}

-----------------------------------------------------------------------------
(* KekKeyStore. *)

Become(p, pc) == proc' = [proc EXCEPT ![p].pc = pc]
Fail(p) == proc' = [proc EXCEPT ![p] = Idle]

(* reload(): concurrent callers share the one in flight. *)
StartReload(r) ==
  IF reload[r].pc = "idle"
  THEN /\ reload' = [reload EXCEPT ![r].pc = "query"]
       /\ missed' = [missed EXCEPT ![r] = {}]
  ELSE UNCHANGED <<reload, missed>>

(* A lookup of key k by process p: found, refused because it was missed    *)
(* within the window, or a reload to wait for.                             *)
LookUp(p, k, found, wait) ==
  LET r == proc[p].at IN
  \/ /\ k \in memory[r]
     /\ proc' = [proc EXCEPT ![p].pc = found, ![p].key = k]
     /\ UNCHANGED storeVars
  \/ /\ k \notin memory[r]
     /\ k \in missed[r]
     /\ Fail(p)
     /\ UNCHANGED storeVars
  \/ /\ k \notin memory[r]
     /\ k \notin missed[r]
     /\ proc' = [proc EXCEPT ![p].pc = wait, ![p].key = k]
     /\ StartReload(r)
     /\ UNCHANGED <<memory, booting>>

(* doReload's findMany. *)
ReloadQuery(r) ==
  /\ reload[r].pc = "query"
  /\ reload' = [reload EXCEPT ![r] = [pc |-> "load", rows |-> Live]]
  /\ UNCHANGED <<keyVars, memory, missed, booting, cred, proc, todo,
                 bounds>>

(* How a process goes on when the reload it waits for has left its pod     *)
(* with the keys mem. *)
Woken(p, mem) ==
  LET q == proc[p] IN
  CASE q.pc = "waitopen" -> IF q.key \in mem THEN [q EXCEPT !.pc = "opened"]
                                             ELSE Idle
    [] q.pc = "waitseal" -> IF q.key \in mem THEN [q EXCEPT !.pc = "store"]
                                             ELSE Idle
    [] q.pc = "waitnext" -> [q EXCEPT !.pc = IF q.old \in mem THEN "rewrap"
                                                              ELSE "list"]
    [] q.pc = "waitlist" -> [q EXCEPT !.pc = "ready"]

Waiting(r) == {p \in Procs : proc[p].at = r /\ proc[p].pc \in Waits}

(* Mutant: a key without a local file is not looked for in SSM. *)
FilesOnly(r) == volume[r]

(* readOrRestoreKeyFile: the local file, else the SSM copy, written back. *)
Readable(r) == volume[r] \cup ssm

(* The rows of the query whose file can be read are loaded; whoever waited *)
(* continues, and a key still not there is remembered as missed.           *)
ReloadLoad(r) ==
  LET new == (reload[r].rows \ memory[r]) \cap Readable(r)
      mem == memory[r] \cup new IN
  /\ reload[r].pc = "load"
  /\ reload' = [reload EXCEPT ![r] = IdleReload]
  /\ memory' = [memory EXCEPT ![r] = mem]
  /\ volume' = [volume EXCEPT ![r] = @ \cup new]
  /\ missed' = [missed EXCEPT ![r] = @ \cup
                 {proc[p].key : p \in {q \in Waiting(r) :
                    /\ proc[q].pc \in {"waitopen", "waitseal"}
                    /\ proc[q].key \notin mem}}]
  /\ proc' = [p \in Procs |-> IF p \in Waiting(r) THEN Woken(p, mem)
                                                  ELSE proc[p]]
  /\ booting' = booting \ {r}
  /\ UNCHANGED <<registry, ssm, made, wiped, unsaid, cred, todo, bounds>>

(* RELOAD_MIN_INTERVAL_MS after the reload its misses no longer count. *)
WindowPasses(r) ==
  /\ missed[r] # {}
  /\ missed' = [missed EXCEPT ![r] = {}]
  /\ UNCHANGED <<keyVars, memory, reload, booting, cred, proc, todo, bounds>>

-----------------------------------------------------------------------------
(* Sealing and opening: TotpCryptoService, for requests and worker alike.  *)

Active == {k \in Keys : registry[k] = "active"}
Newest(S) == CHOOSE k \in S : \A j \in S : j <= k

(* Mutant: the public half is handed out whatever this process holds. *)
SealBlind(p) ==
  /\ proc[p].pc = "seal" /\ Active # {}
  /\ proc' = [proc EXCEPT ![p].pc = "store", ![p].key = Newest(Active)]
  /\ UNCHANGED <<keyVars, storeVars, cred, todo, bounds>>

(* encryptSecret's getActivePublicKey: closed to a key not loaded here. *)
Seal(p) ==
  /\ proc[p].pc = "seal" /\ Active # {}
  /\ LookUp(p, Newest(Active), "store", "waitseal")
  /\ UNCHANGED <<keyVars, cred, todo, bounds>>

(* decryptSecret's getPrivateKey. *)
Open(p) ==
  /\ proc[p].pc = "open"
  /\ LookUp(p, proc[p].old, "opened", "waitopen")
  /\ UNCHANGED <<keyVars, cred, todo, bounds>>

(* The envelope: which key it is sealed to, and (history) who sealed it. *)
Sealed(p) == [key |-> proc[p].key, secret |-> proc[p].secret,
              by |-> proc[p].at]

-----------------------------------------------------------------------------
(* MfaService. *)

EnrolStart(q, r, u) ==
  /\ proc[q].pc = "idle" /\ r \notin booting /\ enrols < MaxEnrols
  /\ enrols' = enrols + 1
  /\ proc' = [proc EXCEPT ![q] = [Idle EXCEPT !.pc = "seal", !.at = r,
                                  !.user = u, !.secret = enrols + 1]]
  /\ UNCHANGED <<keyVars, storeVars, cred, todo, restarts>>

(* The upsert names no key it expects to replace. *)
EnrolStore(q) ==
  /\ proc[q].pc = "store" /\ proc[q].old = 0
  /\ cred' = [cred EXCEPT ![proc[q].user] = Sealed(q)]
  /\ Fail(q)
  /\ UNCHANGED <<keyVars, storeVars, todo, bounds>>

(* verifyTotp reads the row, and opens it. *)
VerifyStart(q, r, u) ==
  /\ proc[q].pc = "idle" /\ r \notin booting /\ cred[u].key # 0
  /\ proc' = [proc EXCEPT ![q] = [Idle EXCEPT !.pc = "open", !.at = r,
                !.user = u, !.old = cred[u].key, !.secret = cred[u].secret]]
  /\ UNCHANGED <<keyVars, storeVars, cred, todo, bounds>>

(* The code was right: rewrapIfKekRetiring looks at the key's status. *)
VerifyDone(q) ==
  /\ q # Worker /\ proc[q].pc = "opened"
  /\ IF registry[proc[q].old] = "retiring" THEN Become(q, "seal") ELSE Fail(q)
  /\ UNCHANGED <<keyVars, storeVars, cred, todo, bounds>>

(* Its update is by user alone; without a row it throws. *)
VerifyStore(q) ==
  /\ q # Worker /\ proc[q].pc = "store" /\ proc[q].old # 0
  /\ cred' = IF cred[proc[q].user].key = 0 THEN cred
             ELSE [cred EXCEPT ![proc[q].user] = Sealed(q)]
  /\ Fail(q)
  /\ UNCHANGED <<keyVars, storeVars, todo, bounds>>

(* deleteTotpCredential. *)
DeleteTotp(u) ==
  /\ cred[u].key # 0
  /\ cred' = [cred EXCEPT ![u] = NoCred]
  /\ UNCHANGED <<keyVars, storeVars, proc, todo, bounds>>

-----------------------------------------------------------------------------
(* KekRotationService.rotateIfDue, run by the worker of one pod. *)

W == proc[Worker]

(* The daily job: the active key may or may not have reached its age. *)
RotStart(r) ==
  /\ W.pc = "idle" /\ Active # {}
  /\ \E pc \in {"file", "ready"} :
       /\ pc = "file" => made < MaxKeys
       /\ proc' = [proc EXCEPT ![Worker] = [Idle EXCEPT !.pc = pc, !.at = r]]
  /\ UNCHANGED <<keyVars, storeVars, cred, todo, bounds>>

(* generate: the private half reaches the disk first, *)
RotWriteFile ==
  /\ W.pc = "file"
  /\ made < MaxKeys
  /\ made' = made + 1
  /\ volume' = [volume EXCEPT ![W.at] = @ \cup {made + 1}]
  /\ proc' = [proc EXCEPT ![Worker].pc = "commit", ![Worker].key = made + 1]
  /\ UNCHANGED <<registry, ssm, wiped, unsaid, storeVars, cred, todo, bounds>>

(* Mutant: the old key stays active next to the new one. *)
RotCommitAddsOnly ==
  /\ W.pc = "commit"
  /\ registry' = [registry EXCEPT ![W.key] = "active"]
  /\ Become(Worker, "backup")
  /\ UNCHANGED <<volume, ssm, made, wiped, unsaid, storeVars, cred, todo, bounds>>

(* then one transaction demotes the active key and registers the new one; *)
Registered == [k \in Keys |-> IF k = W.key THEN "active"
                              ELSE IF registry[k] = "active" THEN "retiring"
                              ELSE registry[k]]

RotCommit ==
  /\ W.pc = "commit"
  /\ registry' = Registered
  /\ Become(Worker, "backup")
  /\ UNCHANGED <<volume, ssm, made, wiped, unsaid, storeVars, cred, todo, bounds>>

(* if it throws, which it also does when it took effect and its answer was *)
(* lost,                                                                   *)
RotCommitThrows ==
  /\ W.pc = "commit"
  /\ \/ UNCHANGED <<registry, unsaid>>
     \/ /\ registry' = Registered
        /\ unsaid' = unsaid \cup {W.key}
  /\ Become(Worker, "caught")
  /\ UNCHANGED <<volume, ssm, made, wiped, storeVars, cred, todo, bounds>>

(* the file is shredded and the job fails;                                 *)
RotDiscard ==
  /\ W.pc = "caught"
  /\ volume' = [volume EXCEPT ![W.at] = @ \ {W.key}]
  /\ Fail(Worker)
  /\ UNCHANGED <<registry, ssm, made, wiped, unsaid, storeVars, cred, todo, bounds>>

(* then putKey, whose failure is only logged, and a reload is awaited. *)
RotBackup ==
  /\ W.pc = "backup"
  /\ ssm' = ssm \cup {W.key} \/ UNCHANGED ssm
  /\ Become(Worker, "waitlist")
  /\ StartReload(W.at)
  /\ UNCHANGED <<registry, volume, made, wiped, unsaid, memory, booting, cred,
                 todo, bounds>>

(* The list of retiring keys, oldest first. *)
RotReady ==
  /\ W.pc = "ready"
  /\ todo' = {k \in Keys : registry[k] = "retiring"}
  /\ Become(Worker, "list")
  /\ UNCHANGED <<keyVars, storeVars, cred, bounds>>

Oldest(S) == CHOOSE k \in S : \A j \in S : k <= j

(* The next key of the list: to be re-wrapped if its private half is here, *)
(* after a reload if need be; the run ends when none is left.              *)
RotNext ==
  /\ W.pc = "list"
  /\ \/ /\ todo = {}
        /\ Fail(Worker)
        /\ UNCHANGED <<todo, storeVars>>
     \/ /\ todo # {}
        /\ todo' = todo \ {Oldest(todo)}
        /\ IF Oldest(todo) \in memory[W.at]
           THEN /\ proc' = [proc EXCEPT ![Worker].pc = "rewrap",
                                        ![Worker].old = Oldest(todo)]
                /\ UNCHANGED storeVars
           ELSE /\ proc' = [proc EXCEPT ![Worker].pc = "waitnext",
                                        ![Worker].old = Oldest(todo)]
                /\ StartReload(W.at)
                /\ UNCHANGED <<memory, booting>>
  /\ UNCHANGED <<keyVars, cred, bounds>>

SealedTo(k) == {u \in Users : cred[u].key = k}

(* rewrapAll: the next row still sealed to the key, if there is one. *)
RotRewrap ==
  /\ W.pc = "rewrap"
  /\ \/ /\ SealedTo(W.old) = {}
        /\ Become(Worker, "retire")
     \/ \E u \in SealedTo(W.old) :
          proc' = [proc EXCEPT ![Worker].pc = "open", ![Worker].user = u,
                               ![Worker].secret = cred[u].secret]
  /\ UNCHANGED <<keyVars, storeVars, cred, todo, bounds>>

RotOpened ==
  /\ W.pc = "opened"
  /\ Become(Worker, "seal")
  /\ UNCHANGED <<keyVars, storeVars, cred, todo, bounds>>

(* Its updateMany replaces a row only while that is sealed to the old key. *)
RotStore ==
  /\ W.pc = "store"
  /\ cred' = IF cred[W.user].key = W.old
             THEN [cred EXCEPT ![W.user] = Sealed(Worker)] ELSE cred
  /\ Become(Worker, "rewrap")
  /\ UNCHANGED <<keyVars, storeVars, todo, bounds>>

(* Mutant: the file goes before the transaction has decided. *)
RotRetireShredsFirst ==
  /\ W.pc = "retire"
  /\ volume' = [volume EXCEPT ![W.at] = @ \ {W.old}]
  /\ IF registry[W.old] = "retiring" /\ SealedTo(W.old) = {}
     THEN registry' = [registry EXCEPT ![W.old] = "retired"]
     ELSE UNCHANGED registry
  /\ Become(Worker, "list")
  /\ UNCHANGED <<ssm, made, wiped, unsaid, storeVars, cred, todo, bounds>>

(* retireIfUnreferenced: count and flip in one Serializable transaction, *)
RotRetire ==
  /\ W.pc = "retire"
  /\ \/ /\ registry[W.old] = "retiring" /\ SealedTo(W.old) = {}
        /\ registry' = [registry EXCEPT ![W.old] = "retired"]
        /\ Become(Worker, "shred")
     \/ /\ ~(registry[W.old] = "retiring" /\ SealedTo(W.old) = {})
        /\ Become(Worker, "list")
        /\ UNCHANGED registry
  /\ UNCHANGED <<volume, ssm, made, wiped, unsaid, storeVars, cred, todo, bounds>>

(* and the file of this pod is shredded after it. *)
RotShred ==
  /\ W.pc = "shred"
  /\ volume' = [volume EXCEPT ![W.at] = @ \ {W.old}]
  /\ Become(Worker, "list")
  /\ UNCHANGED <<registry, ssm, made, wiped, unsaid, storeVars, cred, todo, bounds>>

RotStep == RotWriteFile \/ RotCommit \/ RotCommitThrows \/ RotDiscard
             \/ RotBackup \/ RotReady \/ RotNext \/ RotRewrap \/ RotOpened
             \/ RotStore \/ RotRetire \/ RotShred

-----------------------------------------------------------------------------
(* A container restarts, or its pod is replaced and its emptyDir with it.  *)
(* What the process did is gone; boot reloads.                             *)
Restart(r) ==
  /\ restarts < MaxRestarts
  /\ restarts' = restarts + 1
  /\ \/ UNCHANGED <<volume, wiped>>
     \/ /\ volume' = [volume EXCEPT ![r] = {}]
        /\ wiped' = wiped \cup volume[r]
  /\ memory' = [memory EXCEPT ![r] = {}]
  /\ reload' = [reload EXCEPT ![r] = [pc |-> "query", rows |-> {}]]
  /\ missed' = [missed EXCEPT ![r] = {}]
  /\ booting' = booting \cup {r}
  /\ proc' = [p \in Procs |-> IF proc[p].at = r THEN Idle ELSE proc[p]]
  /\ cred' = [u \in Users |-> IF cred[u].by = r
                              THEN [cred[u] EXCEPT !.by = Nobody] ELSE cred[u]]
  /\ UNCHANGED <<registry, ssm, made, todo, enrols, unsaid>>

Lookups(p) == Seal(p) \/ Open(p)
RequestStep(q) == EnrolStore(q) \/ VerifyDone(q) \/ VerifyStore(q)

Next ==
  \/ \E r \in Replicas :
       \/ ReloadQuery(r) \/ ReloadLoad(r) \/ WindowPasses(r)
       \/ RotStart(r) \/ Restart(r)
       \/ \E q \in Requests, u \in Users : EnrolStart(q, r, u)
                                             \/ VerifyStart(q, r, u)
  \/ \E p \in Procs : Lookups(p)
  \/ \E q \in Requests : RequestStep(q)
  \/ \E u \in Users : DeleteTotp(u)
  \/ RotStep

Spec == Init /\ [][Next]_vars

(* Promises settle, requests finish, time passes, and the scheduler keeps  *)
(* running the daily job on some pod.  Nothing is assumed of restarts, of  *)
(* the clients, or of which transactions and backups succeed.              *)
Fairness ==
  /\ \A r \in Replicas : /\ WF_vars(ReloadQuery(r)) /\ WF_vars(ReloadLoad(r))
                         /\ WF_vars(WindowPasses(r))
  /\ \A p \in Procs : WF_vars(Lookups(p))
  /\ \A q \in Requests : WF_vars(RequestStep(q))
  /\ WF_vars(\E r \in Replicas : RotStart(r))
  /\ WF_vars(RotStep)

FairSpec == Spec /\ Fairness

-----------------------------------------------------------------------------
(* Properties. *)

(* The registry never offers two keys to seal to, nor none, and the one it *)
(* offers is the newest it ever had: whatever crashed between file, commit *)
(* and backup, no rotation brings an older key back.                       *)
OneActiveTheNewest ==
  \E k \in Keys :
    /\ registry[k] = "active"
    /\ \A j \in Keys \ {k} : /\ registry[j] # "active"
                             /\ j > k => registry[j] = "none"

(* Fail closed at encrypt time (kek-key-store.service.ts:29-33): the       *)
(* process that sealed a stored secret can open it, although another pod   *)
(* rotated the key between its read of the registry and its store.         *)
SealerCanOpen ==
  \A u \in Users : cred[u].by # Nobody => cred[u].key \in memory[cred[u].by]

Kept == ssm \cup wiped \cup UNION {volume[r] : r \in Replicas}

(* A key the registry still lists for opening secrets has a file or an SSM *)
(* copy, unless its only file went with a pod or the commit that           *)
(* registered it was told to have failed: whatever crashes or fails        *)
(* between file, commit, backup, retirement and shredding, no other key is *)
(* lost.                                                                   *)
LiveKeysKept == Live \subseteq Kept \cup unsaid

(* A rotation is driven to its end by the runs that follow, whatever pods  *)
(* restart or lose their volume meanwhile, if the live keys have their     *)
(* backup (kek-rotation.service.ts:44-46).                                 *)
RotationFinishes ==
  <>[](Live \subseteq ssm) => []<>(\A k \in Keys : registry[k] # "retiring")

-----------------------------------------------------------------------------
(* Statements of comments that the code refutes. *)

(* "can't interleave": no credential is sealed to a key that was retired   *)
(* between the read of that key and the store of the credential.           *)
NoSecretUnderRetiredKey ==
  \A u \in Users : cred[u].key # 0 => registry[cred[u].key] # "retired"

(* "Never leave an unregistered private key on disk": what is shredded     *)
(* after an exception of the transaction is the file of no registered key. *)
OnlyUnregisteredDiscarded == Live \subseteq Kept

(* "Re-wrap of the secret": only an enrolment changes which secret a user  *)
(* has.                                                                    *)
RewrapKeepsSecret ==
  [][\A u \in Users :
       cred'[u].secret # cred[u].secret
       => \/ cred'[u].key = 0
          \/ \E q \in Requests : proc[q].pc = "store" /\ proc[q].old = 0
                                   /\ proc'[q].pc = "idle"]_vars
=============================================================================
