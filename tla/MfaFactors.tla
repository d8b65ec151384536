----------------------------- MODULE MfaFactors -----------------------------
(***************************************************************************)
(* One admin's second factors: the authenticator app's secret and the      *)
(* biometric credentials (backend/src/mfa), the sessions verified with     *)
(* them, and the pages that set them up, ask for them and replace them     *)
(* (frontend/views/AdminMfaSetup, AdminMfaChallenge and                    *)
(* AdminSecuritySection.tsx).  Several tabs, each a session, are at work.  *)
(*                                                                         *)
(* A code is the secret and the time step it was made from.  There is no   *)
(* clock: a code may be found current or outdated whenever it is checked.  *)
(* Challenges are numbered; one also goes when its 300 seconds are over.   *)
(*                                                                         *)
(* There are two Redis stores, and every replica of the backend turns from *)
(* one to the other by itself (FailoverMonitor.tla).  Nothing is copied    *)
(* between them, and each keeps what it holds while it is not in use.      *)
(***************************************************************************)
EXTENDS Naturals, FiniteSets

CONSTANTS Tabs,        \* sessions of the admin, one request each
          Keys,        \* biometric credentials
          Pods,        \* replicas of the backend
          MaxSecrets,  \* bound: enrolments of an authenticator app
          MaxStep,     \* bound: time steps
          MaxAsked,    \* bound: challenges of biometric credentials
          MaxFlips     \* bound: turns of a replica to the other Redis

ASSUME MfaAssumption ==
  MaxSecrets \in Nat /\ MaxStep \in Nat /\ MaxAsked \in Nat /\ MaxFlips \in Nat

VARIABLES totp,       \* the TotpCredential row; secret 0: there is none
          made,       \* secrets generated
          app,        \* secrets the admin has scanned
          keys,       \* the WebAuthnCredential rows
          enrolled,   \* User.mfaEnrolled
          mode,       \* per replica: the store it sends its commands to
          flips,      \* turns so far
          asked,      \* challenges generated
          lastStep,   \* per store: totp:last-step, 0: not set
          challenge,  \* per store: webauthn:reg and webauthn:auth, 0: not set
          verified,   \* per store: mfa:session-verified
          req,        \* per tab: its request
          accepted    \* history: per store and time step, the codes that went through

vars == <<totp, made, app, keys, enrolled, mode, flips, asked, lastStep,
          challenge, verified, req, accepted>>

rows  == <<totp, made, app, keys, enrolled>>
modes == <<mode, flips>>
redis == <<modes, lastStep, asked, challenge, verified>>

Stores == {"primary", "local"}

Steps == 1 .. MaxStep
NoRow == [secret |-> 0, confirmed |-> FALSE, retiring |-> FALSE]
Row == [secret : 0 .. MaxSecrets, confirmed : BOOLEAN, retiring : BOOLEAN]
Kinds == {"reg", "auth"}

\* Requests: of a factor's change, and of a proof.
Changes == {"enroll", "confirm", "delTotp", "register", "delKey"}
Proofs == {"challengeTotp", "resetTotp", "challengeKey", "resetKey"}

Idle == [pc |-> "idle", op |-> "none", pod |-> "none", secret |-> 0, step |-> 0,
         retiring |-> FALSE, key |-> "none", challenge |-> 0, ok |-> FALSE]

TypeOK ==
  /\ totp \in Row /\ made \in 0 .. MaxSecrets /\ app \subseteq 1 .. MaxSecrets
  /\ keys \subseteq Keys /\ enrolled \in BOOLEAN
  /\ mode \in [Pods -> Stores] /\ flips \in 0 .. MaxFlips
  /\ lastStep \in [Stores -> 0 .. MaxStep]
  /\ asked \in 0 .. MaxAsked /\ challenge \in [Stores -> [Kinds -> 0 .. MaxAsked]]
  /\ verified \in [Stores -> SUBSET Tabs]
  /\ req \in [Tabs -> [pc : {"idle", "guarded", "checked", "read", "good", "recorded",
                             "mark", "ceremony", "update", "clear"},
                       op : Changes \cup Proofs \cup {"none"}, pod : Pods \cup {"none"},
                       secret : 0 .. MaxSecrets, step : 0 .. MaxStep,
                       retiring : BOOLEAN, key : Keys \cup {"none"},
                       challenge : 0 .. MaxAsked, ok : BOOLEAN]]
  /\ accepted \in [Stores -> [Steps -> Nat]]

Init ==
  /\ totp = NoRow /\ made = 0 /\ app = {} /\ keys = {} /\ enrolled = FALSE
  /\ mode = [p \in Pods |-> "primary"] /\ flips = 0
  /\ lastStep = [s \in Stores |-> 0]
  /\ asked = 0 /\ challenge = [s \in Stores |-> [k \in Kinds |-> 0]]
  /\ verified = [s \in Stores |-> {}]
  /\ req = [t \in Tabs |-> Idle]
  /\ accepted = [s \in Stores |-> [n \in Steps |-> 0]]

\* What MfaService.status() and the challenge page count as a method.
Methods == keys \cup (IF totp.confirmed THEN {"totp"} ELSE {})

-----------------------------------------------------------------------------
Become(t, r) == req' = [req EXCEPT ![t] = r]
Done(t) == Become(t, Idle)
At(t, pc, ops) == req[t].pc = pc /\ req[t].op \in ops
Onward(t, pc) == [Idle EXCEPT !.pc = pc, !.op = req[t].op, !.pod = req[t].pod]

\* RedisService: where the replica that serves the request sends a command.
Store(t) == mode[req[t].pod]

\* MfaBootstrapOnlyGuard: before the account is enrolled, or in a session that
\* is verified in this replica's store.  mfaEnrolled is the value ClerkAuthGuard read.
MayChange(t, p) == ~ enrolled \/ t \in verified[mode[p]]

\* A request for a change, to one of the replicas.
SendChange(t, p, op, key) ==
  /\ req[t].pc = "idle" /\ op \in Changes \ {"confirm"} /\ MayChange(t, p)
  /\ Become(t, [Idle EXCEPT !.pc = "guarded", !.op = op, !.pod = p, !.key = key])
  /\ UNCHANGED <<rows, redis, accepted>>

\* The page an account without a factor is sent to, and the two cards of the
\* security section, which a verified session reaches.
SetupPage(t, p) ==
  ~ enrolled /\ \E op \in {"enroll", "register"} : SendChange(t, p, op, "none")
AuthenticatorCard(t, p) ==
  /\ t \in verified[mode[p]]
  /\ \E op \in {"enroll", "delTotp"} : SendChange(t, p, op, "none")
BiometricCard(t, p) ==
  /\ t \in verified[mode[p]]
  /\ SendChange(t, p, "register", "none") \/ \E k \in Keys : SendChange(t, p, "delKey", k)

SendCode(t, p, op, secret, step) ==
  /\ req[t].pc = "idle"
  /\ Become(t, [Idle EXCEPT !.pc = "guarded", !.op = op, !.pod = p,
                            !.secret = secret, !.step = step])
  /\ UNCHANGED <<rows, redis, accepted>>

\* The form under the QR code.
SendConfirm(t, p, secret, step) ==
  MayChange(t, p) /\ SendCode(t, p, "confirm", secret, step)

\* The challenge page of a session, and the form for a new password, which asks
\* for a code whatever the session has shown.
SendChallenge(t, p, secret, step) == SendCode(t, p, "challengeTotp", secret, step)
SendReset(t, p, secret, step) == SendCode(t, p, "resetTotp", secret, step)

\* enrollTotp(): the row is overwritten, confirmed or not.
EnrollTotp(t) ==
  /\ At(t, "guarded", {"enroll"}) /\ made < MaxSecrets
  /\ made' = made + 1
  /\ totp' = [secret |-> made + 1, confirmed |-> FALSE, retiring |-> FALSE]
  /\ Become(t, [req[t] EXCEPT !.pc = "checked", !.secret = made + 1])
  /\ UNCHANGED <<app, keys, enrolled, redis, accepted>>

\* The QR code is on the page, and scanned.
Scan(t) ==
  /\ At(t, "checked", {"enroll"})
  /\ app' = app \cup {req[t].secret}
  /\ Done(t)
  /\ UNCHANGED <<totp, made, keys, enrolled, redis, accepted>>

\* The row, of a code that is made with its secret, and its key.
ReadTotp(t) ==
  LET proves == req[t].op # "confirm" IN
  /\ At(t, "guarded", {"confirm", "challengeTotp", "resetTotp"})
  /\ totp.secret = req[t].secret /\ (proves => totp.confirmed)
  /\ Become(t, [req[t] EXCEPT !.pc = "read", !.retiring = proves /\ totp.retiring])
  /\ UNCHANGED <<rows, redis, accepted>>

\* getAfterTimeStep(), and verify() with it, of a code that is current.
CheckCode(t) ==
  /\ req[t].pc = "read" /\ req[t].step > lastStep[Store(t)]
  /\ Become(t, [req[t] EXCEPT !.pc = "good"])
  /\ UNCHANGED <<rows, redis, accepted>>

\* The code goes through, and the store has its step.
Accept(t) == LET r == req[t] IN
  /\ lastStep' = [lastStep EXCEPT ![Store(t)] = r.step]
  /\ accepted' = [accepted EXCEPT ![Store(t)][r.step] = @ + 1]
  /\ Become(t, [Onward(t, "recorded") EXCEPT !.secret = r.secret, !.retiring = r.retiring])
  /\ UNCHANGED <<rows, modes, asked, challenge, verified>>

\* The mutant of RecordStep: what verify() compared is all there is.
RecordVerified(t) == req[t].pc = "good" /\ Accept(t)

\* recordUsedTimeStep(): compared and set in one script.
RecordStep(t) ==
  req[t].pc = "good" /\ req[t].step > lastStep[Store(t)] /\ Accept(t)

\* "Invalid code" and the other refusals: there is no row, or the code is
\* outdated, wrong or used.
RefuseCode(t) ==
  /\ \/ At(t, "guarded", {"confirm", "challengeTotp", "resetTotp"})
     \/ req[t].pc \in {"read", "good"}
  /\ Done(t)
  /\ UNCHANGED <<rows, redis, accepted>>

\* The mutant of ConfirmTotp: the transaction is two updates, the account's
\* left to a later request.
ConfirmTotpOnly(t) ==
  /\ At(t, "recorded", {"confirm"})
  /\ totp' = IF totp.secret = 0 THEN totp ELSE [totp EXCEPT !.confirmed = TRUE]
  /\ Done(t)
  /\ UNCHANGED <<made, app, keys, enrolled, redis, accepted>>

\* confirmTotp(): whatever secret the row holds by now; no row, no confirmation.
ConfirmTotp(t) ==
  /\ At(t, "recorded", {"confirm"})
  /\ IF totp.secret = 0 THEN UNCHANGED <<totp, enrolled>>
     ELSE totp' = [totp EXCEPT !.confirmed = TRUE] /\ enrolled' = TRUE
  /\ Done(t)
  /\ UNCHANGED <<made, app, keys, redis, accepted>>

\* A request that has read the row's key, and will ask for that key's status.
HasKey(t) == /\ req[t].pc \in {"read", "good", "recorded"}
             /\ req[t].op \in {"challengeTotp", "resetTotp"}

\* A key rotation (KekLifecycle.tla) turns the row's key to retiring, and with it
\* the key of whoever read the row before.
RetireKek ==
  /\ totp' = [totp EXCEPT !.retiring = totp.secret # 0]
  /\ req' = [t \in Tabs |-> IF HasKey(t) THEN [req[t] EXCEPT !.retiring = TRUE] ELSE req[t]]
  /\ UNCHANGED <<made, app, keys, enrolled, redis, accepted>>

\* rewrapIfKekRetiring(): the secret that was read, sealed with the active key;
\* confirmedAt is left alone.  Without the row the request fails.
Rewrap(t) ==
  /\ At(t, "recorded", {"challengeTotp", "resetTotp"})
  /\ IF ~ req[t].retiring THEN totp' = totp /\ Become(t, Onward(t, "mark"))
     ELSE IF totp.secret = 0 THEN totp' = totp /\ Done(t)
     ELSE /\ totp' = [totp EXCEPT !.secret = req[t].secret, !.retiring = FALSE]
          /\ Become(t, Onward(t, "mark"))
  /\ UNCHANGED <<made, app, keys, enrolled, redis, accepted>>

\* markSessionVerified(); a reset sets the password at Clerk instead, which
\* signs the other sessions out.
Mark(t) ==
  /\ req[t].pc = "mark"
  /\ verified' = IF req[t].op \in {"challengeTotp", "challengeKey"}
                 THEN [verified EXCEPT ![Store(t)] = @ \cup {t}]
                 ELSE [s \in Stores |-> verified[s] \cap {t}]
  /\ Done(t)
  /\ UNCHANGED <<rows, modes, lastStep, asked, challenge, accepted>>

\* The checks of the two deletes, each over the two tables as they are.
CheckDelete(t) ==
  LET r == req[t]
      allowed == IF r.op = "delTotp" THEN totp.confirmed /\ keys # {}
                 ELSE r.key \in keys /\ (totp.confirmed \/ Cardinality(keys) > 1) IN
  /\ At(t, "guarded", {"delTotp", "delKey"})
  /\ IF allowed THEN Become(t, [r EXCEPT !.pc = "checked"]) ELSE Done(t)
  /\ UNCHANGED <<rows, redis, accepted>>

\* delete where the id, or the user, is the one: nothing of the check is left.
Delete(t) ==
  /\ At(t, "checked", {"delTotp", "delKey"})
  /\ totp' = IF req[t].op = "delTotp" THEN NoRow ELSE totp
  /\ keys' = IF req[t].op = "delKey" THEN keys \ {req[t].key} ELSE keys
  /\ Done(t)
  /\ UNCHANGED <<made, app, enrolled, redis, accepted>>

-----------------------------------------------------------------------------
(* Biometric credentials.                                                  *)

KindOf(op) == IF op = "register" THEN "reg" ELSE "auth"

\* A new challenge in place of the one of its kind.
Ask(t, store, op) ==
  /\ asked < MaxAsked /\ asked' = asked + 1
  /\ challenge' = [challenge EXCEPT ![store][KindOf(op)] = asked + 1]
  /\ Become(t, [Idle EXCEPT !.pc = "ceremony", !.op = op, !.challenge = asked + 1])
  /\ UNCHANGED <<rows, modes, lastStep, verified, accepted>>

\* webauthnRegisterOptions() and webauthnAuthOptions().
RegisterOptions(t) == At(t, "guarded", {"register"}) /\ Ask(t, Store(t), "register")
AuthOptions(t, p, op) == req[t].pc = "idle" /\ keys # {} /\ Ask(t, mode[p], op)

\* The panel of the challenge page, and the form for a new password.
BiometricPanel(t, p) == AuthOptions(t, p, "challengeKey")
ResetByKey(t, p) == AuthOptions(t, p, "resetKey")

ChallengeExpires(s, k) ==
  /\ challenge[s][k] # 0
  /\ challenge' = [challenge EXCEPT ![s][k] = 0]
  /\ UNCHANGED <<rows, modes, lastStep, asked, verified, accepted, req>>

\* The browser's answer, a request of its own and to any replica: to the challenge
\* that the replica's store holds, or not verified.
Respond(t, p, key) ==
  LET kind == KindOf(req[t].op)
      expected == challenge[mode[p]][kind] IN
  /\ req[t].pc = "ceremony"
  /\ IF \/ expected = 0
        \/ kind = "auth" /\ key \notin keys
        \/ kind = "reg" /\ ~ MayChange(t, p)
     THEN Done(t)
     ELSE IF expected = req[t].challenge
     THEN Become(t, [Idle EXCEPT !.pc = "update", !.op = req[t].op, !.pod = p, !.key = key])
     ELSE IF kind = "auth"
     THEN Become(t, [Idle EXCEPT !.pc = "clear", !.op = req[t].op, !.pod = p])
     ELSE Done(t)
  /\ UNCHANGED <<rows, redis, accepted>>

\* The new row with mfaEnrolled, in one transaction; a credential that is there
\* already is a conflict.
Register(t) ==
  /\ At(t, "update", {"register"})
  /\ keys' = keys \cup {req[t].key}
  /\ enrolled' = IF req[t].key \in keys THEN enrolled ELSE TRUE
  /\ Become(t, [req[t] EXCEPT !.pc = "clear", !.key = "none"])
  /\ UNCHANGED <<totp, made, app, redis, accepted>>

\* The credential's counter: an update of a row that may be gone by now.
CountUse(t) ==
  /\ At(t, "update", {"challengeKey", "resetKey"})
  /\ Become(t, [req[t] EXCEPT !.pc = "clear", !.ok = req[t].key \in keys, !.key = "none"])
  /\ UNCHANGED <<rows, redis, accepted>>

\* finally: the challenge, whoever's it is by now.
ClearChallenge(t) ==
  /\ req[t].pc = "clear"
  /\ challenge' = [challenge EXCEPT ![Store(t)][KindOf(req[t].op)] = 0]
  /\ IF req[t].ok THEN Become(t, Onward(t, "mark")) ELSE Done(t)
  /\ UNCHANGED <<rows, modes, lastStep, asked, verified, accepted>>

\* The request ends early: a statement fails, or the page is left.
Fail(t) == /\ req[t].pc # "idle"
           /\ Done(t)
           /\ UNCHANGED <<rows, redis, accepted>>

\* SESSION_VERIFIED_TTL_SECONDS are over.
SessionEnds(s, t) ==
  /\ t \in verified[s]
  /\ verified' = [verified EXCEPT ![s] = @ \ {t}]
  /\ UNCHANGED <<rows, modes, lastStep, asked, challenge, accepted, req>>

\* A replica's FailoverService turns to the other Redis: each of its commands from
\* now on goes there, those of the requests under way too.
RedisFlips(p) ==
  /\ flips < MaxFlips /\ flips' = flips + 1
  /\ \E s \in Stores \ {mode[p]} : mode' = [mode EXCEPT ![p] = s]
  /\ UNCHANGED <<rows, lastStep, asked, challenge, verified, accepted, req>>

-----------------------------------------------------------------------------
Next ==
  \/ RetireKek \/ \E p \in Pods : RedisFlips(p)
  \/ \E s \in Stores, k \in Kinds : ChallengeExpires(s, k)
  \/ \E t \in Tabs :
       \/ \E p \in Pods :
            \/ SetupPage(t, p) \/ AuthenticatorCard(t, p) \/ BiometricCard(t, p)
            \/ \E k \in Keys : Respond(t, p, k)
            \/ \E s \in app, n \in Steps :
                 SendConfirm(t, p, s, n) \/ SendChallenge(t, p, s, n) \/ SendReset(t, p, s, n)
            \/ BiometricPanel(t, p) \/ ResetByKey(t, p)
       \/ EnrollTotp(t) \/ Scan(t) \/ ReadTotp(t) \/ CheckCode(t)
       \/ RecordStep(t) \/ RefuseCode(t)
       \/ ConfirmTotp(t) \/ Rewrap(t) \/ Mark(t) \/ CheckDelete(t) \/ Delete(t)
       \/ RegisterOptions(t) \/ Register(t) \/ CountUse(t) \/ ClearChallenge(t)
       \/ (\E s \in Stores : SessionEnds(s, t)) \/ Fail(t)

Spec == Init /\ [][Next]_vars

-----------------------------------------------------------------------------
(* Properties.                                                             *)

\* One code of a time step goes through per store, of all that are sent at once,
\* to whichever endpoint and replica, however often the replicas turn from one
\* Redis to the other: recordUsedTimeStep, "to avoid a race between concurrent
\* requests using the same code".
StepAcceptedOnce == \A s \in Stores, n \in Steps : accepted[s][n] <= 1

\* Rule 11 to the letter: a code can only ever be used once.  The other store does
\* not know that it was.
NoReplay == \A n \in Steps : accepted["primary"][n] + accepted["local"][n] <= 1

\* An account that can be challenged is one the guards challenge: no method
\* works before mfaEnrolled is set (the transactions of confirmTotp and
\* webauthnRegisterVerify), whatever is deleted or enrolled in between.
MethodMeansEnrolled == Methods # {} => enrolled

\* deleteWebauthnCredential and deleteTotpCredential: a delete "never lets the
\* account end up with zero working MFA methods".
DeleteLeavesAMethod == [][\A t \in Tabs : Delete(t) => Methods' # {}]_vars

\* An enrolled account has a method to be challenged with.
NeverStranded == enrolled => Methods # {}

\* confirmTotp: the confirmed secret is one the admin has in the app.
ConfirmedIsInTheApp == totp.confirmed => totp.secret \in app

\* rewrapIfKekRetiring: only an enrolment or a delete changes the secret.
OnlyEnrollingChangesSecret ==
  [][totp'.secret # totp.secret => totp'.secret \in {0, made'}]_vars
=============================================================================
