---------------------------- MODULE SignInProofs -----------------------------
(***************************************************************************)
(* What the two components of signing in prove: MfaFactors and Accounts.   *)
(*                                                                         *)
(* MfaFactors: a time step's code goes through once per Redis store, and   *)
(* no method works before the account is enrolled, for any number of       *)
(* sessions, steps, keys, replicas and failovers.  For the first, the      *)
(* codes that went through a store are counted against the step it has:    *)
(* none did above it, whichever store a replica uses by now.               *)
(*                                                                         *)
(* Accounts: an admin's role is the one an admin gave last.  As long as an *)
(* account has no row, its metadata at Clerk, the events on their way and  *)
(* the request that created it hold at most the one admin role it was      *)
(* created with; once there is a row it is there for good, and only        *)
(* updateRole, which is the grant, makes it an admin's.  And from every    *)
(* page three redirects are enough.                                        *)
(***************************************************************************)
EXTENDS MfaFactors, Accounts, TLAPS

(* The second factors.                                                       *)

Records == [pc : {"idle", "guarded", "checked", "read", "good", "recorded",
                  "mark", "ceremony", "update", "clear"},
            op : Changes \cup Proofs \cup {"none"}, pod : Pods \cup {"none"},
            secret : 0 .. MaxSecrets, step : 0 .. MaxStep,
            retiring : BOOLEAN, key : Keys \cup {"none"},
            challenge : 0 .. MaxAsked, ok : BOOLEAN]

\* What a request stores is a secret that was made, or a key that answered, and but
\* for a page with a challenge a replica is at work on it.
Requests == {r \in Records : /\ r.pc = "checked" /\ r.op = "enroll" => r.secret # 0
                             /\ r.pc = "update" => r.key \in Keys
                             /\ r.pc \notin {"idle", "ceremony"} => r.pod \in Pods}

RowsTyped == /\ totp \in Row /\ made \in 0 .. MaxSecrets /\ app \subseteq 1 .. MaxSecrets
             /\ keys \subseteq Keys /\ enrolled \in BOOLEAN
RedisTyped == /\ mode \in [Pods -> Stores] /\ flips \in 0 .. MaxFlips
              /\ lastStep \in [Stores -> 0 .. MaxStep]
              /\ asked \in 0 .. MaxAsked
              /\ challenge \in [Stores -> [Kinds -> 0 .. MaxAsked]]
              /\ verified \in [Stores -> SUBSET Tabs]
MfaTyped == /\ RowsTyped /\ RedisTyped
            /\ req \in [Tabs -> Requests] /\ accepted \in [Stores -> [Steps -> Nat]]

\* Above the step a store has, no code has gone through it.
StepsCounted ==
  \A s \in Stores, n \in Steps : accepted[s][n] <= IF n <= lastStep[s] THEN 1 ELSE 0

FactorsEnrolled == (totp.confirmed = TRUE \/ keys # {}) => enrolled = TRUE

-----------------------------------------------------------------------------
LEMMA NoRowIsRow == NoRow \in Row /\ NoRow.confirmed = FALSE
  BY MfaAssumption DEF NoRow, Row

LEMMA IdleIsRequest == Idle \in Requests
  BY MfaAssumption, NoRowIsRow DEF Idle, Requests, Records

LEMMA MfaInit == Init => MfaTyped /\ StepsCounted /\ FactorsEnrolled
  <1> SUFFICES ASSUME Init PROVE MfaTyped /\ StepsCounted /\ FactorsEnrolled
    OBVIOUS
  <1>1. /\ totp \in Row /\ made \in 0 .. MaxSecrets /\ app \subseteq 1 .. MaxSecrets
        /\ keys \subseteq Keys
    BY NoRowIsRow, MfaAssumption DEF Init
  <1>4. enrolled \in BOOLEAN
    BY Zenon DEF Init
  <1>2. RedisTyped
    BY MfaAssumption DEF Init, RedisTyped, Stores
  <1>3. req \in [Tabs -> Requests] /\ accepted \in [Stores -> [Steps -> Nat]]
    BY IdleIsRequest DEF Init
  <1>5. MfaTyped
    BY <1>1, <1>2, <1>3, <1>4 DEF MfaTyped, RowsTyped
  <1>6. StepsCounted
    BY DEF Init, StepsCounted, Steps
  <1>7. FactorsEnrolled
    BY NoRowIsRow DEF Init, FactorsEnrolled
  <1> QED
    BY <1>5, <1>6, <1>7

\* The parts of a request, and how it takes on a new state.
LEMMA RequestMoves ==
  ASSUME MfaTyped, NEW t \in Tabs, NEW r \in Requests, Become(t, r)
  PROVE  req' \in [Tabs -> Requests]
  BY DEF MfaTyped, Become

\* The request that begins.
LEMMA BeginIsRequest ==
  ASSUME NEW op \in Changes \cup Proofs, NEW p \in Pods, NEW k \in Keys \cup {"none"},
         NEW s \in 0 .. MaxSecrets, NEW st \in 0 .. MaxStep, NEW c \in 0 .. MaxAsked
  PROVE  /\ [Idle EXCEPT !.pc = "guarded", !.op = op, !.pod = p, !.key = k] \in Requests
         /\ [Idle EXCEPT !.pc = "guarded", !.op = op, !.pod = p, !.secret = s,
                         !.step = st] \in Requests
         /\ [Idle EXCEPT !.pc = "ceremony", !.op = op, !.challenge = c] \in Requests
  BY IdleIsRequest, ZenonT(30) DEF Idle, Requests, Records

\* Where a replica is at work on a request.
LEMMA AtWork ==
  ASSUME MfaTyped, NEW t \in Tabs, req[t].pc \notin {"idle", "ceremony"}
  PROVE  req[t].pod \in Pods /\ Store(t) \in Stores
  BY DEF MfaTyped, RedisTyped, Requests, Store

LEMMA OnwardIsRequest ==
  ASSUME MfaTyped, NEW t \in Tabs, req[t].pc \notin {"idle", "ceremony"},
         NEW s \in 0 .. MaxSecrets, NEW b \in BOOLEAN
  PROVE  /\ Onward(t, "mark") \in Requests
         /\ [Onward(t, "recorded") EXCEPT !.secret = s, !.retiring = b] \in Requests
  <1>1. req[t].op \in Changes \cup Proofs \cup {"none"} /\ req[t].pod \in Pods
    BY AtWork DEF MfaTyped, Requests, Records
  <1>2. Idle \in Requests
    BY IdleIsRequest
  <1> QED
    BY <1>1, <1>2 DEF Onward, Requests, Records

\* The request's later states.
LEMMA NextIsRequest ==
  ASSUME NEW r \in Requests, r.pc # "idle"
  PROVE  /\ r.pc # "ceremony" /\ r.op # "enroll" =>
              [r EXCEPT !.pc = "checked"] \in Requests
         /\ r.pc # "ceremony" =>
              /\ \A s \in 1 .. MaxSecrets :
                   [r EXCEPT !.pc = "checked", !.secret = s] \in Requests
              /\ [r EXCEPT !.pc = "clear", !.key = "none"] \in Requests
              /\ \A ok \in BOOLEAN :
                   [r EXCEPT !.pc = "clear", !.ok = ok, !.key = "none"] \in Requests
              /\ \A b \in BOOLEAN : [r EXCEPT !.pc = "read", !.retiring = b] \in Requests
              /\ [r EXCEPT !.pc = "good"] \in Requests
         /\ [r EXCEPT !.retiring = TRUE] \in Requests
         /\ \A p \in Pods, k \in Keys :
              /\ [Idle EXCEPT !.pc = "update", !.op = r.op, !.pod = p, !.key = k] \in Requests
              /\ [Idle EXCEPT !.pc = "clear", !.op = r.op, !.pod = p] \in Requests
  <1>1. ASSUME r.pc # "ceremony", NEW s \in 1 .. MaxSecrets, NEW b \in BOOLEAN
        PROVE  /\ r.op # "enroll" => [r EXCEPT !.pc = "checked"] \in Requests
               /\ [r EXCEPT !.pc = "checked", !.secret = s] \in Requests
    <2>1. s \in 0 .. MaxSecrets /\ s # 0
      BY MfaAssumption
    <2> QED
      BY <1>1, <2>1 DEF Requests, Records
  <1>2. ASSUME r.pc # "ceremony", NEW b \in BOOLEAN
        PROVE  /\ r.op # "enroll" => [r EXCEPT !.pc = "checked"] \in Requests
               /\ [r EXCEPT !.pc = "clear", !.key = "none"] \in Requests
               /\ [r EXCEPT !.pc = "clear", !.ok = b, !.key = "none"] \in Requests
               /\ [r EXCEPT !.pc = "read", !.retiring = b] \in Requests
               /\ [r EXCEPT !.pc = "good"] \in Requests
    BY <1>2, ZenonT(30) DEF Requests, Records
  <1>3. [r EXCEPT !.retiring = TRUE] \in Requests
    BY DEF Requests, Records
  <1>4. ASSUME NEW p \in Pods, NEW k \in Keys
        PROVE  /\ [Idle EXCEPT !.pc = "update", !.op = r.op, !.pod = p, !.key = k] \in Requests
               /\ [Idle EXCEPT !.pc = "clear", !.op = r.op, !.pod = p] \in Requests
    <2>1. r.op \in Changes \cup Proofs \cup {"none"}
      BY DEF Requests, Records
    <2>2. Idle \in Requests
      BY IdleIsRequest
    <2> QED
      BY <2>1, <2>2, ZenonT(30) DEF Requests, Records
  <1> QED
    BY <1>1, <1>2, <1>3, <1>4

-----------------------------------------------------------------------------
\* What a step that only moves its own request on leaves alone.
Untouched == UNCHANGED <<rows, redis, accepted>>

LEMMA QuietKeeps ==
  ASSUME MfaTyped, NEW t \in Tabs, NEW r \in Requests, Become(t, r), Untouched
  PROVE  MfaTyped'
  <1>1. req' \in [Tabs -> Requests]
    BY RequestMoves
  <1>2. RowsTyped' /\ RedisTyped' /\ accepted' \in [Stores -> [Steps -> Nat]]
    BY DEF MfaTyped, RowsTyped, RedisTyped, Untouched, rows, redis, modes
  <1> QED
    BY <1>1, <1>2 DEF MfaTyped

LEMMA SendTypes ==
  ASSUME MfaTyped, NEW t \in Tabs, NEW p \in Pods,
         \/ SetupPage(t, p) \/ AuthenticatorCard(t, p) \/ BiometricCard(t, p)
         \/ \E s \in app, n \in Steps :
              SendConfirm(t, p, s, n) \/ SendChallenge(t, p, s, n) \/ SendReset(t, p, s, n)
  PROVE  MfaTyped'
  <1>1. ASSUME NEW op \in Changes, NEW k \in Keys \cup {"none"}, SendChange(t, p, op, k)
        PROVE  MfaTyped'
    <2>1. 0 \in 0 .. MaxSecrets /\ 0 \in 0 .. MaxStep /\ 0 \in 0 .. MaxAsked
      BY MfaAssumption
    <2>2. [Idle EXCEPT !.pc = "guarded", !.op = op, !.pod = p, !.key = k] \in Requests
      BY <2>1, BeginIsRequest
    <2> QED
      BY <1>1, <2>2, QuietKeeps DEF SendChange, Untouched
  <1>2. ASSUME NEW op \in Changes \cup Proofs, NEW s \in app, NEW n \in Steps,
               SendCode(t, p, op, s, n)
        PROVE  MfaTyped'
    <2>1. s \in 0 .. MaxSecrets /\ n \in 0 .. MaxStep /\ 0 \in 0 .. MaxAsked
      BY MfaAssumption DEF MfaTyped, RowsTyped, Steps
    <2>2. [Idle EXCEPT !.pc = "guarded", !.op = op, !.pod = p, !.secret = s,
                       !.step = n] \in Requests
      BY <2>1, BeginIsRequest
    <2> QED
      BY <1>2, <2>2, QuietKeeps DEF SendCode, Untouched
  <1>3. {"enroll", "register", "delTotp", "delKey", "confirm"} \subseteq Changes
        /\ {"challengeTotp", "resetTotp"} \subseteq Proofs
    BY DEF Changes, Proofs
  <1> QED
    BY <1>1, <1>2, <1>3
    DEF SetupPage, AuthenticatorCard, BiometricCard, SendConfirm, SendChallenge, SendReset

\* The steps that only move a request on.
LEMMA StepTypes ==
  ASSUME MfaTyped, NEW t \in Tabs,
         \/ ReadTotp(t) \/ CheckCode(t) \/ RefuseCode(t) \/ CheckDelete(t) \/ CountUse(t)
         \/ Fail(t) \/ \E p \in Pods, k \in Keys : Respond(t, p, k)
  PROVE  MfaTyped'
  <1>1. req[t] \in Requests /\ totp \in Row
    BY DEF MfaTyped, RowsTyped
  <1>2. CASE ReadTotp(t)
    <2>1. \E b \in BOOLEAN : b = (req[t].op # "confirm" /\ totp.retiring)
      BY Zenon
    <2>2. PICK b \in BOOLEAN : b = (req[t].op # "confirm" /\ totp.retiring)
      BY <2>1
    <2>3. [req[t] EXCEPT !.pc = "read", !.retiring = b] \in Requests
      BY <1>1, <1>2, NextIsRequest DEF ReadTotp, At
    <2>4. Become(t, [req[t] EXCEPT !.pc = "read", !.retiring = b]) /\ Untouched
      BY <1>2, <2>2 DEF ReadTotp, Untouched
    <2> QED
      BY <2>3, <2>4, QuietKeeps
  <1>3. CASE CheckCode(t)
    BY <1>1, <1>3, NextIsRequest, QuietKeeps DEF CheckCode, Untouched
  <1>4. CASE RefuseCode(t) \/ Fail(t)
    BY <1>4, IdleIsRequest, QuietKeeps DEF RefuseCode, Fail, Done, Untouched
  <1>5. CASE CheckDelete(t)
    <2>1. /\ \/ Become(t, [req[t] EXCEPT !.pc = "checked"])
             \/ Become(t, Idle)
          /\ req[t].op # "enroll" /\ req[t].pc = "guarded"
      BY <1>5 DEF CheckDelete, Done, At
    <2> QED
      BY <1>1, <1>5, <2>1, IdleIsRequest, NextIsRequest, QuietKeeps
      DEF CheckDelete, Untouched
  <1>6. CASE CountUse(t)
    <2>1. (req[t].key \in keys) \in BOOLEAN
      OBVIOUS
    <2> QED
      BY <1>1, <1>6, <2>1, NextIsRequest, QuietKeeps DEF CountUse, Untouched, At
  <1>7. ASSUME NEW p \in Pods, NEW k \in Keys, Respond(t, p, k)
        PROVE  MfaTyped'
    <2>1. \/ Become(t, [Idle EXCEPT !.pc = "update", !.op = req[t].op, !.pod = p, !.key = k])
          \/ Become(t, [Idle EXCEPT !.pc = "clear", !.op = req[t].op, !.pod = p])
          \/ Become(t, Idle)
      BY <1>7 DEF Respond, Done
    <2>2. req[t].pc # "idle"
      BY <1>7 DEF Respond
    <2> QED
      BY <1>1, <1>7, <2>1, <2>2, IdleIsRequest, NextIsRequest, QuietKeeps
      DEF Respond, Untouched
  <1> QED
    BY <1>2, <1>3, <1>4, <1>5, <1>6, <1>7

\* The steps that change the rows.
LEMMA RowTypes ==
  ASSUME MfaTyped, NEW t \in Tabs,
         EnrollTotp(t) \/ Scan(t) \/ ConfirmTotp(t) \/ Rewrap(t) \/ Delete(t) \/ Register(t)
  PROVE  MfaTyped'
  <1>1. /\ req[t] \in Requests /\ RowsTyped /\ RedisTyped
        /\ req \in [Tabs -> Requests] /\ accepted \in [Stores -> [Steps -> Nat]]
    BY DEF MfaTyped
  <1>2. RedisTyped' /\ accepted' \in [Stores -> [Steps -> Nat]]
    BY <1>1
    DEF EnrollTotp, Scan, ConfirmTotp, Rewrap, Delete, Register, redis, modes, RedisTyped
  <1>3. req' \in [Tabs -> Requests]
    <2>1. CASE EnrollTotp(t)
      <3>1. made + 1 \in 1 .. MaxSecrets
        BY <1>1, <2>1, MfaAssumption DEF EnrollTotp, RowsTyped
      <3> QED
        BY <1>1, <2>1, <3>1, NextIsRequest, RequestMoves DEF EnrollTotp, At
    <2>2. CASE Rewrap(t)
      <3>1. Become(t, Idle) \/ Become(t, Onward(t, "mark"))
        BY <2>2 DEF Rewrap, Done
      <3>2. Onward(t, "mark") \in Requests
        <4>1. req[t].pc \notin {"idle", "ceremony"} /\ 0 \in 0 .. MaxSecrets
          BY <2>2, MfaAssumption DEF Rewrap, At
        <4> QED
          BY <4>1, OnwardIsRequest
      <3> QED
        BY <1>1, <3>1, <3>2, IdleIsRequest, RequestMoves
    <2>3. CASE Register(t)
      BY <1>1, <2>3, NextIsRequest, RequestMoves DEF Register, At
    <2>4. CASE Scan(t) \/ ConfirmTotp(t) \/ Delete(t)
      BY <2>4, IdleIsRequest, RequestMoves DEF Scan, ConfirmTotp, Delete, Done
    <2> QED
      BY <2>1, <2>2, <2>3, <2>4
  <1>4. RowsTyped'
    <2>1. CASE EnrollTotp(t)
      <3>1. made + 1 \in 1 .. MaxSecrets
        BY <1>1, <2>1, MfaAssumption DEF EnrollTotp, RowsTyped
      <3> QED
        BY <1>1, <2>1, <3>1 DEF EnrollTotp, RowsTyped, Row
    <2>2. CASE Scan(t)
      <3>1. req[t].secret \in 1 .. MaxSecrets
        BY <1>1, <2>2, MfaAssumption DEF Scan, Requests, Records, At
      <3> QED
        BY <1>1, <2>2, <3>1 DEF Scan, RowsTyped
    <2>3. CASE ConfirmTotp(t)
      BY <1>1, <2>3 DEF ConfirmTotp, RowsTyped, Row
    <2>4. CASE Rewrap(t)
      BY <1>1, <2>4 DEF Rewrap, RowsTyped, Row, Requests, Records, rows
    <2>5. CASE Delete(t)
      BY <1>1, <2>5, NoRowIsRow DEF Delete, RowsTyped
    <2>6. CASE Register(t)
      BY <1>1, <2>6 DEF Register, RowsTyped, Requests, Records, At
    <2> QED
      BY <2>1, <2>2, <2>3, <2>4, <2>5, <2>6
  <1> QED
    BY <1>2, <1>3, <1>4 DEF MfaTyped

\* A code goes through: its step is one of the steps, and above what the store has.
LEMMA RecordGives ==
  ASSUME MfaTyped, NEW t \in Tabs, RecordStep(t)
  PROVE  \E s \in Stores, n \in Steps :
           /\ n > lastStep[s] /\ lastStep' = [lastStep EXCEPT ![s] = n]
           /\ accepted' = [accepted EXCEPT ![s][n] = @ + 1]
  <1>1. Store(t) \in Stores /\ req[t].step \in 0 .. MaxStep
    BY AtWork DEF RecordStep, MfaTyped, Requests, Records
  <1>2. lastStep[Store(t)] \in 0 .. MaxStep /\ req[t].step > lastStep[Store(t)]
    BY <1>1 DEF RecordStep, MfaTyped, RedisTyped
  <1>3. req[t].step \in Steps
    BY <1>1, <1>2, MfaAssumption DEF Steps
  <1> QED
    BY <1>1, <1>2, <1>3 DEF RecordStep, Accept

LEMMA RecordTypes ==
  ASSUME MfaTyped, NEW t \in Tabs, RecordStep(t)
  PROVE  MfaTyped'
  <1>1. PICK s \in Stores, n \in Steps :
           /\ n > lastStep[s] /\ lastStep' = [lastStep EXCEPT ![s] = n]
           /\ accepted' = [accepted EXCEPT ![s][n] = @ + 1]
    BY RecordGives
  <1>2. RowsTyped'
    BY DEF RecordStep, Accept, rows, MfaTyped, RowsTyped
  <1>3. RedisTyped'
    <2>1. n \in 0 .. MaxStep
      BY MfaAssumption DEF Steps
    <2>2. lastStep' \in [Stores -> 0 .. MaxStep]
      BY <1>1, <2>1 DEF MfaTyped, RedisTyped
    <2> QED
      BY <2>2 DEF RecordStep, Accept, modes, MfaTyped, RedisTyped
  <1>4. accepted' \in [Stores -> [Steps -> Nat]]
    <2>1. accepted \in [Stores -> [Steps -> Nat]]
      BY DEF MfaTyped
    <2>2. accepted[s] \in [Steps -> Nat] /\ accepted[s][n] + 1 \in Nat
      BY <2>1
    <2>3. [accepted[s] EXCEPT ![n] = accepted[s][n] + 1] \in [Steps -> Nat]
      BY <2>2
    <2>4. accepted' = [accepted EXCEPT ![s] = [accepted[s] EXCEPT ![n] = accepted[s][n] + 1]]
      BY <1>1
    <2> QED
      BY <2>1, <2>3, <2>4
  <1>5. req' \in [Tabs -> Requests]
    <2>1. /\ req[t].secret \in 0 .. MaxSecrets /\ req[t].retiring \in BOOLEAN
          /\ req[t].pc = "good"
      BY DEF RecordStep, MfaTyped, Requests, Records
    <2>2. [Onward(t, "recorded") EXCEPT !.secret = req[t].secret,
                                        !.retiring = req[t].retiring] \in Requests
      BY <2>1, OnwardIsRequest
    <2> QED
      BY <2>2, RequestMoves DEF RecordStep, Accept
  <1> QED
    BY <1>2, <1>3, <1>4, <1>5 DEF MfaTyped

\* The other steps that change what a store holds.
LEMMA AskTypes ==
  ASSUME MfaTyped, NEW t \in Tabs, NEW s \in Stores, NEW op \in Changes \cup Proofs,
         Ask(t, s, op)
  PROVE  MfaTyped'
  <1>1. asked + 1 \in 0 .. MaxAsked
    BY MfaAssumption DEF Ask, MfaTyped, RedisTyped
  <1>2. KindOf(op) \in Kinds
    BY DEF KindOf, Kinds
  <1>3. challenge' \in [Stores -> [Kinds -> 0 .. MaxAsked]]
    <2>1. challenge \in [Stores -> [Kinds -> 0 .. MaxAsked]]
      BY DEF MfaTyped, RedisTyped
    <2>2. challenge' = [challenge EXCEPT ![s] = [challenge[s] EXCEPT ![KindOf(op)] = asked + 1]]
      BY DEF Ask
    <2>3. [challenge[s] EXCEPT ![KindOf(op)] = asked + 1] \in [Kinds -> 0 .. MaxAsked]
      BY <1>1, <1>2, <2>1
    <2> QED
      BY <2>1, <2>2, <2>3
  <1>4. RedisTyped'
    BY <1>1, <1>3 DEF Ask, modes, MfaTyped, RedisTyped
  <1>5. RowsTyped' /\ accepted' \in [Stores -> [Steps -> Nat]]
    BY DEF Ask, rows, MfaTyped, RowsTyped
  <1>6. req' \in [Tabs -> Requests]
    <2>1. [Idle EXCEPT !.pc = "ceremony", !.op = op, !.challenge = asked + 1] \in Requests
      BY <1>1, IdleIsRequest DEF Idle, Requests, Records
    <2> QED
      BY <2>1, RequestMoves DEF Ask
  <1> QED
    BY <1>4, <1>5, <1>6 DEF MfaTyped

LEMMA RedisTypes ==
  ASSUME MfaTyped, NEW t \in Tabs,
         \/ RegisterOptions(t) \/ Mark(t) \/ ClearChallenge(t)
         \/ \E p \in Pods : BiometricPanel(t, p) \/ ResetByKey(t, p)
         \/ \E s \in Stores : SessionEnds(s, t)
  PROVE  MfaTyped'
  <1>1. /\ req[t] \in Requests /\ RowsTyped /\ RedisTyped
        /\ req \in [Tabs -> Requests] /\ accepted \in [Stores -> [Steps -> Nat]]
    BY DEF MfaTyped
  <1>2. CASE RegisterOptions(t)
    <2>1. Store(t) \in Stores /\ "register" \in Changes
      BY <1>2, AtWork DEF RegisterOptions, At, Changes
    <2> QED
      BY <1>2, <2>1, AskTypes DEF RegisterOptions
  <1>3. ASSUME NEW p \in Pods, BiometricPanel(t, p) \/ ResetByKey(t, p)
        PROVE  MfaTyped'
    <2>1. mode[p] \in Stores /\ {"challengeKey", "resetKey"} \subseteq Proofs
      BY <1>1 DEF RedisTyped, Proofs
    <2> QED
      BY <1>3, <2>1, AskTypes DEF BiometricPanel, ResetByKey, AuthOptions
  <1>4. CASE Mark(t)
    <2>1. verified' \in [Stores -> SUBSET Tabs]
      <3>1. Store(t) \in Stores /\ verified \in [Stores -> SUBSET Tabs]
        BY <1>1, <1>4, AtWork DEF Mark, RedisTyped
      <3> QED
        BY <1>4, <3>1 DEF Mark
    <2>2. RedisTyped' /\ RowsTyped' /\ accepted' \in [Stores -> [Steps -> Nat]]
      BY <1>1, <1>4, <2>1 DEF Mark, rows, modes, RedisTyped, RowsTyped
    <2>3. req' \in [Tabs -> Requests]
      BY <1>4, IdleIsRequest, RequestMoves DEF Mark, Done
    <2> QED
      BY <2>2, <2>3 DEF MfaTyped
  <1>5. CASE ClearChallenge(t)
    <2>1. challenge' \in [Stores -> [Kinds -> 0 .. MaxAsked]]
      <3> DEFINE k == KindOf(req[t].op)
      <3>1. /\ Store(t) \in Stores /\ k \in Kinds /\ 0 \in 0 .. MaxAsked
            /\ challenge \in [Stores -> [Kinds -> 0 .. MaxAsked]]
        BY <1>1, <1>5, AtWork, MfaAssumption DEF ClearChallenge, RedisTyped, KindOf, Kinds
      <3>2. challenge' = [challenge EXCEPT ![Store(t)] =
                            [challenge[Store(t)] EXCEPT ![k] = 0]]
        BY <1>5 DEF ClearChallenge
      <3> HIDE DEF k
      <3>3. [challenge[Store(t)] EXCEPT ![k] = 0] \in [Kinds -> 0 .. MaxAsked]
        BY <3>1
      <3> QED
        BY <3>1, <3>2, <3>3
    <2>2. RedisTyped' /\ RowsTyped' /\ accepted' \in [Stores -> [Steps -> Nat]]
      BY <1>1, <1>5, <2>1 DEF ClearChallenge, rows, modes, RedisTyped, RowsTyped
    <2>3. Onward(t, "mark") \in Requests
      <3>1. req[t].pc \notin {"idle", "ceremony"} /\ 0 \in 0 .. MaxSecrets
        BY <1>5, MfaAssumption DEF ClearChallenge
      <3> QED
        BY <3>1, OnwardIsRequest
    <2>4. req' \in [Tabs -> Requests]
      BY <1>5, <2>3, IdleIsRequest, RequestMoves DEF ClearChallenge, Done
    <2> QED
      BY <2>2, <2>4 DEF MfaTyped
  <1>6. ASSUME NEW s \in Stores, SessionEnds(s, t)
        PROVE  MfaTyped'
    <2>1. verified' \in [Stores -> SUBSET Tabs]
      BY <1>1, <1>6 DEF SessionEnds, RedisTyped
    <2> QED
      BY <1>1, <1>6, <2>1 DEF SessionEnds, rows, modes, MfaTyped, RedisTyped, RowsTyped
  <1> QED
    BY <1>2, <1>3, <1>4, <1>5, <1>6

\* The steps of no session.
LEMMA RetireTypes ==
  ASSUME MfaTyped, RetireKek
  PROVE  MfaTyped'
  <1>1. RedisTyped' /\ accepted' \in [Stores -> [Steps -> Nat]]
    BY DEF RetireKek, redis, modes, MfaTyped, RedisTyped
  <1>2. RowsTyped'
    <2>1. totp \in Row
      BY DEF MfaTyped, RowsTyped
    <2>2. \E b \in BOOLEAN : b = (totp.secret # 0)
      BY Zenon
    <2>3. PICK b \in BOOLEAN : b = (totp.secret # 0)
      BY <2>2
    <2>4. totp' = [totp EXCEPT !.retiring = b]
      BY <2>3 DEF RetireKek
    <2>5. totp' \in Row
      BY <2>1, <2>4 DEF Row
    <2> QED
      BY <2>5 DEF RetireKek, MfaTyped, RowsTyped
  <1>3. req' \in [Tabs -> Requests]
    <2> SUFFICES ASSUME NEW t \in Tabs
                 PROVE  (IF HasKey(t) THEN [req[t] EXCEPT !.retiring = TRUE] ELSE req[t])
                          \in Requests
      BY DEF RetireKek
    <2>1. req[t] \in Requests /\ (HasKey(t) => req[t].pc # "idle")
      BY DEF MfaTyped, HasKey
    <2> QED
      BY <2>1, NextIsRequest
  <1> QED
    BY <1>1, <1>2, <1>3 DEF MfaTyped

LEMMA OtherTypes ==
  ASSUME MfaTyped, \/ UNCHANGED vars \/ \E p \in Pods : RedisFlips(p)
                   \/ \E s \in Stores, k \in Kinds : ChallengeExpires(s, k)
  PROVE  MfaTyped'
  <1>1. ASSUME NEW p \in Pods, RedisFlips(p)
        PROVE  MfaTyped'
    <2>1. mode' \in [Pods -> Stores] /\ flips' \in 0 .. MaxFlips
      BY <1>1, MfaAssumption DEF RedisFlips, MfaTyped, RedisTyped
    <2> QED
      BY <1>1, <2>1 DEF RedisFlips, rows, MfaTyped, RowsTyped, RedisTyped
  <1>2. ASSUME NEW s \in Stores, NEW k \in Kinds, ChallengeExpires(s, k)
        PROVE  MfaTyped'
    <2>1. challenge \in [Stores -> [Kinds -> 0 .. MaxAsked]] /\ 0 \in 0 .. MaxAsked
      BY MfaAssumption DEF MfaTyped, RedisTyped
    <2>2. challenge' = [challenge EXCEPT ![s] = [challenge[s] EXCEPT ![k] = 0]]
      BY <1>2 DEF ChallengeExpires
    <2>3. [challenge[s] EXCEPT ![k] = 0] \in [Kinds -> 0 .. MaxAsked]
      BY <2>1
    <2>4. challenge' \in [Stores -> [Kinds -> 0 .. MaxAsked]]
      BY <2>1, <2>2, <2>3
    <2> QED
      BY <1>2, <2>4 DEF ChallengeExpires, rows, modes, MfaTyped, RowsTyped, RedisTyped
  <1>3. CASE UNCHANGED vars
    BY <1>3 DEF vars, MfaTyped, RowsTyped, RedisTyped
  <1> QED
    BY <1>1, <1>2, <1>3

LEMMA MfaTypesKept ==
  ASSUME MfaTyped, [Next]_vars
  PROVE  MfaTyped'
  BY SendTypes, StepTypes, RowTypes, RecordTypes, RedisTypes, RetireTypes, OtherTypes DEF Next

\* The rows, Redis and the requests of an admin keep their types (MfaService), for any
\* number of sessions, secrets, steps and replicas.
THEOREM MfaTypeCorrect == Spec => []TypeOK
  <1>1. Init => MfaTyped
    BY MfaInit
  <1>2. MfaTyped => TypeOK
    BY DEF MfaTyped, RowsTyped, RedisTyped, Requests, Records, TypeOK
  <1> QED
    BY <1>1, <1>2, MfaTypesKept, PTL DEF Spec

-----------------------------------------------------------------------------
\* What the steps other than the one that records a code leave alone.
LEMMA OtherSteps ==
  ASSUME [Next]_vars, ~ \E t \in Tabs : RecordStep(t)
  PROVE  UNCHANGED <<accepted, lastStep>>
  <1>1. CASE RetireKek \/ UNCHANGED vars \/ (\E p \in Pods : RedisFlips(p))
             \/ \E s \in Stores, k \in Kinds : ChallengeExpires(s, k)
    BY <1>1 DEF RetireKek, RedisFlips, ChallengeExpires, vars, redis, modes
  <1>2. ASSUME NEW t \in Tabs, NEW p \in Pods,
               \/ SetupPage(t, p) \/ AuthenticatorCard(t, p) \/ BiometricCard(t, p)
               \/ \E k \in Keys : Respond(t, p, k)
               \/ \E s \in app, n \in Steps :
                    SendConfirm(t, p, s, n) \/ SendChallenge(t, p, s, n) \/ SendReset(t, p, s, n)
               \/ BiometricPanel(t, p) \/ ResetByKey(t, p)
        PROVE  UNCHANGED <<accepted, lastStep>>
    BY <1>2
    DEF SetupPage, AuthenticatorCard, BiometricCard, SendChange, SendCode, SendConfirm,
        SendChallenge, SendReset, Respond, BiometricPanel, ResetByKey, AuthOptions, Ask, redis
  <1>3. ASSUME NEW t \in Tabs,
               \/ EnrollTotp(t) \/ Scan(t) \/ ReadTotp(t) \/ CheckCode(t) \/ RefuseCode(t)
               \/ ConfirmTotp(t) \/ Rewrap(t) \/ Mark(t) \/ CheckDelete(t) \/ Delete(t)
               \/ RegisterOptions(t) \/ Register(t) \/ CountUse(t) \/ ClearChallenge(t)
               \/ (\E s \in Stores : SessionEnds(s, t)) \/ Fail(t)
        PROVE  UNCHANGED <<accepted, lastStep>>
    BY <1>3
    DEF EnrollTotp, Scan, ReadTotp, CheckCode, RefuseCode, ConfirmTotp, Rewrap, Mark,
        CheckDelete, Delete, RegisterOptions, Ask, Register, CountUse, ClearChallenge,
        SessionEnds, Fail, redis
  <1> QED
    BY <1>1, <1>2, <1>3 DEF Next

\* recordUsedTimeStep counts a code only above the store's step, which it raises; no
\* other step touches either, whichever store its replica has turned to.
LEMMA CountsKept ==
  ASSUME MfaTyped, StepsCounted, [Next]_vars
  PROVE  StepsCounted'
  <1>1. ASSUME NEW t \in Tabs, RecordStep(t)
        PROVE  StepsCounted'
    <2>1. PICK s \in Stores, n \in Steps :
             /\ n > lastStep[s] /\ lastStep' = [lastStep EXCEPT ![s] = n]
             /\ accepted' = [accepted EXCEPT ![s][n] = @ + 1]
      BY <1>1, RecordGives
    <2>2. /\ lastStep \in [Stores -> 0 .. MaxStep]
          /\ accepted \in [Stores -> [Steps -> Nat]] /\ MaxStep \in Nat
      BY MfaAssumption DEF MfaTyped, RedisTyped
    <2> SUFFICES ASSUME NEW st \in Stores, NEW m \in Steps
                 PROVE  accepted'[st][m] <= IF m <= lastStep'[st] THEN 1 ELSE 0
      BY DEF StepsCounted
    <2>3. /\ m \in Nat /\ n \in Nat /\ lastStep[st] \in Nat /\ accepted[st][m] \in Nat
          /\ accepted[st][m] <= IF m <= lastStep[st] THEN 1 ELSE 0
      BY <2>2 DEF StepsCounted, Steps
    <2>4. CASE st # s
      BY <2>1, <2>2, <2>3, <2>4
    <2>5. CASE st = s /\ m # n
      BY <2>1, <2>2, <2>3, <2>5
    <2>6. CASE st = s /\ m = n
      BY <2>1, <2>2, <2>3, <2>6
    <2> QED
      BY <2>4, <2>5, <2>6
  <1>2. CASE UNCHANGED <<accepted, lastStep>>
    BY <1>2 DEF StepsCounted
  <1>3. ASSUME ~ \E t \in Tabs : RecordStep(t)
        PROVE  UNCHANGED <<accepted, lastStep>>
    BY <1>3, OtherSteps
  <1> QED
    BY <1>1, <1>2, <1>3

\* Of all requests that send one code, to whichever endpoint and replica, one is let
\* through per Redis store (recordUsedTimeStep), for any number of sessions, steps and
\* failovers there and back.
THEOREM CodeAcceptedOnce == Spec => []StepAcceptedOnce
  <1>1. Init => MfaTyped /\ StepsCounted
    BY MfaInit
  <1>2. MfaTyped /\ StepsCounted => StepAcceptedOnce
    BY MfaAssumption DEF MfaTyped, RedisTyped, StepsCounted, StepAcceptedOnce, Steps
  <1> QED
    BY <1>1, <1>2, MfaTypesKept, CountsKept, PTL DEF Spec

-----------------------------------------------------------------------------
\* A method appears only in the transaction that enrols the account.
LEMMA FactorsKept ==
  ASSUME MfaTyped, FactorsEnrolled, [Next]_vars
  PROVE  FactorsEnrolled'
  <1>1. totp \in Row
    BY DEF MfaTyped, RowsTyped
  <1>2. ASSUME NEW t \in Tabs, Rewrap(t)
        PROVE  FactorsEnrolled'
    <2>1. totp'.confirmed = totp.confirmed /\ UNCHANGED <<keys, enrolled>>
      BY <1>1, <1>2 DEF Rewrap, Row
    <2> QED
      BY <2>1 DEF FactorsEnrolled
  <1>3. CASE RetireKek
    <2>1. totp'.confirmed = totp.confirmed /\ UNCHANGED <<keys, enrolled>>
      BY <1>1, <1>3 DEF RetireKek, Row
    <2> QED
      BY <2>1 DEF FactorsEnrolled
  <1>4. ASSUME NEW t \in Tabs, EnrollTotp(t) \/ ConfirmTotp(t) \/ Delete(t) \/ Register(t)
        PROVE  FactorsEnrolled'
    <2>1. CASE EnrollTotp(t)
      <3>1. totp'.confirmed = FALSE /\ UNCHANGED <<keys, enrolled>>
        BY <2>1 DEF EnrollTotp
      <3> QED
        BY <3>1 DEF FactorsEnrolled
    <2>2. CASE ConfirmTotp(t)
      <3>1. enrolled' = TRUE \/ UNCHANGED <<totp, keys, enrolled>>
        BY <2>2 DEF ConfirmTotp
      <3> QED
        BY <3>1 DEF FactorsEnrolled
    <2>3. CASE Delete(t)
      <3>1. /\ totp'.confirmed = FALSE \/ totp' = totp
            /\ keys' \subseteq keys /\ enrolled' = enrolled
        BY <2>3, NoRowIsRow DEF Delete
      <3> QED
        BY <3>1 DEF FactorsEnrolled
    <2>4. CASE Register(t)
      <3>1. totp' = totp /\ (enrolled' = TRUE \/ UNCHANGED <<keys, enrolled>>)
        <4>1. CASE req[t].key \in keys
          BY <2>4, <4>1 DEF Register
        <4>2. CASE req[t].key \notin keys
          BY <2>4, <4>2 DEF Register
        <4> QED
          BY <4>1, <4>2
      <3> QED
        BY <3>1 DEF FactorsEnrolled
    <2> QED
      BY <1>4, <2>1, <2>2, <2>3, <2>4
  <1>5. CASE UNCHANGED <<totp, keys, enrolled>>
    BY <1>5 DEF FactorsEnrolled
  <1>6. CASE UNCHANGED vars \/ (\E p \in Pods : RedisFlips(p))
             \/ \E s \in Stores, k \in Kinds : ChallengeExpires(s, k)
    BY <1>5, <1>6 DEF vars, RedisFlips, ChallengeExpires, rows
  <1>7. ASSUME NEW t \in Tabs, NEW p \in Pods,
               \/ SetupPage(t, p) \/ AuthenticatorCard(t, p) \/ BiometricCard(t, p)
               \/ \E k \in Keys : Respond(t, p, k)
               \/ \E s \in app, n \in Steps :
                    SendConfirm(t, p, s, n) \/ SendChallenge(t, p, s, n) \/ SendReset(t, p, s, n)
               \/ BiometricPanel(t, p) \/ ResetByKey(t, p)
        PROVE  FactorsEnrolled'
    BY <1>5, <1>7
    DEF SetupPage, AuthenticatorCard, BiometricCard, SendChange, SendCode, SendConfirm,
        SendChallenge, SendReset, Respond, BiometricPanel, ResetByKey, AuthOptions, Ask, rows
  <1>8. ASSUME NEW t \in Tabs,
               \/ Scan(t) \/ ReadTotp(t) \/ CheckCode(t) \/ RecordStep(t) \/ RefuseCode(t)
               \/ Mark(t) \/ CheckDelete(t) \/ RegisterOptions(t) \/ CountUse(t)
               \/ ClearChallenge(t) \/ (\E s \in Stores : SessionEnds(s, t)) \/ Fail(t)
        PROVE  FactorsEnrolled'
    BY <1>5, <1>8
    DEF Scan, ReadTotp, CheckCode, RecordStep, Accept, RefuseCode, Mark, CheckDelete,
        RegisterOptions, Ask, CountUse, ClearChallenge, SessionEnds, Fail, rows
  <1> QED
    BY <1>2, <1>3, <1>4, <1>6, <1>7, <1>8 DEF Next

\* An account with a method is one the guards challenge, whatever is enrolled,
\* confirmed, re-wrapped or deleted in between (confirmTotp, webauthnRegisterVerify).
THEOREM MethodsAreChallenged == Spec => []MethodMeansEnrolled
  <1>1. Init => MfaTyped /\ FactorsEnrolled
    BY MfaInit
  <1>2. MfaTyped /\ FactorsEnrolled => MethodMeansEnrolled
    BY DEF MfaTyped, RowsTyped, Row, FactorsEnrolled, MethodMeansEnrolled, Methods
  <1> QED
    BY <1>1, <1>2, MfaTypesKept, FactorsKept, PTL DEF Spec

-----------------------------------------------------------------------------
(* Accounts.                                                                 *)

AdminRequesters == Admins \cup Supers
HasAccount(u) == clerk[u].live # "no"

\* A request names an account; it is about one with a row, or creates one and
\* has given it the role that Clerk holds.
AdminOK(r) == r.pc # "idle" =>
  /\ r.user \in Users
  /\ r.op \in {"create", "role"} => r.role \in Roles
  /\ r.op # "create" => HasRow(r.user)
  /\ r.op = "create" /\ r.pc \in {"second", "undo"} =>
       HasAccount(r.user) /\ (~ HasRow(r.user) => granted[r.user] = r.role)
AdminsSound == \A a \in AdminRequesters : AdminOK(admin[a])

TabOK(r) == r.pc # "idle" =>
  /\ r.user \in Users /\ HasAccount(r.user)
  /\ r.pc \in {"in", "second"} => HasRow(r.user)
TabsSound == \A t \in Browsers : TabOK(tab[t])

\* As long as there is no row, Clerk and its events know no admin role but the
\* one the account was created with.
MetaSound == \A u \in Users :
  /\ ~ HasAccount(u) => clerk[u].meta = "none" /\ ~ HasRow(u)
  /\ ~ HasRow(u) /\ clerk[u].meta \in AdminRoles => granted[u] = clerk[u].meta
EventsSound == \A e \in events :
  /\ HasAccount(e.user)
  /\ ~ HasRow(e.user) /\ e.meta \in AdminRoles => granted[e.user] = e.meta

AccountsInv == /\ AccountsTypeOK /\ AdminsSound /\ TabsSound
               /\ MetaSound /\ EventsSound /\ AdminsAreGranted

\* Rows stay rows, accounts stay known, and a role granted before there is a
\* row stays the role granted.
Forward == \A u \in Users :
  /\ HasRow(u) => HasRow(u)'
  /\ HasAccount(u) => HasAccount(u)'
  /\ HasAccount(u) /\ ~ HasRow(u) => HasRow(u)' \/ granted'[u] = granted[u]

-----------------------------------------------------------------------------
LEMMA RoleFacts == /\ AdminRoles \subseteq Roles /\ "none" \notin Roles
                   /\ Picks \subseteq Roles /\ "client" \in Roles /\ "candidate" \in Roles
                   /\ "client" \notin AdminRoles /\ "candidate" \notin AdminRoles
                   /\ "none" \notin AdminRoles
  BY AccountsAssumption DEF AdminRoles, Roles

LEMMA IdleFacts == /\ IdleAdmin \in AdminRequests /\ IdleAdmin.pc = "idle"
                   /\ IdleTab \in TabRequests /\ IdleTab.pc = "idle"
                   /\ NoUser \in UserRow /\ NoUser.role = "none"
  BY DEF IdleAdmin, IdleTab, NoUser, AdminRequests, TabRequests, UserRow

LEMMA AccountsInitInv == AccountsInit => AccountsInv
  <1> SUFFICES ASSUME AccountsInit PROVE AccountsInv
    OBVIOUS
  <1> USE IdleFacts, RoleFacts
  <1>1. /\ clerk \in [Users -> Clerks] /\ row \in [Users -> UserRow]
        /\ applied = {} /\ events = {}
    BY DEF AccountsInit, Clerks
  <1>2. /\ admin \in [AdminRequesters -> AdminRequests]
        /\ tab \in [Browsers -> TabRequests]
        /\ mfa \in [Users -> [enrolled : BOOLEAN, verified : BOOLEAN]]
        /\ granted \in [Users -> Roles \cup {"none"}] /\ signup \in [Users -> Forms]
    BY DEF AccountsInit, AdminRequesters, Forms
  <1>3. AccountsTypeOK
    BY <1>1, <1>2 DEF AccountsTypeOK, AdminRequesters
  <1>4. AdminsSound /\ TabsSound
    BY DEF AccountsInit, AdminsSound, TabsSound, AdminOK, TabOK, AdminRequesters
  <1>5. MetaSound /\ EventsSound /\ AdminsAreGranted
    BY DEF AccountsInit, MetaSound, EventsSound, AdminsAreGranted, HasAccount, HasRow
  <1> QED
    BY <1>3, <1>4, <1>5 DEF AccountsInv

\* The admins' requests.
LEMMA AdminOKStays ==
  ASSUME Forward, NEW r, AdminOK(r)
  PROVE  AdminOK(r)'
  BY DEF Forward, AdminOK

LEMMA AdminsStay ==
  ASSUME AccountsInv, Forward, UNCHANGED admin
  PROVE  AdminsSound'
  <1> SUFFICES ASSUME NEW a \in AdminRequesters PROVE AdminOK(admin[a])'
    BY DEF AdminsSound
  <1>1. PICK r : r = admin[a]
    OBVIOUS
  <1>2. AdminOK(r) /\ r = admin'[a]
    BY <1>1 DEF AccountsInv, AdminsSound
  <1>3. AdminOK(r)'
    BY <1>2, AdminOKStays
  <1> QED
    BY <1>2, <1>3 DEF AdminOK

LEMMA AdminTakes ==
  ASSUME AccountsInv, Forward, NEW a \in AdminRequesters, NEW s \in AdminRequests,
         AdminStep(a, s), AdminOK(s)'
  PROVE  admin' \in [Admins \cup Supers -> AdminRequests] /\ AdminsSound'
  <1>1. /\ admin' \in [AdminRequesters -> AdminRequests] /\ admin'[a] = s
        /\ \A b \in AdminRequesters \ {a} : admin'[b] = admin[b]
    BY DEF AccountsInv, AccountsTypeOK, AdminStep, AdminRequesters
  <1>2. ASSUME NEW b \in AdminRequesters PROVE AdminOK(admin[b])'
    <2>1. CASE b = a
      BY <1>1, <2>1 DEF AdminOK
    <2>2. CASE b # a
      <3>1. PICK r : r = admin[b]
        OBVIOUS
      <3>2. AdminOK(r) /\ r = admin'[b]
        BY <1>1, <2>2, <3>1 DEF AccountsInv, AdminsSound
      <3>3. AdminOK(r)'
        BY <3>2, AdminOKStays
      <3> QED
        BY <3>2, <3>3 DEF AdminOK
    <2> QED
      BY <2>1, <2>2
  <1> QED
    BY <1>1, <1>2 DEF AdminsSound, AdminRequesters

LEMMA AdminIdles ==
  ASSUME AccountsInv, Forward, NEW a \in AdminRequesters, AdminDone(a)
  PROVE  admin' \in [Admins \cup Supers -> AdminRequests] /\ AdminsSound'
  <1>1. AdminStep(a, IdleAdmin)
    BY DEF AdminDone
  <1>2. PICK s : s = IdleAdmin
    OBVIOUS
  <1>3. s \in AdminRequests /\ AdminStep(a, s) /\ AdminOK(s)'
    BY <1>1, <1>2, IdleFacts DEF AdminOK
  <1> QED
    BY <1>3, AdminTakes

\* The accounts' own requests.
LEMMA TabOKStays ==
  ASSUME Forward, NEW r, TabOK(r)
  PROVE  TabOK(r)'
  BY DEF Forward, TabOK

LEMMA TabsStay ==
  ASSUME AccountsInv, Forward, UNCHANGED tab
  PROVE  TabsSound'
  <1> SUFFICES ASSUME NEW t \in Browsers PROVE TabOK(tab[t])'
    BY DEF TabsSound
  <1>1. PICK r : r = tab[t]
    OBVIOUS
  <1>2. TabOK(r) /\ r = tab'[t]
    BY <1>1 DEF AccountsInv, TabsSound
  <1>3. TabOK(r)'
    BY <1>2, TabOKStays
  <1> QED
    BY <1>2, <1>3 DEF TabOK

LEMMA TabTakes ==
  ASSUME AccountsInv, Forward, NEW t \in Browsers, NEW s \in TabRequests,
         TabStep(t, s), TabOK(s)'
  PROVE  tab' \in [Browsers -> TabRequests] /\ TabsSound'
  <1>1. /\ tab' \in [Browsers -> TabRequests] /\ tab'[t] = s
        /\ \A b \in Browsers \ {t} : tab'[b] = tab[b]
    BY DEF AccountsInv, AccountsTypeOK, TabStep
  <1>2. ASSUME NEW b \in Browsers PROVE TabOK(tab[b])'
    <2>1. CASE b = t
      BY <1>1, <2>1 DEF TabOK
    <2>2. CASE b # t
      <3>1. PICK r : r = tab[b]
        OBVIOUS
      <3>2. TabOK(r) /\ r = tab'[b]
        BY <1>1, <2>2, <3>1 DEF AccountsInv, TabsSound
      <3>3. TabOK(r)'
        BY <3>2, TabOKStays
      <3> QED
        BY <3>2, <3>3 DEF TabOK
    <2> QED
      BY <2>1, <2>2
  <1> QED
    BY <1>1, <1>2 DEF TabsSound

LEMMA TabIdles ==
  ASSUME AccountsInv, Forward, NEW t \in Browsers, TabDone(t)
  PROVE  tab' \in [Browsers -> TabRequests] /\ TabsSound'
  <1>1. TabStep(t, IdleTab)
    BY DEF TabDone
  <1>2. PICK s : s = IdleTab
    OBVIOUS
  <1>3. s \in TabRequests /\ TabStep(t, s) /\ TabOK(s)'
    BY <1>1, <1>2, IdleFacts DEF TabOK
  <1> QED
    BY <1>3, TabTakes

\* Steps that change neither an account nor a row.
LEMMA AccountsStay ==
  ASSUME AccountsInv, UNCHANGED <<clerk, row, events, granted>>
  PROVE  Forward /\ MetaSound' /\ EventsSound' /\ AdminsAreGranted'
  BY DEF AccountsInv, Forward, MetaSound, EventsSound, AdminsAreGranted,
         HasRow, HasAccount

\* A row that changes keeps a role, and an admin's is the one granted.
LEMMA RowTakes ==
  ASSUME AccountsInv, NEW u \in Users, NEW r \in UserRow,
         row' = [row EXCEPT ![u] = r], UNCHANGED <<clerk, granted>>,
         events' \subseteq events,
         HasAccount(u), r.role # "none",
         r.role \in AdminRoles => granted[u] = r.role
  PROVE  /\ row' \in [Users -> UserRow]
         /\ Forward /\ MetaSound' /\ EventsSound' /\ AdminsAreGranted'
  <1>1. /\ row' \in [Users -> UserRow] /\ row'[u] = r
        /\ \A v \in Users \ {u} : row'[v] = row[v]
    BY DEF AccountsInv, AccountsTypeOK
  <1>2. Forward
    BY <1>1 DEF Forward, HasRow, HasAccount
  <1>3. \A v \in Users : HasRow(v)' => HasRow(v) \/ v = u
    BY <1>1 DEF HasRow
  <1>4. MetaSound'
    BY <1>1, <1>2, <1>3 DEF AccountsInv, MetaSound, HasAccount, Forward
  <1>5. EventsSound'
    <2>1. \A e \in events : e.user \in Users
      BY DEF AccountsInv, AccountsTypeOK
    <2> QED
      BY <1>2, <2>1 DEF AccountsInv, EventsSound, HasAccount, Forward
  <1>6. AdminsAreGranted'
    BY <1>1 DEF AccountsInv, AdminsAreGranted
  <1> QED
    BY <1>1, <1>2, <1>4, <1>5, <1>6

\* A change at Clerk sends at most what is granted, while there is no row.
LEMMA ClerkTakes ==
  ASSUME AccountsInv, NEW u \in Users, NEW c \in Clerks, UNCHANGED row,
         clerk' = [clerk EXCEPT ![u] = c],
         events' \subseteq events \cup {[user |-> u, meta |-> c.meta]},
         c.live # "no",
         granted' \in [Users -> Roles \cup {"none"}],
         \A v \in Users \ {u} : granted'[v] = granted[v],
         granted'[u] = granted[u] \/ ~ HasAccount(u),
         c.meta \in AdminRoles /\ ~ HasRow(u) => granted'[u] = c.meta
  PROVE  /\ clerk' \in [Users -> Clerks]
         /\ events' \subseteq [user : Users, meta : Roles \cup {"none"}]
         /\ Forward /\ MetaSound' /\ EventsSound' /\ AdminsAreGranted'
  <1>1. /\ clerk' \in [Users -> Clerks] /\ clerk'[u] = c
        /\ \A v \in Users \ {u} : clerk'[v] = clerk[v]
    BY DEF AccountsInv, AccountsTypeOK
  <1>2. PICK e : e = [user |-> u, meta |-> c.meta]
    OBVIOUS
  <1>3. /\ e.user = u /\ e.meta = c.meta /\ events' \subseteq events \cup {e}
        /\ e \in [user : Users, meta : Roles \cup {"none"}]
    BY <1>2 DEF Clerks
  <1>4. events' \subseteq [user : Users, meta : Roles \cup {"none"}]
    BY <1>3 DEF AccountsInv, AccountsTypeOK
  <1>5. \A v \in Users : HasRow(v)' = HasRow(v)
    BY DEF HasRow
  <1>6. \A v \in Users : HasAccount(v) => HasAccount(v)'
    BY <1>1 DEF HasAccount
  <1>7. Forward
    BY <1>5, <1>6 DEF Forward
  <1>8. MetaSound'
    BY <1>1, <1>5 DEF AccountsInv, MetaSound, HasAccount
  <1>9. EventsSound'
    <2> SUFFICES ASSUME NEW f \in events'
                 PROVE  /\ clerk'[f.user].live # "no"
                        /\ row'[f.user].role = "none" /\ f.meta \in AdminRoles
                             => granted'[f.user] = f.meta
      BY DEF EventsSound, HasRow, HasAccount
    <2>1. CASE f = e
      BY <1>1, <1>3, <2>1 DEF HasRow
    <2>2. CASE f \in events
      <3>1. /\ HasAccount(f.user) /\ f.user \in Users
            /\ ~ HasRow(f.user) /\ f.meta \in AdminRoles => granted[f.user] = f.meta
        BY <2>2 DEF AccountsInv, AccountsTypeOK, EventsSound
      <3>2. granted'[f.user] = granted[f.user]
        BY <3>1
      <3> QED
        BY <3>1, <3>2, <1>6 DEF HasAccount, HasRow
    <2> QED
      BY <1>3, <2>1, <2>2
  <1>10. AdminsAreGranted'
    <2> SUFFICES ASSUME NEW v \in Users, row[v].role \in AdminRoles
                 PROVE  granted'[v] = row[v].role
      BY DEF AdminsAreGranted
    <2>1. granted[v] = row[v].role
      BY DEF AccountsInv, AdminsAreGranted
    <2>2. HasAccount(v)
      BY RoleFacts DEF AccountsInv, MetaSound, HasRow
    <2> QED
      BY <2>1, <2>2
  <1> QED
    BY <1>1, <1>4, <1>7, <1>8, <1>9, <1>10

-----------------------------------------------------------------------------
(* Clerk's side. *)

LEMMA SubmitFormInv ==
  ASSUME AccountsInv, NEW u \in Users, NEW code \in Forms, SubmitForm(u, code)
  PROVE  AccountsInv'
  <1>1. /\ UNCHANGED <<clerk, row, applied, events, admin, tab, mfa, granted>>
        /\ signup' \in [Users -> Forms]
    BY DEF SubmitForm, FormStep, AccountsInv, AccountsTypeOK
  <1>2. Forward /\ MetaSound' /\ EventsSound' /\ AdminsAreGranted'
    BY <1>1, AccountsStay
  <1>3. AdminsSound' /\ TabsSound'
    BY <1>1, <1>2, AdminsStay, TabsStay
  <1>4. AccountsTypeOK'
    BY <1>1 DEF AccountsInv, AccountsTypeOK
  <1> QED
    BY <1>2, <1>3, <1>4 DEF AccountsInv

LEMMA VerifyCodeInv ==
  ASSUME AccountsInv, NEW u \in Users, NEW code \in Forms, NEW next \in Forms,
         VerifyCode(u, code, next)
  PROVE  AccountsInv'
  <1>1. PICK c : c = [clerk[u] EXCEPT !.live = "yes"]
    OBVIOUS
  <1>2. clerk[u] \in Clerks /\ ~ HasAccount(u) /\ clerk[u].meta = "none"
    BY DEF VerifyCode, HasAccount, AccountsInv, AccountsTypeOK, MetaSound
  <1>3. c \in Clerks /\ c.live = "yes" /\ c.meta = "none"
    BY <1>1, <1>2 DEF Clerks
  <1>4. /\ clerk' = [clerk EXCEPT ![u] = c]
        /\ events' \subseteq events \cup {[user |-> u, meta |-> c.meta]}
    BY <1>1 DEF VerifyCode, AtClerk
  <1>5. /\ UNCHANGED <<row, applied, admin, tab, mfa, granted>>
        /\ signup' \in [Users -> Forms]
    BY DEF VerifyCode, FormStep, AccountsInv, AccountsTypeOK
  <1>6. granted \in [Users -> Roles \cup {"none"}]
    BY DEF AccountsInv, AccountsTypeOK
  <1>7. /\ clerk' \in [Users -> Clerks]
        /\ events' \subseteq [user : Users, meta : Roles \cup {"none"}]
        /\ Forward /\ MetaSound' /\ EventsSound' /\ AdminsAreGranted'
    BY <1>3, <1>4, <1>5, <1>6, RoleFacts, ClerkTakes
  <1>8. AdminsSound' /\ TabsSound'
    BY <1>5, <1>7, AdminsStay, TabsStay
  <1>9. AccountsTypeOK'
    BY <1>5, <1>7 DEF AccountsInv, AccountsTypeOK
  <1> QED
    BY <1>7, <1>8, <1>9 DEF AccountsInv

LEMMA WebhookInv ==
  ASSUME AccountsInv, NEW e \in events, NEW again \in BOOLEAN, Webhook(e, again)
  PROVE  AccountsInv'
  <1>1. PICK u : u = e.user
    OBVIOUS
  <1>2. PICK m : m = e.meta
    OBVIOUS
  <1>3. /\ u \in Users /\ m \in Roles \cup {"none"} /\ HasAccount(u)
        /\ ~ HasRow(u) /\ m \in AdminRoles => granted[u] = m
    BY <1>1, <1>2 DEF AccountsInv, AccountsTypeOK, EventsSound
  <1>4. /\ UNCHANGED <<clerk, applied, admin, tab, mfa, granted, signup>>
        /\ events' \subseteq events /\ Upsert(u, m)
    BY <1>1, <1>2 DEF Webhook
  <1>5. PICK r : r = IF HasRow(u) THEN row[u]
                     ELSE [NoUser EXCEPT !.role = IF m = "none" THEN "client" ELSE m]
    OBVIOUS
  <1>6. row' = [row EXCEPT ![u] = r]
    BY <1>4, <1>5 DEF Upsert, AccountsInv, AccountsTypeOK
  <1>7. /\ r \in UserRow /\ r.role # "none"
        /\ r.role \in AdminRoles => granted[u] = r.role
    <2>1. CASE HasRow(u)
      BY <1>3, <1>5, <2>1 DEF HasRow, AccountsInv, AccountsTypeOK, AdminsAreGranted
    <2>2. CASE ~ HasRow(u)
      <3>1. PICK x : x = IF m = "none" THEN "client" ELSE m
        OBVIOUS
      <3>2. x \in Roles /\ x # "none" /\ (x \in AdminRoles => granted[u] = x)
        BY <1>3, <2>2, <3>1, RoleFacts
      <3>3. r = [NoUser EXCEPT !.role = x]
        BY <1>5, <2>2, <3>1
      <3>4. r \in UserRow /\ r.role = x
        BY <3>2, <3>3 DEF NoUser, UserRow
      <3> QED
        BY <3>2, <3>4
    <2> QED
      BY <2>1, <2>2
  <1>8. /\ row' \in [Users -> UserRow]
        /\ Forward /\ MetaSound' /\ EventsSound' /\ AdminsAreGranted'
    BY <1>3, <1>4, <1>6, <1>7, RowTakes
  <1>9. AdminsSound' /\ TabsSound'
    BY <1>4, <1>8, AdminsStay, TabsStay
  <1>10. AccountsTypeOK'
    BY <1>4, <1>8 DEF AccountsInv, AccountsTypeOK
  <1> QED
    BY <1>8, <1>9, <1>10 DEF AccountsInv

-----------------------------------------------------------------------------
(* The admins' requests. *)

LEMMA SendInv ==
  ASSUME AccountsInv, NEW a \in AdminRequesters, NEW name \in AdminOps,
         NEW u \in Users, NEW role \in Roles \cup {"none"}, Send(a, name, u, role),
         name \in {"create", "role"} => role \in Roles,
         name # "create" => HasRow(u)
  PROVE  AccountsInv'
  <1>1. PICK s : s = [pc |-> "sent", op |-> name, user |-> u, role |-> role]
    OBVIOUS
  <1>2. s \in AdminRequests
    BY <1>1 DEF AdminRequests
  <1>3. /\ AdminStep(a, s)
        /\ UNCHANGED <<clerk, row, applied, events, tab, mfa, granted, signup>>
    BY <1>1 DEF Send
  <1>4. Forward /\ MetaSound' /\ EventsSound' /\ AdminsAreGranted'
    BY <1>3, AccountsStay
  <1>5. AdminOK(s)'
    BY <1>1, <1>3 DEF AdminOK, HasRow
  <1>6. admin' \in [Admins \cup Supers -> AdminRequests] /\ AdminsSound'
    BY <1>2, <1>3, <1>4, <1>5, AdminTakes
  <1>7. TabsSound'
    BY <1>3, <1>4, TabsStay
  <1>8. AccountsTypeOK'
    BY <1>3, <1>6 DEF AccountsInv, AccountsTypeOK
  <1> QED
    BY <1>4, <1>6, <1>7, <1>8 DEF AccountsInv

\* What every request carries.
LEMMA AdminCarries ==
  ASSUME AccountsInv, NEW a \in AdminRequesters
  PROVE  /\ admin[a] \in AdminRequests /\ AdminOK(admin[a])
         /\ admin[a].pc # "idle" =>
              admin[a].user \in Users /\ clerk[admin[a].user] \in Clerks
                /\ row[admin[a].user] \in UserRow
         /\ granted \in [Users -> Roles \cup {"none"}]
  BY DEF AccountsInv, AccountsTypeOK, AdminsSound, AdminOK, AdminRequesters

\* A request that ends, with nothing else.
LEMMA AdminEnds ==
  ASSUME AccountsInv, NEW a \in AdminRequesters, AdminDone(a),
         UNCHANGED <<clerk, row, applied, events, tab, mfa, granted, signup>>
  PROVE  AccountsInv'
  <1>1. Forward /\ MetaSound' /\ EventsSound' /\ AdminsAreGranted'
    BY AccountsStay
  <1>2. admin' \in [Admins \cup Supers -> AdminRequests] /\ AdminsSound' /\ TabsSound'
    BY <1>1, AdminIdles, TabsStay
  <1>3. AccountsTypeOK'
    BY <1>2 DEF AccountsInv, AccountsTypeOK
  <1> QED
    BY <1>1, <1>2, <1>3 DEF AccountsInv

\* A request that goes on, with nothing else.
LEMMA AdminGoesOn ==
  ASSUME AccountsInv, NEW a \in AdminRequesters, NEW s \in AdminRequests,
         AdminStep(a, s), AdminOK(s),
         UNCHANGED <<clerk, row, applied, events, tab, mfa, granted, signup>>
  PROVE  AccountsInv'
  <1>1. Forward /\ MetaSound' /\ EventsSound' /\ AdminsAreGranted'
    BY AccountsStay
  <1>2. AdminOK(s)'
    BY <1>1, AdminOKStays
  <1>3. admin' \in [Admins \cup Supers -> AdminRequests] /\ AdminsSound' /\ TabsSound'
    BY <1>1, <1>2, AdminTakes, TabsStay
  <1>4. AccountsTypeOK'
    BY <1>3 DEF AccountsInv, AccountsTypeOK
  <1> QED
    BY <1>1, <1>3, <1>4 DEF AccountsInv

LEMMA CheckInv ==
  ASSUME AccountsInv, NEW a \in AdminRequesters, Check(a)
  PROVE  AccountsInv'
  <1>1. PICK s : s = [admin[a] EXCEPT !.pc = "checked"]
    OBVIOUS
  <1>2. /\ UNCHANGED <<clerk, row, applied, events, tab, mfa, granted, signup>>
        /\ AdminStep(a, s) \/ (AdminDone(a) /\ admin[a].pc = "sent")
    BY <1>1 DEF Check
  <1>3. admin[a] \in AdminRequests /\ AdminOK(admin[a]) /\ admin[a].pc = "sent"
    BY AdminCarries DEF Check
  <1>4. /\ s \in AdminRequests /\ s.pc = "checked" /\ s.op = admin[a].op
        /\ s.user = admin[a].user /\ s.role = admin[a].role
    BY <1>1, <1>3 DEF AdminRequests
  <1>5. AdminOK(s)
    BY <1>3, <1>4 DEF AdminOK
  <1> QED
    BY <1>2, <1>4, <1>5, AdminGoesOn, AdminEnds

LEMMA CreateAtClerkInv ==
  ASSUME AccountsInv, NEW a \in AdminRequesters, CreateAtClerk(a)
  PROVE  AccountsInv'
  <1>1. PICK u : u = admin[a].user
    OBVIOUS
  <1>2. PICK role : role = admin[a].role
    OBVIOUS
  <1>3. /\ admin[a] \in AdminRequests /\ admin[a].pc = "checked"
        /\ admin[a].op = "create" /\ u \in Users /\ role \in Roles
        /\ granted \in [Users -> Roles \cup {"none"}]
    BY <1>1, <1>2, AdminCarries DEF CreateAtClerk, AdminAt, AdminOK
  <1>4. UNCHANGED <<row, applied, tab, mfa, signup>>
    BY DEF CreateAtClerk
  <1>5. CASE clerk[u].live # "no"
    <2>1. AdminDone(a) /\ UNCHANGED <<clerk, events, granted>>
      BY <1>1, <1>5 DEF CreateAtClerk
    <2> QED
      BY <1>4, <2>1, AdminEnds
  <1>6. CASE clerk[u].live = "no"
    <2>1. PICK c : c = [live |-> "yes", temp |-> TRUE, meta |-> role]
      OBVIOUS
    <2>2. PICK s : s = [admin[a] EXCEPT !.pc = "second"]
      OBVIOUS
    <2>3. /\ clerk' = [clerk EXCEPT ![u] = c]
          /\ events' \subseteq events \cup {[user |-> u, meta |-> c.meta]}
          /\ granted' = [granted EXCEPT ![u] = role] /\ AdminStep(a, s)
      BY <1>1, <1>2, <1>6, <2>1, <2>2 DEF CreateAtClerk, AtClerk
    <2>4. c \in Clerks /\ c.live = "yes" /\ c.meta = role
      BY <1>3, <2>1 DEF Clerks
    <2>5. /\ granted' \in [Users -> Roles \cup {"none"}] /\ granted'[u] = role
          /\ \A v \in Users \ {u} : granted'[v] = granted[v]
      BY <1>3, <2>3
    <2>6. ~ HasAccount(u)
      BY <1>6 DEF HasAccount
    <2>7. /\ clerk' \in [Users -> Clerks]
          /\ events' \subseteq [user : Users, meta : Roles \cup {"none"}]
          /\ Forward /\ MetaSound' /\ EventsSound' /\ AdminsAreGranted'
      BY <1>3, <1>4, <2>3, <2>4, <2>5, <2>6, ClerkTakes
    <2>8. /\ s \in AdminRequests /\ s.pc = "second" /\ s.op = "create"
          /\ s.user = u /\ s.role = role
      BY <1>1, <1>2, <1>3, <2>2 DEF AdminRequests
    <2>9. clerk'[u] = c
      BY <1>3, <2>3 DEF AccountsInv, AccountsTypeOK
    <2>10. AdminOK(s)'
      BY <1>3, <2>4, <2>5, <2>8, <2>9 DEF AdminOK, HasAccount
    <2>11. admin' \in [Admins \cup Supers -> AdminRequests] /\ AdminsSound'
      BY <2>3, <2>7, <2>8, <2>10, AdminTakes
    <2>12. TabsSound'
      BY <1>4, <2>7, TabsStay
    <2>13. AccountsTypeOK'
      BY <1>4, <2>5, <2>7, <2>11 DEF AccountsInv, AccountsTypeOK
    <2> QED
      BY <2>7, <2>11, <2>12, <2>13 DEF AccountsInv
  <1> QED
    BY <1>5, <1>6

\* A request that ends with a change of its account's row.
LEMMA AdminEndsWithRow ==
  ASSUME AccountsInv, NEW a \in AdminRequesters, AdminDone(a),
         NEW u \in Users, NEW r \in UserRow, row' = [row EXCEPT ![u] = r],
         HasAccount(u), r.role # "none", r.role \in AdminRoles => granted[u] = r.role,
         UNCHANGED <<clerk, applied, events, tab, mfa, granted, signup>>
  PROVE  AccountsInv'
  <1>1. /\ row' \in [Users -> UserRow]
        /\ Forward /\ MetaSound' /\ EventsSound' /\ AdminsAreGranted'
    BY RowTakes
  <1>2. admin' \in [Admins \cup Supers -> AdminRequests] /\ AdminsSound' /\ TabsSound'
    BY <1>1, AdminIdles, TabsStay
  <1>3. AccountsTypeOK'
    BY <1>1, <1>2 DEF AccountsInv, AccountsTypeOK
  <1> QED
    BY <1>1, <1>2, <1>3 DEF AccountsInv

LEMMA CreateRowInv ==
  ASSUME AccountsInv, NEW a \in AdminRequesters, CreateRow(a)
  PROVE  AccountsInv'
  <1>1. PICK u : u = admin[a].user
    OBVIOUS
  <1>2. PICK role : role = admin[a].role
    OBVIOUS
  <1>3. /\ admin[a] \in AdminRequests /\ admin[a].pc = "second"
        /\ admin[a].op = "create" /\ u \in Users /\ role \in Roles
        /\ HasAccount(u) /\ (~ HasRow(u) => granted[u] = role)
    BY <1>1, <1>2, AdminCarries DEF CreateRow, AdminAt, AdminOK
  <1>4. UNCHANGED <<clerk, applied, events, tab, mfa, granted, signup>>
    BY DEF CreateRow
  <1>5. CASE HasRow(u)
    <2>1. PICK s : s = [admin[a] EXCEPT !.pc = "undo"]
      OBVIOUS
    <2>2. /\ s \in AdminRequests /\ s.pc = "undo" /\ s.op = "create"
          /\ s.user = u /\ s.role = role
      BY <1>1, <1>2, <1>3, <2>1 DEF AdminRequests
    <2>3. AdminOK(s)
      BY <1>3, <1>5, <2>2 DEF AdminOK
    <2>4. row' = row /\ AdminStep(a, s)
      BY <1>1, <1>5, <2>1 DEF CreateRow
    <2> QED
      BY <1>4, <2>2, <2>3, <2>4, AdminGoesOn
  <1>6. CASE ~ HasRow(u)
    <2>1. PICK r : r = [role |-> role, must |-> TRUE, disabled |-> FALSE]
      OBVIOUS
    <2>2. r \in UserRow /\ r.role = role
      BY <1>3, <2>1 DEF UserRow
    <2>3. row' = [row EXCEPT ![u] = r] /\ AdminDone(a)
      BY <1>1, <1>2, <1>6, <2>1 DEF CreateRow
    <2> QED
      BY <1>3, <1>4, <1>6, <2>2, <2>3, RoleFacts, AdminEndsWithRow
  <1> QED
    BY <1>5, <1>6

LEMMA UndoCreateInv ==
  ASSUME AccountsInv, NEW a \in AdminRequesters, UndoCreate(a)
  PROVE  AccountsInv'
  <1>1. PICK u : u = admin[a].user
    OBVIOUS
  <1>2. u \in Users /\ clerk[u] \in Clerks /\ granted \in [Users -> Roles \cup {"none"}]
    BY <1>1, AdminCarries DEF UndoCreate
  <1>3. PICK c : c = [clerk[u] EXCEPT !.live = "deleted"]
    OBVIOUS
  <1>4. c \in Clerks /\ c.live = "deleted" /\ c.meta = clerk[u].meta
    BY <1>2, <1>3 DEF Clerks
  <1>5. c.meta \in AdminRoles /\ ~ HasRow(u) => granted[u] = c.meta
    BY <1>2, <1>4 DEF AccountsInv, MetaSound
  <1>6. /\ UNCHANGED <<row, applied, events, tab, mfa, granted, signup>>
        /\ clerk' = [clerk EXCEPT ![u] = c] /\ AdminDone(a)
    BY <1>1, <1>2, <1>3 DEF UndoCreate, AccountsInv, AccountsTypeOK
  <1>7. /\ clerk' \in [Users -> Clerks]
        /\ Forward /\ MetaSound' /\ EventsSound' /\ AdminsAreGranted'
    BY <1>2, <1>4, <1>5, <1>6, ClerkTakes
  <1>8. admin' \in [Admins \cup Supers -> AdminRequests] /\ AdminsSound' /\ TabsSound'
    BY <1>6, <1>7, AdminIdles, TabsStay
  <1>9. AccountsTypeOK'
    BY <1>6, <1>7, <1>8 DEF AccountsInv, AccountsTypeOK
  <1> QED
    BY <1>7, <1>8, <1>9 DEF AccountsInv

LEMMA RowHasGrant ==
  ASSUME AccountsInv, NEW u \in Users, HasRow(u)
  PROVE  /\ row[u] \in UserRow /\ row[u].role # "none" /\ HasAccount(u)
         /\ row[u].role \in AdminRoles => granted[u] = row[u].role
  BY DEF AccountsInv, AccountsTypeOK, HasRow, MetaSound, AdminsAreGranted

LEMMA ToggleInv ==
  ASSUME AccountsInv, NEW a \in AdminRequesters, Toggle(a)
  PROVE  AccountsInv'
  <1>1. PICK u : u = admin[a].user
    OBVIOUS
  <1>2. u \in Users /\ HasRow(u)
    BY <1>1, AdminCarries DEF Toggle, AdminAt, AdminOK
  <1>3. PICK r : r = [row[u] EXCEPT !.disabled = admin[a].op = "disable"]
    OBVIOUS
  <1>4. r \in UserRow /\ r.role = row[u].role
    <2>1. (admin[a].op = "disable") \in BOOLEAN
      OBVIOUS
    <2>2. row[u] \in UserRow
      BY <1>2, RowHasGrant
    <2> QED
      BY <1>3, <2>1, <2>2 DEF UserRow
  <1>5. /\ row' = [row EXCEPT ![u] = r] /\ AdminDone(a)
        /\ UNCHANGED <<clerk, applied, events, tab, mfa, granted, signup>>
    BY <1>1, <1>2, <1>3 DEF Toggle, AccountsInv, AccountsTypeOK
  <1> QED
    BY <1>2, <1>4, <1>5, RowHasGrant, AdminEndsWithRow

LEMMA UpdateRoleInv ==
  ASSUME AccountsInv, NEW a \in AdminRequesters, UpdateRole(a)
  PROVE  AccountsInv'
  <1>1. PICK u : u = admin[a].user
    OBVIOUS
  <1>2. PICK role : role = admin[a].role
    OBVIOUS
  <1>3. /\ admin[a] \in AdminRequests /\ admin[a].pc = "checked"
        /\ admin[a].op = "role" /\ u \in Users /\ role \in Roles /\ HasRow(u)
        /\ granted \in [Users -> Roles \cup {"none"}]
    BY <1>1, <1>2, AdminCarries DEF UpdateRole, AdminAt, AdminOK
  <1>4. PICK r : r = [row[u] EXCEPT !.role = role]
    OBVIOUS
  <1>5. r \in UserRow /\ r.role = role /\ role # "none"
    BY <1>3, <1>4, RowHasGrant, RoleFacts DEF UserRow
  <1>6. PICK s : s = [admin[a] EXCEPT !.pc = "second"]
    OBVIOUS
  <1>7. /\ s \in AdminRequests /\ s.pc = "second" /\ s.op = "role"
        /\ s.user = u /\ s.role = role
    BY <1>1, <1>2, <1>3, <1>6 DEF AdminRequests
  <1>8. /\ UNCHANGED <<clerk, applied, events, tab, mfa, signup>>
        /\ row' = [row EXCEPT ![u] = r]
        /\ granted' = [granted EXCEPT ![u] = role] /\ AdminStep(a, s)
    BY <1>1, <1>2, <1>4, <1>6 DEF UpdateRole, AccountsInv, AccountsTypeOK
  <1>9. /\ row' \in [Users -> UserRow] /\ row'[u] = r
        /\ \A v \in Users \ {u} : row'[v] = row[v]
        /\ granted' \in [Users -> Roles \cup {"none"}] /\ granted'[u] = role
        /\ \A v \in Users \ {u} : granted'[v] = granted[v]
    BY <1>3, <1>5, <1>8 DEF AccountsInv, AccountsTypeOK
  <1>10. \A v \in Users : HasRow(v)' = HasRow(v)
    BY <1>3, <1>5, <1>9 DEF HasRow
  <1>11. Forward
    BY <1>3, <1>8, <1>9, <1>10 DEF Forward, HasAccount
  <1>12. MetaSound'
    BY <1>3, <1>8, <1>9, <1>10 DEF AccountsInv, MetaSound, HasAccount
  <1>13. EventsSound'
    <2>1. \A e \in events : e.user \in Users
      BY DEF AccountsInv, AccountsTypeOK
    <2> QED
      BY <1>3, <1>8, <1>9, <1>10, <2>1 DEF AccountsInv, EventsSound, HasAccount
  <1>14. AdminsAreGranted'
    BY <1>5, <1>9 DEF AccountsInv, AdminsAreGranted
  <1>15. AdminOK(s)'
    BY <1>3, <1>7, <1>10 DEF AdminOK
  <1>16. admin' \in [Admins \cup Supers -> AdminRequests] /\ AdminsSound' /\ TabsSound'
    BY <1>7, <1>8, <1>11, <1>15, AdminTakes, TabsStay
  <1>17. AccountsTypeOK'
    BY <1>8, <1>9, <1>16 DEF AccountsInv, AccountsTypeOK
  <1> QED
    BY <1>12, <1>13, <1>14, <1>16, <1>17 DEF AccountsInv

\* A change at Clerk of an account that has a row.
LEMMA ClerkOfRow ==
  ASSUME AccountsInv, NEW u \in Users, HasRow(u), NEW c \in Clerks,
         AtClerk(u, c), c.live # "no", UNCHANGED <<row, granted>>
  PROVE  /\ clerk' \in [Users -> Clerks]
         /\ events' \subseteq [user : Users, meta : Roles \cup {"none"}]
         /\ Forward /\ MetaSound' /\ EventsSound' /\ AdminsAreGranted'
  <1>1. /\ clerk' = [clerk EXCEPT ![u] = c]
        /\ events' \subseteq events \cup {[user |-> u, meta |-> c.meta]}
        /\ granted \in [Users -> Roles \cup {"none"}]
    BY DEF AtClerk, AccountsInv, AccountsTypeOK
  <1> QED
    BY <1>1, ClerkTakes

LEMMA MirrorRoleInv ==
  ASSUME AccountsInv, NEW a \in AdminRequesters, MirrorRole(a)
  PROVE  AccountsInv'
  <1>1. PICK u : u = admin[a].user
    OBVIOUS
  <1>2. PICK role : role = admin[a].role
    OBVIOUS
  <1>3. u \in Users /\ role \in Roles /\ HasRow(u) /\ clerk[u] \in Clerks
    BY <1>1, <1>2, AdminCarries DEF MirrorRole, AdminAt, AdminOK
  <1>4. UNCHANGED <<row, applied, tab, mfa, granted, signup>> /\ AdminDone(a)
    BY DEF MirrorRole
  <1>5. CASE clerk[u].live = "yes"
    <2>1. PICK c : c = [clerk[u] EXCEPT !.meta = role]
      OBVIOUS
    <2>2. c \in Clerks /\ c.live = "yes" /\ AtClerk(u, c)
      BY <1>1, <1>2, <1>3, <1>5, <2>1 DEF MirrorRole, Clerks
    <2>3. /\ clerk' \in [Users -> Clerks]
          /\ events' \subseteq [user : Users, meta : Roles \cup {"none"}]
          /\ Forward /\ MetaSound' /\ EventsSound' /\ AdminsAreGranted'
      BY <1>3, <1>4, <2>2, ClerkOfRow
    <2>4. admin' \in [Admins \cup Supers -> AdminRequests] /\ AdminsSound' /\ TabsSound'
      BY <1>4, <2>3, AdminIdles, TabsStay
    <2>5. AccountsTypeOK'
      BY <1>4, <2>3, <2>4 DEF AccountsInv, AccountsTypeOK
    <2> QED
      BY <2>3, <2>4, <2>5 DEF AccountsInv
  <1>6. CASE clerk[u].live # "yes"
    <2>1. UNCHANGED <<clerk, events>>
      BY <1>1, <1>6 DEF MirrorRole
    <2> QED
      BY <1>4, <2>1, AdminEnds
  <1> QED
    BY <1>5, <1>6

LEMMA ResetAtClerkInv ==
  ASSUME AccountsInv, NEW a \in AdminRequesters, ResetAtClerk(a)
  PROVE  AccountsInv'
  <1>1. PICK u : u = admin[a].user
    OBVIOUS
  <1>2. /\ u \in Users /\ HasRow(u) /\ clerk[u] \in Clerks /\ clerk[u].live = "yes"
        /\ admin[a] \in AdminRequests /\ admin[a].op = "reset"
    BY <1>1, AdminCarries DEF ResetAtClerk, AdminAt, AdminOK
  <1>3. PICK c : c = [clerk[u] EXCEPT !.temp = TRUE]
    OBVIOUS
  <1>4. PICK s : s = [admin[a] EXCEPT !.pc = "second"]
    OBVIOUS
  <1>5. c \in Clerks /\ c.live = "yes"
    BY <1>2, <1>3 DEF Clerks
  <1>6. s \in AdminRequests /\ s.op = "reset" /\ s.user = u
    BY <1>1, <1>2, <1>4 DEF AdminRequests
  <1>7. /\ UNCHANGED <<row, applied, tab, granted, signup>>
        /\ AtClerk(u, c) /\ AdminStep(a, s)
        /\ mfa' = [mfa EXCEPT ![u].verified = FALSE]
    BY <1>1, <1>3, <1>4 DEF ResetAtClerk
  <1>8. mfa' \in [Users -> [enrolled : BOOLEAN, verified : BOOLEAN]]
    <2>1. mfa \in [Users -> [enrolled : BOOLEAN, verified : BOOLEAN]]
      BY DEF AccountsInv, AccountsTypeOK
    <2>2. PICK m : m = [mfa[u] EXCEPT !.verified = FALSE]
      OBVIOUS
    <2>3. m \in [enrolled : BOOLEAN, verified : BOOLEAN]
      BY <1>2, <2>1, <2>2
    <2>4. mfa' = [mfa EXCEPT ![u] = m]
      BY <1>7, <2>2
    <2> QED
      BY <1>2, <2>1, <2>3, <2>4
  <1>9. /\ clerk' \in [Users -> Clerks]
        /\ events' \subseteq [user : Users, meta : Roles \cup {"none"}]
        /\ Forward /\ MetaSound' /\ EventsSound' /\ AdminsAreGranted'
    BY <1>2, <1>5, <1>7, ClerkOfRow
  <1>10. AdminOK(s)'
    BY <1>2, <1>6, <1>7 DEF AdminOK, HasRow
  <1>11. admin' \in [Admins \cup Supers -> AdminRequests] /\ AdminsSound' /\ TabsSound'
    BY <1>6, <1>7, <1>9, <1>10, AdminTakes, TabsStay
  <1>12. AccountsTypeOK'
    BY <1>7, <1>8, <1>9, <1>11 DEF AccountsInv, AccountsTypeOK
  <1> QED
    BY <1>9, <1>11, <1>12 DEF AccountsInv

LEMMA ResetRowInv ==
  ASSUME AccountsInv, NEW a \in AdminRequesters, ResetRow(a)
  PROVE  AccountsInv'
  <1>1. PICK u : u = admin[a].user
    OBVIOUS
  <1>2. u \in Users /\ HasRow(u)
    BY <1>1, AdminCarries DEF ResetRow, AdminAt, AdminOK
  <1>3. PICK r : r = [row[u] EXCEPT !.must = TRUE]
    OBVIOUS
  <1>4. r \in UserRow /\ r.role = row[u].role
    BY <1>2, <1>3, RowHasGrant DEF UserRow
  <1>5. /\ row' = [row EXCEPT ![u] = r] /\ AdminDone(a)
        /\ UNCHANGED <<clerk, applied, events, tab, mfa, granted, signup>>
    BY <1>1, <1>2, <1>3 DEF ResetRow, AccountsInv, AccountsTypeOK
  <1> QED
    BY <1>2, <1>4, <1>5, RowHasGrant, AdminEndsWithRow

-----------------------------------------------------------------------------
(* The accounts' own requests. *)

LEMMA TabCarries ==
  ASSUME AccountsInv, NEW t \in Browsers
  PROVE  /\ tab[t] \in TabRequests /\ TabOK(tab[t])
         /\ tab[t].pc # "idle" =>
              tab[t].user \in Users /\ clerk[tab[t].user] \in Clerks
                /\ row[tab[t].user] \in UserRow /\ HasAccount(tab[t].user)
  BY DEF AccountsInv, AccountsTypeOK, TabsSound, TabOK

LEMMA TabGoesOn ==
  ASSUME AccountsInv, NEW t \in Browsers, NEW s \in TabRequests,
         TabStep(t, s), TabOK(s), signup' \in [Users -> Forms],
         UNCHANGED <<clerk, row, applied, events, admin, mfa, granted>>
  PROVE  AccountsInv'
  <1>1. Forward /\ MetaSound' /\ EventsSound' /\ AdminsAreGranted'
    BY AccountsStay
  <1>2. TabOK(s)'
    BY <1>1, TabOKStays
  <1>3. tab' \in [Browsers -> TabRequests] /\ TabsSound' /\ AdminsSound'
    BY <1>1, <1>2, TabTakes, AdminsStay
  <1>4. AccountsTypeOK'
    BY <1>3 DEF AccountsInv, AccountsTypeOK
  <1> QED
    BY <1>1, <1>3, <1>4 DEF AccountsInv

LEMMA TabEnds ==
  ASSUME AccountsInv, NEW t \in Browsers, TabDone(t),
         UNCHANGED <<clerk, row, applied, events, admin, mfa, granted, signup>>
  PROVE  AccountsInv'
  <1>1. PICK s : s = IdleTab
    OBVIOUS
  <1>2. s \in TabRequests /\ TabOK(s) /\ TabStep(t, s)
    BY <1>1, IdleFacts DEF TabOK, TabDone
  <1>3. signup' \in [Users -> Forms]
    BY DEF AccountsInv, AccountsTypeOK
  <1> QED
    BY <1>2, <1>3, TabGoesOn

LEMMA RequestInv ==
  ASSUME AccountsInv, NEW t \in Browsers, NEW name \in TabOps, NEW u \in Users,
         Request(t, name, u), signup' \in [Users -> Forms]
  PROVE  AccountsInv'
  <1>1. PICK s : s = [IdleTab EXCEPT !.pc = "sent", !.op = name, !.user = u]
    OBVIOUS
  <1>2. s \in TabRequests /\ s.pc = "sent" /\ s.user = u
    BY <1>1, IdleFacts DEF TabRequests, IdleTab
  <1>3. TabOK(s)
    BY <1>2 DEF TabOK, Request, HasAccount
  <1>4. /\ TabStep(t, s)
        /\ UNCHANGED <<clerk, row, applied, events, admin, mfa, granted>>
    BY <1>1 DEF Request
  <1> QED
    BY <1>2, <1>3, <1>4, TabGoesOn

\* The guard lets a request in with the row it read.
LEMMA AdmittedOK ==
  ASSUME AccountsInv, NEW t \in Browsers, tab[t].pc # "idle", NEW r \in UserRow,
         NEW s, s = Admitted(t, r)
  PROVE  /\ s \in TabRequests
         /\ s.pc # "idle" => s.pc = "in" /\ s.user = tab[t].user
  <1>1. tab[t] \in TabRequests
    BY TabCarries
  <1>2. CASE r.disabled
    BY <1>2, IdleFacts DEF Admitted
  <1>3. CASE ~ r.disabled
    <2>1. s = [tab[t] EXCEPT !.pc = "in", !.read = r]
      BY <1>3 DEF Admitted
    <2> QED
      BY <1>1, <2>1 DEF TabRequests
  <1> QED
    BY <1>2, <1>3

LEMMA FindUserInv ==
  ASSUME AccountsInv, NEW t \in Browsers, FindUser(t)
  PROVE  AccountsInv'
  <1>1. PICK u : u = tab[t].user
    OBVIOUS
  <1>2. /\ tab[t] \in TabRequests /\ tab[t].pc = "sent"
        /\ u \in Users /\ row[u] \in UserRow /\ HasAccount(u)
    BY <1>1, TabCarries DEF FindUser
  <1>3. PICK s : s = IF HasRow(u) THEN Admitted(t, row[u])
                     ELSE [tab[t] EXCEPT !.pc = "heal"]
    OBVIOUS
  <1>4. s \in TabRequests /\ TabOK(s)
    <2>1. CASE HasRow(u)
      <3>1. PICK r : r = row[u]
        OBVIOUS
      <3>2. s = Admitted(t, r)
        BY <1>3, <2>1, <3>1
      <3>3. s \in TabRequests /\ (s.pc # "idle" => s.pc = "in" /\ s.user = u)
        BY <1>1, <1>2, <3>1, <3>2, AdmittedOK
      <3> QED
        BY <1>2, <2>1, <3>3 DEF TabOK
    <2>2. CASE ~ HasRow(u)
      <3>1. s = [tab[t] EXCEPT !.pc = "heal"]
        BY <1>3, <2>2
      <3>2. s \in TabRequests /\ s.pc = "heal" /\ s.user = u
        BY <1>1, <1>2, <3>1 DEF TabRequests
      <3> QED
        BY <1>2, <3>2 DEF TabOK
    <2> QED
      BY <2>1, <2>2
  <1>5. /\ TabStep(t, s)
        /\ UNCHANGED <<clerk, row, applied, events, admin, mfa, granted, signup>>
    BY <1>1, <1>3 DEF FindUser
  <1>6. signup' \in [Users -> Forms]
    BY <1>5 DEF AccountsInv, AccountsTypeOK
  <1> QED
    BY <1>4, <1>5, <1>6, TabGoesOn

\* A request that goes on with a change of its account's row.
LEMMA TabWithRow ==
  ASSUME AccountsInv, NEW t \in Browsers, NEW s \in TabRequests,
         TabStep(t, s), TabOK(s)',
         NEW u \in Users, NEW r \in UserRow, row' = [row EXCEPT ![u] = r],
         HasAccount(u), r.role # "none", r.role \in AdminRoles => granted[u] = r.role,
         applied' \subseteq Users,
         UNCHANGED <<clerk, events, admin, mfa, granted, signup>>
  PROVE  AccountsInv'
  <1>1. /\ row' \in [Users -> UserRow]
        /\ Forward /\ MetaSound' /\ EventsSound' /\ AdminsAreGranted'
    BY RowTakes
  <1>2. tab' \in [Browsers -> TabRequests] /\ TabsSound' /\ AdminsSound'
    BY <1>1, TabTakes, AdminsStay
  <1>3. AccountsTypeOK'
    BY <1>1, <1>2 DEF AccountsInv, AccountsTypeOK
  <1> QED
    BY <1>1, <1>2, <1>3 DEF AccountsInv

LEMMA SelfHealInv ==
  ASSUME AccountsInv, NEW t \in Browsers, SelfHeal(t)
  PROVE  AccountsInv'
  <1>1. PICK u : u = tab[t].user
    OBVIOUS
  <1>2. /\ tab[t] \in TabRequests /\ tab[t].pc = "heal"
        /\ u \in Users /\ row[u] \in UserRow /\ HasAccount(u)
    BY <1>1, TabCarries DEF SelfHeal
  <1>3. PICK r : r = IF HasRow(u) THEN row[u] ELSE [NoUser EXCEPT !.role = "client"]
    OBVIOUS
  <1>4. /\ r \in UserRow /\ r.role # "none"
        /\ r.role \in AdminRoles => granted[u] = r.role
    <2>1. CASE HasRow(u)
      BY <1>2, <1>3, <2>1, RowHasGrant
    <2>2. CASE ~ HasRow(u)
      <3>1. r = [NoUser EXCEPT !.role = "client"]
        BY <1>3, <2>2
      <3>2. r.role = "client" /\ r \in UserRow
        BY <3>1, RoleFacts DEF NoUser, UserRow
      <3> QED
        BY <3>2, RoleFacts
    <2> QED
      BY <2>1, <2>2
  <1>5. PICK s : s = Admitted(t, r)
    OBVIOUS
  <1>6. s \in TabRequests /\ (s.pc # "idle" => s.pc = "in" /\ s.user = u)
    BY <1>1, <1>2, <1>4, <1>5, AdmittedOK
  <1>7. /\ row' = [row EXCEPT ![u] = r] /\ TabStep(t, s)
        /\ UNCHANGED <<clerk, applied, events, admin, mfa, granted, signup>>
    BY <1>1, <1>3, <1>5 DEF SelfHeal
  <1>8. row'[u] = r
    BY <1>2, <1>7 DEF AccountsInv, AccountsTypeOK
  <1>9. TabOK(s)'
    BY <1>2, <1>4, <1>6, <1>7, <1>8 DEF TabOK, HasAccount, HasRow
  <1>10. applied' \subseteq Users
    BY <1>7 DEF AccountsInv, AccountsTypeOK
  <1> QED
    BY <1>2, <1>4, <1>6, <1>7, <1>9, <1>10, TabWithRow

LEMMA ChangeAtClerkInv ==
  ASSUME AccountsInv, NEW t \in Browsers, ChangeAtClerk(t)
  PROVE  AccountsInv'
  <1>1. PICK u : u = tab[t].user
    OBVIOUS
  <1>2. /\ tab[t] \in TabRequests /\ u \in Users /\ clerk[u] \in Clerks
        /\ clerk[u].live = "yes" /\ HasRow(u)
    BY <1>1, TabCarries DEF ChangeAtClerk, TabAt, TabOK
  <1>3. PICK c : c = [clerk[u] EXCEPT !.temp = FALSE]
    OBVIOUS
  <1>4. PICK s : s = [tab[t] EXCEPT !.pc = "second"]
    OBVIOUS
  <1>5. c \in Clerks /\ c.live = "yes"
    BY <1>2, <1>3 DEF Clerks
  <1>6. s \in TabRequests /\ s.user = u
    BY <1>1, <1>2, <1>4 DEF TabRequests
  <1>7. /\ AtClerk(u, c) /\ TabStep(t, s)
        /\ UNCHANGED <<row, applied, admin, mfa, granted, signup>>
    BY <1>1, <1>3, <1>4 DEF ChangeAtClerk
  <1>8. /\ clerk' \in [Users -> Clerks]
        /\ events' \subseteq [user : Users, meta : Roles \cup {"none"}]
        /\ Forward /\ MetaSound' /\ EventsSound' /\ AdminsAreGranted'
    BY <1>2, <1>5, <1>7, ClerkOfRow
  <1>9. HasAccount(u)
    BY <1>2 DEF HasAccount
  <1>10. TabOK(s)'
    BY <1>2, <1>6, <1>8, <1>9 DEF TabOK, Forward
  <1>11. tab' \in [Browsers -> TabRequests] /\ TabsSound' /\ AdminsSound'
    BY <1>6, <1>7, <1>8, <1>10, TabTakes, AdminsStay
  <1>12. AccountsTypeOK'
    BY <1>7, <1>8, <1>11 DEF AccountsInv, AccountsTypeOK
  <1> QED
    BY <1>8, <1>11, <1>12 DEF AccountsInv

LEMMA ChangeRowInv ==
  ASSUME AccountsInv, NEW t \in Browsers, ChangeRow(t)
  PROVE  AccountsInv'
  <1>1. PICK u : u = tab[t].user
    OBVIOUS
  <1>2. u \in Users /\ HasRow(u)
    BY <1>1, TabCarries DEF ChangeRow, TabAt, TabOK
  <1>3. PICK r : r = [row[u] EXCEPT !.must = FALSE]
    OBVIOUS
  <1>4. r \in UserRow /\ r.role = row[u].role
    BY <1>2, <1>3, RowHasGrant DEF UserRow
  <1>5. PICK s : s = IdleTab
    OBVIOUS
  <1>6. /\ row' = [row EXCEPT ![u] = r] /\ TabStep(t, s)
        /\ UNCHANGED <<clerk, applied, events, admin, mfa, granted, signup>>
    BY <1>1, <1>2, <1>3, <1>5 DEF ChangeRow, TabDone
  <1>7. s \in TabRequests /\ TabOK(s)'
    BY <1>5, IdleFacts DEF TabOK
  <1>8. applied' \subseteq Users
    BY <1>6 DEF AccountsInv, AccountsTypeOK
  <1> QED
    BY <1>2, <1>4, <1>6, <1>7, <1>8, RowHasGrant, TabWithRow

LEMMA BecomeCandidateInv ==
  ASSUME AccountsInv, NEW t \in Browsers, BecomeCandidate(t)
  PROVE  AccountsInv'
  <1>1. PICK u : u = tab[t].user
    OBVIOUS
  <1>2. u \in Users /\ HasRow(u)
    BY <1>1, TabCarries DEF BecomeCandidate, TabAt, TabOK
  <1>3. TabDone(t) /\ UNCHANGED <<clerk, events, admin, mfa, granted, signup>>
    BY DEF BecomeCandidate
  <1>4. CASE u \in applied
    BY <1>1, <1>3, <1>4, TabEnds DEF BecomeCandidate
  <1>5. CASE u \notin applied
    <2>1. PICK r : r = [row[u] EXCEPT !.role = "candidate"]
      OBVIOUS
    <2>2. r \in UserRow /\ r.role = "candidate"
      BY <1>2, <2>1, RowHasGrant, RoleFacts DEF UserRow
    <2>3. row' = [row EXCEPT ![u] = r] /\ applied' = applied \cup {u}
      BY <1>1, <1>2, <1>5, <2>1 DEF BecomeCandidate
    <2>4. PICK s : s = IdleTab
      OBVIOUS
    <2>5. s \in TabRequests /\ TabOK(s)' /\ TabStep(t, s)
      BY <1>3, <2>4, IdleFacts DEF TabOK, TabDone
    <2>6. applied' \subseteq Users
      BY <1>2, <2>3 DEF AccountsInv, AccountsTypeOK
    <2> QED
      BY <1>2, <1>3, <2>2, <2>3, <2>5, <2>6, RowHasGrant, RoleFacts, TabWithRow
  <1> QED
    BY <1>4, <1>5

LEMMA MfaInv ==
  ASSUME AccountsInv, NEW u \in Users, NEW m \in [enrolled : BOOLEAN, verified : BOOLEAN],
         Mfa(u, m)
  PROVE  AccountsInv'
  <1>1. /\ UNCHANGED <<clerk, row, applied, events, admin, tab, granted, signup>>
        /\ mfa' \in [Users -> [enrolled : BOOLEAN, verified : BOOLEAN]]
    BY DEF Mfa, AccountsInv, AccountsTypeOK
  <1>2. Forward /\ MetaSound' /\ EventsSound' /\ AdminsAreGranted'
    BY <1>1, AccountsStay
  <1>3. AdminsSound' /\ TabsSound'
    BY <1>1, <1>2, AdminsStay, TabsStay
  <1>4. AccountsTypeOK'
    BY <1>1 DEF AccountsInv, AccountsTypeOK
  <1> QED
    BY <1>2, <1>3, <1>4 DEF AccountsInv

-----------------------------------------------------------------------------
LEMMA AccountsStep == AccountsInv /\ [AccountsNext]_accountsVars => AccountsInv'
  <1> SUFFICES ASSUME AccountsInv, [AccountsNext]_accountsVars
               PROVE  AccountsInv'
    OBVIOUS
  <1>1. ASSUME NEW u \in Users,
               ClientForm(u) \/ CandidateForm(u) \/ VerifyClient(u) \/ VerifyCandidate(u)
        PROVE  AccountsInv'
    <2>1. {"none", "client-code", "candidate-code", "apply"} \subseteq Forms
      BY DEF Forms
    <2>2. CASE ClientForm(u) \/ CandidateForm(u)
      BY <2>1, <2>2, SubmitFormInv DEF ClientForm, CandidateForm
    <2>3. CASE VerifyClient(u) \/ VerifyCandidate(u)
      BY <2>1, <2>3, VerifyCodeInv DEF VerifyClient, VerifyCandidate
    <2> QED
      BY <1>1, <2>2, <2>3
  <1>2. ASSUME NEW u \in Users, NEW m \in [enrolled : BOOLEAN, verified : BOOLEAN],
               Mfa(u, m)
        PROVE  AccountsInv'
    BY <1>2, MfaInv
  <1>3. ASSUME NEW e \in events, NEW again \in BOOLEAN, Webhook(e, again)
        PROVE  AccountsInv'
    BY <1>3, WebhookInv
  <1>4. ASSUME NEW a \in AdminRequesters, NEW u \in Users, NEW role \in Picks,
               SendCreate(a, u, role) \/ SendRole(a, u, role)
        PROVE  AccountsInv'
    <2>1. role \in Roles /\ "create" \in AdminOps /\ "role" \in AdminOps
      BY RoleFacts DEF AdminOps
    <2> QED
      BY <1>4, <2>1, SendInv DEF SendCreate, SendRole
  <1>5. ASSUME NEW a \in AdminRequesters, NEW name \in {"disable", "enable", "reset"},
               NEW u \in Users, SendButton(a, name, u)
        PROVE  AccountsInv'
    <2>1. name \in AdminOps /\ name \notin {"create", "role"}
      BY DEF AdminOps
    <2> QED
      BY <1>5, <2>1, SendInv DEF SendButton
  <1>6. ASSUME NEW a \in AdminRequesters,
               Check(a) \/ CreateAtClerk(a) \/ CreateRow(a) \/ UndoCreate(a)
        PROVE  AccountsInv'
    BY <1>6, CheckInv, CreateAtClerkInv, CreateRowInv, UndoCreateInv
  <1>7. ASSUME NEW a \in AdminRequesters,
               Toggle(a) \/ UpdateRole(a) \/ MirrorRole(a) \/ ResetAtClerk(a)
                 \/ ResetRow(a)
        PROVE  AccountsInv'
    BY <1>7, ToggleInv, UpdateRoleInv, MirrorRoleInv, ResetAtClerkInv, ResetRowInv
  <1>8. ASSUME NEW a \in AdminRequesters, AdminFails(a)
        PROVE  AccountsInv'
    BY <1>8, AdminEnds DEF AdminFails
  <1>9. ASSUME NEW t \in Browsers, NEW u \in Users, NEW name \in {"open", "password"},
               Browse(t, name, u)
        PROVE  AccountsInv'
    <2>1. name \in TabOps /\ Request(t, name, u) /\ signup' \in [Users -> Forms]
      BY <1>9 DEF TabOps, Browse, AccountsInv, AccountsTypeOK
    <2> QED
      BY <2>1, RequestInv
  <1>10. ASSUME NEW t \in Browsers, NEW u \in Users, Apply(t, u)
         PROVE  AccountsInv'
    <2>1. /\ "candidate" \in TabOps /\ Request(t, "candidate", u)
          /\ signup' \in [Users -> Forms]
      BY <1>10 DEF TabOps, Apply, FormStep, Forms, AccountsInv, AccountsTypeOK
    <2> QED
      BY <2>1, RequestInv
  <1>11. ASSUME NEW t \in Browsers, Answer(t) \/ TabFails(t)
         PROVE  AccountsInv'
    BY <1>11, TabEnds DEF Answer, TabFails
  <1>12. ASSUME NEW t \in Browsers,
                FindUser(t) \/ SelfHeal(t) \/ ChangeAtClerk(t) \/ ChangeRow(t)
                  \/ BecomeCandidate(t)
         PROVE  AccountsInv'
    BY <1>12, FindUserInv, SelfHealInv, ChangeAtClerkInv, ChangeRowInv,
       BecomeCandidateInv
  <1>13. CASE UNCHANGED accountsVars
    <2>1. UNCHANGED <<clerk, row, applied, events, admin, tab, mfa, granted, signup>>
      BY <1>13 DEF accountsVars
    <2>2. Forward /\ MetaSound' /\ EventsSound' /\ AdminsAreGranted'
      BY <2>1, AccountsStay
    <2>3. AdminsSound' /\ TabsSound'
      BY <2>1, <2>2, AdminsStay, TabsStay
    <2>4. AccountsTypeOK'
      BY <2>1 DEF AccountsInv, AccountsTypeOK
    <2> QED
      BY <2>2, <2>3, <2>4 DEF AccountsInv
  <1>14. CASE AccountsNext
    <2>1. CASE \E u \in Users :
                 \/ ClientForm(u) \/ CandidateForm(u) \/ VerifyClient(u)
                 \/ VerifyCandidate(u)
                 \/ \E m \in [enrolled : BOOLEAN, verified : BOOLEAN] : Mfa(u, m)
      BY <2>1, <1>1, <1>2
    <2>2. CASE \E e \in events, again \in BOOLEAN : Webhook(e, again)
      BY <2>2, <1>3
    <2>3. ASSUME NEW a \in AdminRequesters,
                 \/ \E u \in Users, role \in Picks : \/ SendCreate(a, u, role)
                                                  \/ SendRole(a, u, role)
                 \/ \E op \in {"disable", "enable", "reset"}, u \in Users :
                      SendButton(a, op, u)
                 \/ Check(a) \/ CreateAtClerk(a) \/ CreateRow(a) \/ UndoCreate(a)
                 \/ Toggle(a) \/ UpdateRole(a) \/ MirrorRole(a)
                 \/ ResetAtClerk(a) \/ ResetRow(a) \/ AdminFails(a)
          PROVE  AccountsInv'
      BY <2>3, <1>4, <1>5, <1>6, <1>7, <1>8
    <2>4. ASSUME NEW t \in Browsers,
                 \/ \E u \in Users : \/ \E op \in {"open", "password"} : Browse(t, op, u)
                                    \/ Apply(t, u)
                 \/ FindUser(t) \/ SelfHeal(t) \/ Answer(t) \/ ChangeAtClerk(t)
                 \/ ChangeRow(t) \/ BecomeCandidate(t) \/ TabFails(t)
          PROVE  AccountsInv'
      BY <2>4, <1>9, <1>10, <1>11, <1>12
    <2> QED
      BY <1>14, <2>1, <2>2, <2>3, <2>4 DEF AccountsNext, AdminRequesters
  <1> QED
    BY <1>13, <1>14

LEMMA AccountsInvariant == AccountsSpec => []AccountsInv
  BY AccountsInitInv, AccountsStep, PTL DEF AccountsSpec

-----------------------------------------------------------------------------
(* The pages. *)

\* What each page does with the browser.
LEMMA SendsBy ==
  ASSUME NEW u, NEW me
  PROVE  /\ \A p \in Open : Sends(p, u, me) = p
         /\ Sends("sign-up", u, me) = "client-signup"
         /\ Sends("sign-in", u, me) = "dashboard"
         /\ Sends("dashboard", u, me) = Dashboard(u, me)
         /\ \A p \in Gated : Sends(p, u, me) = IF me = "row" THEN Gate(p, u)
                                               ELSE "sign-in"
  <1>1. ASSUME NEW p \in Open PROVE Sends(p, u, me) = p
    BY DEF Sends, Open, Gated
  <1>2. Sends("sign-up", u, me) = "client-signup"
    BY DEF Sends, Open, Gated
  <1>3. Sends("sign-in", u, me) = "dashboard"
    BY DEF Sends, Open, Gated
  <1>4. Sends("dashboard", u, me) = Dashboard(u, me)
    BY DEF Sends, Open, Gated
  <1>5. ASSUME NEW p \in Gated
        PROVE  Sends(p, u, me) = IF me = "row" THEN Gate(p, u) ELSE "sign-in"
    BY DEF Sends, Open, Gated
  <1> QED
    BY <1>1, <1>2, <1>3, <1>4, <1>5

LEMMA GateBy ==
  ASSUME NEW u
  PROVE  /\ Gate("client-dashboard", u) = ClientPage(u)
         /\ Gate("candidate-dashboard", u) = CandidatePage(u)
         /\ Gate("change-password", u) = ChangePasswordPage(u)
         /\ Gate("admin-mfa-setup", u) = MfaSetupPage(u)
         /\ Gate("admin-mfa-challenge", u) = ChallengePage(u)
         /\ Gate("admin-dashboard", u) = AdminPage(u)
  BY DEF Gate

LEMMA DashboardBy ==
  ASSUME NEW u
  PROVE  /\ Dashboard(u, "disabled") = "account-disabled"
         /\ Dashboard(u, "down") = "dashboard"
         /\ Dashboard(u, "row") = Home(u)
  BY DEF Dashboard

\* A browser stays where the dashboard sends it.
LEMMA HomeRests ==
  ASSUME NEW u, HasRow(u), row[u].role \in Roles \cup {"none"}
  PROVE  Home(u) \in Gated /\ Gate(Home(u), u) = Home(u)
  <1>1. row[u].role \in AdminRoles \/ row[u].role = "client" \/ row[u].role = "candidate"
    BY DEF HasRow, Roles
  <1>2. {"client-dashboard", "candidate-dashboard", "change-password",
         "admin-mfa-setup", "admin-mfa-challenge", "admin-dashboard"} = Gated
    BY DEF Gated
  <1>3. CASE row[u].must
    BY <1>2, <1>3, GateBy DEF Home, ChangePasswordPage
  <1>4. CASE ~ row[u].must /\ row[u].role \in AdminRoles
    <2>1. CASE ~ mfa[u].enrolled
      <3>1. Home(u) = "admin-mfa-setup"
        BY <1>4, <2>1 DEF Home
      <3>2. MfaSetupPage(u) = "admin-mfa-setup"
        BY <1>4, <2>1 DEF MfaSetupPage
      <3> QED
        BY <1>2, <3>1, <3>2, GateBy
    <2>2. CASE mfa[u].enrolled /\ mfa[u].verified
      <3>1. Home(u) = "admin-dashboard"
        BY <1>4, <2>2 DEF Home
      <3>2. AdminPage(u) = "admin-dashboard"
        BY <1>4, <2>2 DEF AdminPage
      <3> QED
        BY <1>2, <3>1, <3>2, GateBy
    <2>3. CASE mfa[u].enrolled /\ ~ mfa[u].verified
      <3>1. Home(u) = "admin-mfa-challenge"
        BY <1>4, <2>3 DEF Home
      <3>2. ChallengePage(u) = "admin-mfa-challenge"
        BY <1>4, <2>3 DEF ChallengePage
      <3> QED
        BY <1>2, <3>1, <3>2, GateBy
    <2> QED
      BY <2>1, <2>2, <2>3
  <1>5. CASE ~ row[u].must /\ row[u].role \notin AdminRoles /\ row[u].role = "client"
    <2>1. Home(u) = "client-dashboard" /\ ClientPage(u) = "client-dashboard"
      BY <1>5 DEF Home, ClientPage
    <2> QED
      BY <1>2, <2>1, GateBy
  <1>6. CASE /\ ~ row[u].must /\ row[u].role \notin AdminRoles
             /\ row[u].role = "candidate"
    <2>1. Home(u) = "candidate-dashboard" /\ CandidatePage(u) = "candidate-dashboard"
      BY <1>6 DEF Home, CandidatePage
    <2> QED
      BY <1>2, <2>1, GateBy
  <1> QED
    BY <1>1, <1>3, <1>4, <1>5, <1>6

LEMMA DashboardRests ==
  ASSUME NEW u, HasRow(u), row[u].role \in Roles \cup {"none"},
         NEW me \in {"row", "disabled", "down"},
         NEW d, d = Sends("dashboard", u, me)
  PROVE  Sends(d, u, me) = d
  <1>1. d = Dashboard(u, me)
    BY SendsBy
  <1>2. CASE me = "row"
    <2>1. d = Home(u) /\ d \in Gated /\ Gate(d, u) = d
      BY <1>1, <1>2, DashboardBy, HomeRests
    <2> QED
      BY <1>2, <2>1, SendsBy
  <1>3. CASE me = "disabled"
    <2>1. d = "account-disabled" /\ d \in Open
      BY <1>1, <1>3, DashboardBy DEF Open
    <2> QED
      BY <2>1, SendsBy
  <1>4. CASE me = "down"
    <2>1. d = "dashboard"
      BY <1>1, <1>4, DashboardBy
    <2> QED
      BY <2>1
  <1> QED
    BY <1>2, <1>3, <1>4

\* The pages of an admin lead to each other and come to rest.
LEMMA AdminPagesRest ==
  ASSUME NEW u, row[u].role \in AdminRoles
  PROVE  /\ MfaSetupPage(u) \in {"admin-mfa-setup", "admin-mfa-challenge"}
         /\ MfaSetupPage(u) = "admin-mfa-challenge" =>
              \/ ChallengePage(u) = "admin-mfa-challenge"
              \/ /\ ChallengePage(u) = "admin-dashboard"
                 /\ AdminPage(u) = "admin-dashboard"
         /\ ChallengePage(u) \in {"admin-mfa-setup", "admin-mfa-challenge",
                                  "admin-dashboard"}
         /\ ChallengePage(u) = "admin-mfa-setup" => MfaSetupPage(u) = "admin-mfa-setup"
         /\ ChallengePage(u) = "admin-dashboard" => AdminPage(u) = "admin-dashboard"
         /\ AdminPage(u) \in {"admin-mfa-setup", "admin-mfa-challenge",
                              "admin-dashboard"}
         /\ AdminPage(u) = "admin-mfa-setup" => MfaSetupPage(u) = "admin-mfa-setup"
         /\ AdminPage(u) = "admin-mfa-challenge"
              => ChallengePage(u) = "admin-mfa-challenge"
  BY DEF MfaSetupPage, ChallengePage, AdminPage

\* From a page the browser goes home, stays, or goes to an admin page that is
\* at most one step from rest.
LEMMA GateLeads ==
  ASSUME NEW u, NEW p \in Gated
  PROVE  LET q == Gate(p, u) IN
           \/ q = p \/ q = "dashboard"
           \/ /\ q \in Gated
              /\ \/ Gate(q, u) = q
                 \/ /\ Gate(q, u) = "admin-dashboard"
                    /\ AdminPage(u) = "admin-dashboard"
  <1>1. \/ p = "client-dashboard" \/ p = "candidate-dashboard" \/ p = "change-password"
        \/ p = "admin-mfa-setup" \/ p = "admin-mfa-challenge" \/ p = "admin-dashboard"
    BY DEF Gated
  <1>2. /\ "admin-mfa-setup" \in Gated /\ "admin-mfa-challenge" \in Gated
        /\ "admin-dashboard" \in Gated
    BY DEF Gated
  <1>3. CASE p \in {"client-dashboard", "candidate-dashboard", "change-password"}
    BY <1>3, GateBy DEF ClientPage, CandidatePage, ChangePasswordPage
  <1>4. CASE /\ p \in {"admin-mfa-setup", "admin-mfa-challenge", "admin-dashboard"}
             /\ row[u].role \notin AdminRoles
    BY <1>4, GateBy DEF MfaSetupPage, ChallengePage, AdminPage
  <1>5. CASE p = "admin-mfa-setup" /\ row[u].role \in AdminRoles
    <2>1. Gate(p, u) = MfaSetupPage(u)
      BY <1>5, GateBy
    <2>2. CASE MfaSetupPage(u) = "admin-mfa-setup"
      BY <1>2, <1>5, <2>1, <2>2, GateBy, AdminPagesRest
    <2>3. CASE MfaSetupPage(u) = "admin-mfa-challenge"
      BY <1>2, <1>5, <2>1, <2>3, GateBy, AdminPagesRest
    <2> QED
      BY <1>5, AdminPagesRest, <2>2, <2>3
  <1>6. CASE p = "admin-mfa-challenge" /\ row[u].role \in AdminRoles
    <2>1. Gate(p, u) = ChallengePage(u)
      BY <1>6, GateBy
    <2>2. CASE ChallengePage(u) = "admin-mfa-setup"
      BY <1>2, <1>6, <2>1, <2>2, GateBy, AdminPagesRest
    <2>3. CASE ChallengePage(u) = "admin-mfa-challenge"
      BY <1>2, <1>6, <2>1, <2>3, GateBy, AdminPagesRest
    <2>4. CASE ChallengePage(u) = "admin-dashboard"
      BY <1>2, <1>6, <2>1, <2>4, GateBy, AdminPagesRest
    <2> QED
      BY <1>6, AdminPagesRest, <2>2, <2>3, <2>4
  <1>7. CASE p = "admin-dashboard" /\ row[u].role \in AdminRoles
    <2>1. Gate(p, u) = AdminPage(u)
      BY <1>7, GateBy
    <2>2. CASE AdminPage(u) = "admin-mfa-setup"
      BY <1>2, <1>7, <2>1, <2>2, GateBy, AdminPagesRest
    <2>3. CASE AdminPage(u) = "admin-mfa-challenge"
      BY <1>2, <1>7, <2>1, <2>3, GateBy, AdminPagesRest
    <2>4. CASE AdminPage(u) = "admin-dashboard"
      BY <1>2, <1>7, <2>1, <2>4, GateBy, AdminPagesRest
    <2> QED
      BY <1>7, AdminPagesRest, <2>2, <2>3, <2>4
  <1> QED
    BY <1>1, <1>3, <1>4, <1>5, <1>6, <1>7

\* Three redirects are enough.
LEMMA ThreeAreEnough ==
  ASSUME NEW u, HasRow(u), row[u].role \in Roles \cup {"none"},
         NEW me \in {"row", "disabled", "down"}, NEW p \in Pages,
         NEW p1, p1 = Sends(p, u, me), NEW p2, p2 = Sends(p1, u, me),
         NEW p3, p3 = Sends(p2, u, me)
  PROVE  Sends(p3, u, me) = p3
  <1>1. p \in Open \/ p \in Gated \/ p = "dashboard" \/ p = "sign-in" \/ p = "sign-up"
    BY DEF Pages
  <1>2. CASE p \in Open
    BY <1>2, SendsBy
  <1>3. CASE p = "sign-up"
    <2>1. p1 = "client-signup" /\ p1 \in Open
      BY <1>3, SendsBy DEF Open
    <2> QED
      BY <2>1, SendsBy
  <1>4. CASE p = "dashboard"
    <2>1. p2 = p1
      BY <1>4, DashboardRests
    <2> QED
      BY <2>1
  <1>5. CASE p = "sign-in"
    <2>1. p1 = "dashboard"
      BY <1>5, SendsBy
    <2>2. p3 = p2
      BY <2>1, DashboardRests
    <2> QED
      BY <2>2
  <1>6. CASE p \in Gated /\ me # "row"
    <2>1. p1 = "sign-in"
      BY <1>6, SendsBy
    <2>2. p2 = "dashboard"
      BY <2>1, SendsBy
    <2> QED
      BY <2>2, DashboardRests
  <1>7. CASE p \in Gated /\ me = "row"
    <2>1. p1 = Gate(p, u)
      BY <1>7, SendsBy
    <2>2. CASE p1 = p
      BY <2>2
    <2>3. CASE p1 = "dashboard"
      <3>1. p3 = p2
        BY <2>3, DashboardRests
      <3> QED
        BY <3>1
    <2>4. CASE /\ p1 \in Gated
               /\ \/ Gate(p1, u) = p1
                  \/ Gate(p1, u) = "admin-dashboard" /\ AdminPage(u) = "admin-dashboard"
      <3>1. p2 = Gate(p1, u)
        BY <1>7, <2>4, SendsBy
      <3>2. CASE p2 = p1
        BY <3>2
      <3>3. CASE p2 = "admin-dashboard" /\ AdminPage(u) = "admin-dashboard"
        <4>1. p2 \in Gated /\ Gate(p2, u) = p2
          BY <3>3, GateBy DEF Gated
        <4>2. p3 = p2
          BY <1>7, <4>1, SendsBy
        <4> QED
          BY <4>2
      <3> QED
        BY <2>4, <3>1, <3>2, <3>3
    <2> QED
      BY <1>7, <2>1, <2>2, <2>3, <2>4, GateLeads
  <1> QED
    BY <1>1, <1>2, <1>3, <1>4, <1>5, <1>6, <1>7

LEMMA PageRests ==
  ASSUME AccountsTypeOK, NEW u \in Users, HasRow(u), NEW p \in Pages,
         NEW me \in Answers(u) \ {"refused"}
  PROVE  Rests(p, u, me)
  <1>1. PICK p1 : p1 = Sends(p, u, me)
    OBVIOUS
  <1>2. PICK p2 : p2 = Sends(p1, u, me)
    OBVIOUS
  <1>3. PICK p3 : p3 = Sends(p2, u, me)
    OBVIOUS
  <1>4. row[u].role \in Roles \cup {"none"}
    BY DEF AccountsTypeOK, UserRow
  <1>5. me \in {"row", "disabled", "down"}
    BY DEF Answers, Me
  <1>6. Sends(p3, u, me) = p3
    BY <1>1, <1>2, <1>3, <1>4, <1>5, ThreeAreEnough
  <1>7. After(p, u, me) = Sends(p3, u, me)
    BY <1>1, <1>2, <1>3 DEF After
  <1> QED
    BY <1>6, <1>7 DEF Rests

LEMMA PagesRest == AccountsTypeOK => RedirectsSettle
  BY PageRests DEF RedirectsSettle

-----------------------------------------------------------------------------
\* Accounts, rows, events and the requests keep their types, for any number of
\* accounts, admins and browsers.
THEOREM AccountsTypeCorrect == AccountsSpec => []AccountsTypeOK
  <1>1. AccountsInv => AccountsTypeOK
    BY DEF AccountsInv
  <1> QED
    BY <1>1, AccountsInvariant, PTL

\* Whoever is an admin was made one by the last admin who set the role, with
\* any events late, twice or out of order and any requests at once (updateRole,
\* ClerkWebhookController, ClerkAuthGuard, MeController.becomeCandidate).
THEOREM AdminRolesAreGranted == AccountsSpec => []AdminsAreGranted
  <1>1. AccountsInv => AdminsAreGranted
    BY DEF AccountsInv
  <1> QED
    BY <1>1, AccountsInvariant, PTL

\* Whatever the account is by now, a browser whose session is not refused, or no
\* longer, comes to rest from any page (frontend/app/[locale]/each page.tsx).
THEOREM PagesSettle == AccountsSpec => []RedirectsSettle
  <1>1. AccountsInv => RedirectsSettle
    BY PagesRest DEF AccountsInv
  <1> QED
    BY <1>1, AccountsInvariant, PTL
=============================================================================
