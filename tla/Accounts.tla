------------------------------ MODULE Accounts ------------------------------
(***************************************************************************)
(* Accounts: Clerk's and their rows in our User table, and who changes     *)
(* them at the same time: the sign-up forms, ClerkAuthGuard's self-heal,   *)
(* Clerk's webhook, the admins of AdminUsersController and the account's   *)
(* own requests (MeController).  Then the pages: which of them a signed-in *)
(* browser rests on, for the row as it is (frontend/app/[locale]).         *)
(*                                                                         *)
(* Names, mails and phones are left out; of a password the model keeps     *)
(* whether it is the temporary one.  Clerk's side is external.             *)
(*                                                                         *)
(* SignInProofs EXTENDS this module and MfaFactors: a name that both would *)
(* define carries this module's.                                           *)
(***************************************************************************)
EXTENDS Naturals, FiniteSets

CONSTANTS Users,    \* Clerk accounts
          Admins,   \* requests of other, plain admins
          Supers,   \* ... and of super admins
          Browsers, \* requests of an account of its own
          Picks     \* bound: roles that admins hand out

ASSUME AccountsAssumption ==
  Picks \subseteq {"client", "candidate", "admin", "super_admin"}

VARIABLES clerk,    \* per account, Clerk's side of it
          row,      \* per account, the User row
          applied,  \* accounts with a CandidateApplication
          events,   \* user.created and user.updated on their way
          admin,    \* the admins' requests
          tab,      \* the accounts' own requests
          mfa,      \* accounts enrolled; sessions verified (MfaFactors.tla)
          granted,  \* history: the role an admin gave last
          signup    \* per account, the sign-up form it is on

accountsVars == <<clerk, row, applied, events, admin, tab, mfa, granted, signup>>

AdminRoles == {"admin", "super_admin"}
Roles == {"client", "candidate"} \cup AdminRoles

NoUser == [role |-> "none", must |-> FALSE, disabled |-> FALSE]
UserRow == [role : Roles \cup {"none"}, must : BOOLEAN, disabled : BOOLEAN]
Clerks == [live : {"no", "yes", "deleted"}, temp : BOOLEAN,
           meta : Roles \cup {"none"}]
IdleAdmin == [pc |-> "idle", op |-> "none", user |-> "none", role |-> "none"]
IdleTab == [pc |-> "idle", op |-> "none", user |-> "none", read |-> NoUser]
AdminOps == {"create", "disable", "enable", "role", "reset"}
TabOps == {"open", "password", "candidate"}
\* A sign-up form: not begun, waiting for the mail's code, and then done, with
\* the application of a candidate still to be sent or sent.
Forms == {"none", "client-code", "candidate-code", "apply", "applied"}

AdminRequests == [pc : {"idle", "sent", "checked", "second", "undo"},
                  op : AdminOps \cup {"none"}, user : Users \cup {"none"},
                  role : Roles \cup {"none"}]
TabRequests == [pc : {"idle", "sent", "heal", "in", "second"},
                op : TabOps \cup {"none"}, user : Users \cup {"none"},
                read : UserRow]

AccountsTypeOK ==
  /\ clerk \in [Users -> Clerks] /\ row \in [Users -> UserRow]
  /\ applied \subseteq Users
  /\ events \subseteq [user : Users, meta : Roles \cup {"none"}]
  /\ admin \in [Admins \cup Supers -> AdminRequests]
  /\ tab \in [Browsers -> TabRequests]
  /\ mfa \in [Users -> [enrolled : BOOLEAN, verified : BOOLEAN]]
  /\ granted \in [Users -> Roles \cup {"none"}]
  /\ signup \in [Users -> Forms]

AccountsInit ==
  /\ clerk = [u \in Users |-> [live |-> "no", temp |-> FALSE, meta |-> "none"]]
  /\ row = [u \in Users |-> NoUser]
  /\ applied = {} /\ events = {}
  /\ admin = [a \in Admins \cup Supers |-> IdleAdmin]
  /\ tab = [t \in Browsers |-> IdleTab]
  /\ mfa = [u \in Users |-> [enrolled |-> FALSE, verified |-> FALSE]]
  /\ granted = [u \in Users |-> "none"]
  /\ signup = [u \in Users |-> "none"]

HasRow(u) == row[u].role # "none"

-----------------------------------------------------------------------------
(* Clerk.                                                                  *)

\* A change at Clerk, and the event it sends.
AtClerk(u, c) == /\ clerk' = [clerk EXCEPT ![u] = c]
                 /\ events' = events \cup {[user |-> u, meta |-> c.meta]}

FormStep(u, f) == signup' = [signup EXCEPT ![u] = f]

\* The filled-in form: the account is made, the code is on its way; back and
\* again as often as there is none.
SubmitForm(u, code) ==
  /\ clerk[u].live = "no" /\ signup[u] # code
  /\ FormStep(u, code)
  /\ UNCHANGED <<clerk, row, applied, events, admin, tab, mfa, granted>>

\* The six steps of a client's form, and the one of a candidate's.
ClientForm(u) == SubmitForm(u, "client-code")
CandidateForm(u) == SubmitForm(u, "candidate-code")

\* The code is right, the account is on and signed in.
VerifyCode(u, code, next) ==
  /\ signup[u] = code /\ clerk[u].live = "no"
  /\ AtClerk(u, [clerk[u] EXCEPT !.live = "yes"])
  /\ FormStep(u, next)
  /\ UNCHANGED <<row, applied, admin, tab, mfa, granted>>

VerifyClient(u) == VerifyCode(u, "client-code", "none")
VerifyCandidate(u) == VerifyCode(u, "candidate-code", "apply")

\* The mutant of Upsert: the role is synced along with the rest.
UpsertRole(u, meta) ==
  row' = [row EXCEPT ![u].role = IF meta = "none" THEN "client" ELSE meta]

\* ClerkWebhookController: the update branch leaves the role alone.
Upsert(u, meta) ==
  row' = IF HasRow(u) THEN row
         ELSE [row EXCEPT ![u] = [NoUser EXCEPT !.role =
                                    IF meta = "none" THEN "client" ELSE meta]]

\* Events come late, twice and in any order.
Webhook(e, again) ==
  /\ Upsert(e.user, e.meta)
  /\ events' = IF again THEN events ELSE events \ {e}
  /\ UNCHANGED <<clerk, applied, admin, tab, mfa, granted, signup>>

-----------------------------------------------------------------------------
(* The admins: AdminUsersController, from AdminClientsSection.             *)

AdminStep(a, r) == admin' = [admin EXCEPT ![a] = r]
AdminDone(a) == AdminStep(a, IdleAdmin)
AdminAt(a, pc, ops) == admin[a].pc = pc /\ admin[a].op \in ops

Send(a, op, u, role) ==
  /\ admin[a].pc = "idle"
  /\ AdminStep(a, [pc |-> "sent", op |-> op, user |-> u, role |-> role])
  /\ UNCHANGED <<clerk, row, applied, events, tab, mfa, granted, signup>>

\* The form for a new account, and the roles and the buttons of a row.
SendCreate(a, u, role) == clerk[u].live = "no" /\ Send(a, "create", u, role)
SendRole(a, u, role) == HasRow(u) /\ Send(a, "role", u, role)
SendButton(a, op, u) == HasRow(u) /\ Send(a, op, u, "none")

\* assertCanGrantRole and assertCanActOnTarget, over the row as it is read.
MayGrant(a, role) == role = "super_admin" => a \in Supers
MayActOn(a, u) == row[u].role = "super_admin" => a \in Supers

Check(a) ==
  LET r == admin[a] IN
  /\ r.pc = "sent"
  /\ IF MayGrant(a, r.role) /\ (r.op # "create" => MayActOn(a, r.user))
     THEN AdminStep(a, [r EXCEPT !.pc = "checked"]) ELSE AdminDone(a)
  /\ UNCHANGED <<clerk, row, applied, events, tab, mfa, granted, signup>>

\* create(): the account at Clerk, with a temporary password; an account that
\* is there already is a conflict.
CreateAtClerk(a) ==
  LET u == admin[a].user IN
  /\ AdminAt(a, "checked", {"create"})
  /\ IF clerk[u].live = "no"
     THEN /\ AtClerk(u, [live |-> "yes", temp |-> TRUE, meta |-> admin[a].role])
          /\ granted' = [granted EXCEPT ![u] = admin[a].role]
          /\ AdminStep(a, [admin[a] EXCEPT !.pc = "second"])
     ELSE AdminDone(a) /\ UNCHANGED <<clerk, events, granted>>
  /\ UNCHANGED <<row, applied, tab, mfa, signup>>

\* ... then the row; if there is one by now, Clerk's account is taken back.
CreateRow(a) ==
  LET u == admin[a].user IN
  /\ AdminAt(a, "second", {"create"})
  /\ IF HasRow(u)
     THEN row' = row /\ AdminStep(a, [admin[a] EXCEPT !.pc = "undo"])
     ELSE /\ row' = [row EXCEPT ![u] = [role |-> admin[a].role, must |-> TRUE,
                                        disabled |-> FALSE]]
          /\ AdminDone(a)
  /\ UNCHANGED <<clerk, applied, events, tab, mfa, granted, signup>>

UndoCreate(a) ==
  /\ admin[a].pc = "undo"
  /\ clerk' = [clerk EXCEPT ![admin[a].user].live = "deleted"]
  /\ AdminDone(a)
  /\ UNCHANGED <<row, applied, events, tab, mfa, granted, signup>>

\* disable() and enable().
Toggle(a) ==
  /\ AdminAt(a, "checked", {"disable", "enable"})
  /\ row' = [row EXCEPT ![admin[a].user].disabled = admin[a].op = "disable"]
  /\ AdminDone(a)
  /\ UNCHANGED <<clerk, applied, events, tab, mfa, granted, signup>>

\* updateRole(): the row first,
UpdateRole(a) ==
  LET r == admin[a] IN
  /\ AdminAt(a, "checked", {"role"})
  /\ row' = [row EXCEPT ![r.user].role = r.role]
  /\ granted' = [granted EXCEPT ![r.user] = r.role]
  /\ AdminStep(a, [r EXCEPT !.pc = "second"])
  /\ UNCHANGED <<clerk, applied, events, tab, mfa, signup>>

\* ... then Clerk's copy, whose failure is ignored (Fail).
MirrorRole(a) ==
  LET r == admin[a] IN
  /\ AdminAt(a, "second", {"role"})
  /\ IF clerk[r.user].live = "yes"
     THEN AtClerk(r.user, [clerk[r.user] EXCEPT !.meta = r.role])
     ELSE UNCHANGED <<clerk, events>>
  /\ AdminDone(a)
  /\ UNCHANGED <<row, applied, tab, mfa, granted, signup>>

\* resetPassword(): Clerk first, and the other sessions end,
ResetAtClerk(a) ==
  LET u == admin[a].user IN
  /\ AdminAt(a, "checked", {"reset"}) /\ clerk[u].live = "yes"
  /\ AtClerk(u, [clerk[u] EXCEPT !.temp = TRUE])
  /\ mfa' = [mfa EXCEPT ![u].verified = FALSE]
  /\ AdminStep(a, [admin[a] EXCEPT !.pc = "second"])
  /\ UNCHANGED <<row, applied, tab, granted, signup>>

\* ... then mustChangePassword.
ResetRow(a) ==
  /\ AdminAt(a, "second", {"reset"})
  /\ row' = [row EXCEPT ![admin[a].user].must = TRUE]
  /\ AdminDone(a)
  /\ UNCHANGED <<clerk, applied, events, tab, mfa, granted, signup>>

\* A call or a statement fails, or the replica goes down.
AdminFails(a) ==
  /\ admin[a].pc # "idle" /\ AdminDone(a)
  /\ UNCHANGED <<clerk, row, applied, events, tab, mfa, granted, signup>>

-----------------------------------------------------------------------------
(* The account's own requests, each through ClerkAuthGuard.                *)

TabStep(t, r) == tab' = [tab EXCEPT ![t] = r]
TabDone(t) == TabStep(t, IdleTab)
TabAt(t, pc, ops) == tab[t].pc = pc /\ tab[t].op \in ops

\* The temporary password is known once create() has answered.
BeingCreated(u) == \E a \in Admins \cup Supers :
  admin[a].user = u /\ admin[a].op = "create" /\ admin[a].pc \in {"second", "undo"}

\* Any page of a signed-in browser, and the change-password form.
Request(t, op, u) ==
  /\ tab[t].pc = "idle"
  /\ clerk[u].live = "yes" /\ ~ BeingCreated(u)
  /\ TabStep(t, [IdleTab EXCEPT !.pc = "sent", !.op = op, !.user = u])
  /\ UNCHANGED <<clerk, row, applied, events, admin, mfa, granted>>

Browse(t, op, u) == Request(t, op, u) /\ UNCHANGED signup

\* The end of a candidate's form, in one handler with the code: a second try
\* fails at the code, which is used, and never comes here.
Apply(t, u) == /\ signup[u] = "apply" /\ FormStep(u, "applied")
               /\ Request(t, "candidate", u)

Admitted(t, r) == IF r.disabled THEN IdleTab
                  ELSE [tab[t] EXCEPT !.pc = "in", !.read = r]

\* The guard reads the row, or finds none.
FindUser(t) ==
  LET u == tab[t].user IN
  /\ tab[t].pc = "sent"
  /\ TabStep(t, IF HasRow(u) THEN Admitted(t, row[u])
                ELSE [tab[t] EXCEPT !.pc = "heal"])
  /\ UNCHANGED <<clerk, row, applied, events, admin, mfa, granted, signup>>

\* The self-heal: the row is created as a client's, or another request has
\* created it (P2002) and it is read again.
SelfHeal(t) ==
  LET u == tab[t].user
      healed == IF HasRow(u) THEN row[u] ELSE [NoUser EXCEPT !.role = "client"] IN
  /\ tab[t].pc = "heal" /\ clerk[u].live = "yes"
  /\ row' = [row EXCEPT ![u] = healed]
  /\ TabStep(t, Admitted(t, healed))
  /\ UNCHANGED <<clerk, applied, events, admin, mfa, granted, signup>>

\* me(), or a refusal: an admin's password is not changed here, and only a
\* client applies.
Answer(t) ==
  LET r == tab[t] IN
  /\ r.pc = "in"
  /\ \/ r.op = "open"
     \/ r.op = "password" /\ r.read.role \in AdminRoles /\ ~ r.read.must
     \/ r.op = "candidate" /\ r.read.role # "client"
  /\ TabDone(t)
  /\ UNCHANGED <<clerk, row, applied, events, admin, mfa, granted, signup>>

\* changePassword(): Clerk first,
ChangeAtClerk(t) ==
  LET u == tab[t].user IN
  /\ TabAt(t, "in", {"password"}) /\ clerk[u].live = "yes"
  /\ tab[t].read.role \notin AdminRoles \/ tab[t].read.must
  /\ AtClerk(u, [clerk[u] EXCEPT !.temp = FALSE])
  /\ TabStep(t, [tab[t] EXCEPT !.pc = "second"])
  /\ UNCHANGED <<row, applied, admin, mfa, granted, signup>>

\* ... then mustChangePassword.
ChangeRow(t) ==
  /\ TabAt(t, "second", {"password"})
  /\ row' = [row EXCEPT ![tab[t].user].must = FALSE]
  /\ TabDone(t)
  /\ UNCHANGED <<clerk, applied, events, admin, mfa, granted, signup>>

\* becomeCandidate(): the role and the application in one transaction, a
\* conflict if there is an application; the role it looked at is the guard's.
BecomeCandidate(t) ==
  LET u == tab[t].user IN
  /\ TabAt(t, "in", {"candidate"}) /\ tab[t].read.role = "client"
  /\ IF u \in applied THEN UNCHANGED <<row, applied>>
     ELSE /\ row' = [row EXCEPT ![u].role = "candidate"]
          /\ applied' = applied \cup {u}
  /\ TabDone(t)
  /\ UNCHANGED <<clerk, events, admin, mfa, granted, signup>>

TabFails(t) ==
  /\ tab[t].pc # "idle" /\ TabDone(t)
  /\ UNCHANGED <<clerk, row, applied, events, admin, mfa, granted, signup>>

\* The setup and the challenge page; a session ends, another begins.
Mfa(u, m) ==
  /\ clerk[u].live = "yes" /\ row[u].role \in AdminRoles /\ mfa[u] # m
  /\ mfa[u].enrolled => m.enrolled
  /\ m.verified => m.enrolled
  /\ mfa' = [mfa EXCEPT ![u] = m]
  /\ UNCHANGED <<clerk, row, applied, events, admin, tab, granted, signup>>

-----------------------------------------------------------------------------
AccountsNext ==
  \/ \E u \in Users :
       \/ ClientForm(u) \/ CandidateForm(u) \/ VerifyClient(u) \/ VerifyCandidate(u)
       \/ \E m \in [enrolled : BOOLEAN, verified : BOOLEAN] : Mfa(u, m)
  \/ \E e \in events, again \in BOOLEAN : Webhook(e, again)
  \/ \E a \in Admins \cup Supers :
       \/ \E u \in Users, role \in Picks : \/ SendCreate(a, u, role)
                                        \/ SendRole(a, u, role)
       \/ \E op \in {"disable", "enable", "reset"}, u \in Users : SendButton(a, op, u)
       \/ Check(a) \/ CreateAtClerk(a) \/ CreateRow(a) \/ UndoCreate(a)
       \/ Toggle(a) \/ UpdateRole(a) \/ MirrorRole(a)
       \/ ResetAtClerk(a) \/ ResetRow(a) \/ AdminFails(a)
  \/ \E t \in Browsers :
       \/ \E u \in Users : \/ \E op \in {"open", "password"} : Browse(t, op, u)
                          \/ Apply(t, u)
       \/ FindUser(t) \/ SelfHeal(t) \/ Answer(t) \/ ChangeAtClerk(t)
       \/ ChangeRow(t) \/ BecomeCandidate(t) \/ TabFails(t)

AccountsSpec == AccountsInit /\ [][AccountsNext]_accountsVars

-----------------------------------------------------------------------------
(* The pages of a signed-in browser: where the server sends it on, given    *)
(* the answer of /me.                                                       *)

Me(u) == IF row[u].disabled THEN "disabled" ELSE "row"

\* "refused" is every other 401 of ClerkAuthGuard, of a session that the backend
\* takes for over and Clerk does not; "down" is a backend that fails.
Answers(u) == {Me(u), "refused", "down"}

\* Where an account with a row belongs.
Home(u) ==
  IF row[u].must THEN "change-password"
  ELSE IF row[u].role \in AdminRoles
       THEN IF ~ mfa[u].enrolled THEN "admin-mfa-setup"
            ELSE IF mfa[u].verified THEN "admin-dashboard" ELSE "admin-mfa-challenge"
  ELSE IF row[u].role = "client" THEN "client-dashboard"
  ELSE IF row[u].role = "candidate" THEN "candidate-dashboard"
  ELSE "application-status"

\* A bug the checks catch: every 401 means the session is over.
DashboardSignsIn(u, me) ==
  CASE me = "disabled" -> "sign-in"
    [] me = "refused"  -> "sign-in"
    [] me = "down"     -> "dashboard"
    [] me = "row"      -> Home(u)

Dashboard(u, me) ==
  CASE me = "disabled" -> "account-disabled"
    [] me = "refused"  -> "sign-in"
    [] me = "down"     -> "dashboard"       \* DashboardLoadError
    [] me = "row"      -> Home(u)

ClientPage(u) == IF row[u].role = "client" THEN "client-dashboard" ELSE "dashboard"
CandidatePage(u) ==
  IF row[u].role = "candidate" THEN "candidate-dashboard" ELSE "dashboard"
ChangePasswordPage(u) == IF row[u].must THEN "change-password" ELSE "dashboard"
MfaSetupPage(u) == IF row[u].role \notin AdminRoles THEN "dashboard"
                ELSE IF mfa[u].enrolled THEN "admin-mfa-challenge"
                ELSE "admin-mfa-setup"
ChallengePage(u) == IF row[u].role \notin AdminRoles THEN "dashboard"
                    ELSE IF ~ mfa[u].enrolled THEN "admin-mfa-setup"
                    ELSE IF mfa[u].verified THEN "admin-dashboard"
                    ELSE "admin-mfa-challenge"
AdminPage(u) == IF row[u].role \notin AdminRoles THEN "dashboard"
                ELSE IF ~ mfa[u].enrolled THEN "admin-mfa-setup"
                ELSE IF ~ mfa[u].verified THEN "admin-mfa-challenge"
                ELSE "admin-dashboard"

Open == {"account-disabled", "application-status", "client-signup"}
Gated == {"client-dashboard", "candidate-dashboard", "change-password",
          "admin-mfa-setup", "admin-mfa-challenge", "admin-dashboard"}
Pages == Open \cup Gated \cup {"dashboard", "sign-in", "sign-up"}

Gate(p, u) ==
  CASE p = "client-dashboard"    -> ClientPage(u)
    [] p = "candidate-dashboard" -> CandidatePage(u)
    [] p = "change-password"     -> ChangePasswordPage(u)
    [] p = "admin-mfa-setup"     -> MfaSetupPage(u)
    [] p = "admin-mfa-challenge" -> ChallengePage(u)
    [] p = "admin-dashboard"     -> AdminPage(u)

\* The sign-in page is Clerk's form, which sends a signed-in browser to
\* /dashboard; every gate takes a failing /me to the sign-in page.
Sends(p, u, me) ==
  CASE p \in Open      -> p
    [] p = "sign-up"   -> "client-signup"
    [] p = "sign-in"   -> "dashboard"
    [] p = "dashboard" -> Dashboard(u, me)
    [] p \in Gated     -> IF me = "row" THEN Gate(p, u) ELSE "sign-in"

\* The page after four redirects.
After(p, u, me) ==
  LET two(q) == Sends(Sends(q, u, me), u, me)
  IN  two(two(p))

Rests(p, u, me) ==
  LET q == After(p, u, me) IN Sends(q, u, me) = q

-----------------------------------------------------------------------------
(* Properties.                                                             *)

\* Whoever is an admin was made one by the last admin who set the role: no
\* webhook, however late, no self-heal and no application brings a role back
\* or makes an admin (updateRole, ClerkWebhookController, ClerkAuthGuard).
AdminsAreGranted ==
  \A u \in Users : row[u].role \in AdminRoles => granted[u] = row[u].role

\* From any page, be it where a refused session sent it, and whatever the account
\* is by now, a browser whose session is not refused comes to rest: no two gates
\* send it back and forth, a disabled account's or a failing backend's included
\* (frontend/app/[locale]/each page.tsx).
RedirectsSettle ==
  \A u \in Users : HasRow(u) => \A p \in Pages, me \in Answers(u) \ {"refused"} :
    Rests(p, u, me)

\* dashboard/page.tsx, sign-in/page.tsx: no ping-pong between the two, a backend
\* that goes on refusing a session Clerk holds good included.
RefusedSettles ==
  \A u \in Users : HasRow(u) => \A p \in Pages : Rests(p, u, "refused")

\* becomeCandidate: "an admin account can never reach this path".
ApplicantIsNoAdmin ==
  [][\A t \in Browsers : BecomeCandidate(t) /\ row[tab[t].user].role \in AdminRoles
       => row' = row]_accountsVars

\* create(): no orphan of either side is left.
RowHasAccount == \A u \in Users : HasRow(u) => clerk[u].live = "yes"

\* resetPassword: mustChangePassword forces a real password on next sign-in.
TempPasswordMustChange ==
  \A u \in Users : clerk[u].live = "yes" /\ clerk[u].temp /\ HasRow(u)
    /\ (\A a \in Admins \cup Supers : admin[a].pc = "idle") => row[u].must

\* assertCanActOnTarget: only a super admin touches a super admin's account.
PlainAdminLeavesSuperAlone ==
  [][\A a \in Admins : (Toggle(a) \/ UpdateRole(a) \/ ResetAtClerk(a))
       => row[admin[a].user].role # "super_admin"]_accountsVars

\* becomeCandidate: "the only path that ever produces a 'candidate' account".
CandidateHasApplied == \A u \in Users : row[u].role = "candidate" => u \in applied

\* CandidateSignup: whoever went through the form has applied.
FormEndsInApplication ==
  \A u \in Users :
    signup[u] = "applied" /\ (\A t \in Browsers : tab[t].op # "candidate")
      => u \in applied

\* dashboard/page.tsx: a temporary password is changed "before reaching
\* anything else".
MustChangeFirst ==
  \A u \in Users, p \in Gated : HasRow(u) /\ row[u].must /\ Me(u) = "row"
    => After(p, u, "row") = "change-password"
=============================================================================
