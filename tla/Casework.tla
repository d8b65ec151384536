------------------------------ MODULE Casework ------------------------------
(***************************************************************************)
(* What clients and candidates ask for and admins decide, and the trail it *)
(* leaves: requests for a service file (backend/src/file-access), candidate*)
(* applications (candidates), requests for quotation (rfq) and their audit *)
(* entries (audit-log), with the buttons of the views that start each      *)
(* operation (frontend/views/Admin*Section.tsx, ClientDashboard.tsx).      *)
(*                                                                         *)
(* A row is never deleted.  Of the audit trail (AuditTrail.tla) the model  *)
(* keeps the entries of decisions.  Lists may be stale: an admin may click *)
(* on any state a row has been in.  Downloads of an approved file change   *)
(* nothing that is kept here, for an approval is final.                    *)
(***************************************************************************)
EXTENDS FiniteSets, Naturals

CONSTANTS Files,        \* ids of FileAccessRequest rows
          Apps,         \* ids of CandidateApplication rows
          Rfqs,         \* ids of ServiceRequest rows
          Keys,         \* pairs of a client and a service file
          Admins,       \* concurrent admin requests
          Tabs          \* concurrent requests of clients

ASSUME CasesAssumption ==
  /\ Files \cap Apps = {} /\ (Files \cup Apps) \cap Rfqs = {}
  /\ "none" \notin Admins

VARIABLES key,        \* per file request: its client and file
          status,     \* per file request and application
          decider,    \* ... decidedByAdminId, reviewedByAdminId
          rfq,        \* per quotation request: its status
          contacted,  \* ... the admin who set contactedAt
          admin,      \* the admins' requests
          tab,        \* the clients' requests
          trail       \* decisions with an audit entry

vars == <<key, status, decider, rfq, contacted, admin, tab, trail>>

rows == <<key, status, decider, rfq, contacted>>

Decidable == Files \cup Apps
Verdicts == {"approved", "denied"}
RfqStatuses == {"pending", "in_review"}
Final == Verdicts \cup {"contacted"}
Changes == [on : Decidable, act : Verdicts, by : Admins]
           \cup [on : Rfqs, act : RfqStatuses \cup {"contacted"}, by : Admins]

NoChange == [on |-> "none", act |-> "none", by |-> "none"]
IdleAdmin == [pc |-> "idle", change |-> NoChange]
IdleTab == [pc |-> "idle", key |-> "none"]

TypeOK ==
  /\ key \in [Files -> Keys \cup {"none"}]
  /\ status \in [Decidable -> {"absent", "pending"} \cup Verdicts]
  /\ decider \in [Decidable -> Admins \cup {"none"}]
  /\ rfq \in [Rfqs -> {"absent"} \cup RfqStatuses]
  /\ contacted \in [Rfqs -> Admins \cup {"none"}]
  /\ admin \in [Admins -> [pc : {"idle", "sent", "audit"},
                           change : Changes \cup {NoChange}]]
  /\ tab \in [Tabs -> [pc : {"idle", "look", "insert", "rfq"}, key : Keys \cup {"none"}]]
  /\ trail \subseteq Changes

\* Candidates sign up with an application (becomeCandidate); it starts pending.
Init ==
  /\ key = [f \in Files |-> "none"]
  /\ status = [d \in Decidable |-> IF d \in Apps THEN "pending" ELSE "absent"]
  /\ decider = [d \in Decidable |-> "none"]
  /\ rfq = [q \in Rfqs |-> "absent"]
  /\ contacted = [q \in Rfqs |-> "none"]
  /\ admin = [a \in Admins |-> IdleAdmin]
  /\ tab = [t \in Tabs |-> IdleTab]
  /\ trail = {}

-----------------------------------------------------------------------------
(* The client's side.                                                      *)

OpenRequests(k) ==
  {f \in Files : key[f] = k /\ status[f] \in {"pending", "approved"}}

TabStep(t, s) == /\ tab' = [tab EXCEPT ![t] = s]
                 /\ UNCHANGED <<admin>>

\* requestSpec: the card of a file offers it while the page knows no request
\* of the client's for it; a page in another tab may still.
RequestSpec(t, k) ==
  /\ tab[t].pc = "idle"
  /\ TabStep(t, [pc |-> "look", key |-> k])
  /\ UNCHANGED <<rows, trail>>

\* create(): the friendly look first.
LookForOpen(t) ==
  /\ tab[t].pc = "look"
  /\ TabStep(t, IF OpenRequests(tab[t].key) = {}
                THEN [tab[t] EXCEPT !.pc = "insert"] ELSE IdleTab)
  /\ UNCHANGED <<rows, trail>>

\* The mutant of InsertRequest: the look was the only check.
InsertUnindexed(t, f) ==
  /\ tab[t].pc = "insert" /\ status[f] = "absent"
  /\ key' = [key EXCEPT ![f] = tab[t].key]
  /\ status' = [status EXCEPT ![f] = "pending"]
  /\ TabStep(t, IdleTab)
  /\ UNCHANGED <<decider, rfq, contacted, trail>>

\* The insert, under FileAccessRequest_client_file_open_key: one open request
\* of a client for a file; the second insert is a conflict.
InsertRequest(t, f) ==
  /\ tab[t].pc = "insert" /\ status[f] = "absent"
  /\ IF OpenRequests(tab[t].key) = {}
     THEN /\ key' = [key EXCEPT ![f] = tab[t].key]
          /\ status' = [status EXCEPT ![f] = "pending"]
     ELSE UNCHANGED <<key, status>>
  /\ TabStep(t, IdleTab)
  /\ UNCHANGED <<decider, rfq, contacted, trail>>

\* submitRfq: the form of the dashboard, again after an error.
SendRfq(t) ==
  /\ tab[t].pc = "idle"
  /\ TabStep(t, [pc |-> "rfq", key |-> "none"])
  /\ UNCHANGED <<rows, trail>>

\* create(): nothing tells a second request from a repeated one.
SubmitRfq(t, q) ==
  /\ tab[t].pc = "rfq" /\ rfq[q] = "absent"
  /\ rfq' = [rfq EXCEPT ![q] = "pending"]
  /\ TabStep(t, IdleTab)
  /\ UNCHANGED <<key, status, decider, contacted, trail>>

\* The request ends early at any of its awaits.
TabFails(t) == /\ tab[t].pc # "idle"
               /\ TabStep(t, IdleTab)
               /\ UNCHANGED <<rows, trail>>

-----------------------------------------------------------------------------
(* The admins' side.  What the views offer for a row.                      *)

\* AdminRequestsSection and AdminCandidatesSection: ActionPair of a pending row.
FileOffers(a) == [on : {f \in Files : status[f] # "absent"},
                  act : Verdicts, by : {a}]
AppOffers(a)  == [on : Apps, act : Verdicts, by : {a}]
\* AdminRfqsSection: the buttons of a row that was not contacted.
RfqOffers(a)  == [on : {q \in Rfqs : rfq[q] # "absent"},
                  act : RfqStatuses \cup {"contacted"}, by : {a}]

AdminStep(a, s) == /\ admin' = [admin EXCEPT ![a] = s]
                   /\ UNCHANGED <<tab>>

Click(a, change) ==
  /\ admin[a].pc = "idle"
  /\ AdminStep(a, [pc |-> "sent", change |-> change])
  /\ UNCHANGED <<rows, trail>>

Sent(a, on) == admin[a].pc = "sent" /\ admin[a].change.on \in on

\* The mutant of DecidePending: the pending check stayed in a read before it.
DecideAnyRow(a, c) ==
  /\ status' = [status EXCEPT ![c.on] = c.act]
  /\ decider' = [decider EXCEPT ![c.on] = a]
  /\ AdminStep(a, [admin[a] EXCEPT !.pc = "audit"])
  /\ UNCHANGED <<key, rfq, contacted, trail>>

\* updateMany where the row is pending: the winner's verdict and id.
DecidePending(a, c) ==
  /\ status[c.on] = "pending"
  /\ status' = [status EXCEPT ![c.on] = c.act]
  /\ decider' = [decider EXCEPT ![c.on] = a]
  /\ AdminStep(a, [admin[a] EXCEPT !.pc = "audit"])
  /\ UNCHANGED <<key, rfq, contacted, trail>>

\* decide() of FileAccessController; CandidatesController's is the same.
Decide(a) == Sent(a, Decidable) /\ DecidePending(a, admin[a].change)

\* The mutant of UpdateRfq: where holds the id alone.
UpdateAnyRfq(a) ==
  LET c == admin[a].change IN
  /\ Sent(a, Rfqs) /\ c.act \in RfqStatuses
  /\ rfq' = [rfq EXCEPT ![c.on] = c.act]
  /\ AdminStep(a, [admin[a] EXCEPT !.pc = "audit"])
  /\ UNCHANGED <<key, status, decider, contacted, trail>>

\* updateStatus(): both ways between pending and in_review, while contactedAt
\* is null.
UpdateRfq(a) ==
  LET c == admin[a].change IN
  /\ Sent(a, Rfqs) /\ c.act \in RfqStatuses
  /\ contacted[c.on] = "none"
  /\ rfq' = [rfq EXCEPT ![c.on] = c.act]
  /\ AdminStep(a, [admin[a] EXCEPT !.pc = "audit"])
  /\ UNCHANGED <<key, status, decider, contacted, trail>>

\* markContacted(): once.
MarkContacted(a) ==
  LET c == admin[a].change IN
  /\ Sent(a, Rfqs) /\ c.act = "contacted"
  /\ contacted[c.on] = "none"
  /\ contacted' = [contacted EXCEPT ![c.on] = a]
  /\ AdminStep(a, [admin[a] EXCEPT !.pc = "audit"])
  /\ UNCHANGED <<key, status, decider, rfq, trail>>

\* count = 0: a conflict, and the list is not reloaded.
Refuse(a) ==
  LET c == admin[a].change IN
  /\ \/ Sent(a, Decidable) /\ status[c.on] # "pending"
     \/ Sent(a, Rfqs) /\ contacted[c.on] # "none"
  /\ AdminStep(a, IdleAdmin)
  /\ UNCHANGED <<rows, trail>>

Record(change) ==
  trail' = IF change.act \in Final THEN trail \cup {change} ELSE trail

\* auditLog.record(): a statement of its own after the update has committed,
\* and before the answer.
RecordChange(a) ==
  /\ admin[a].pc = "audit"
  /\ Record(admin[a].change)
  /\ AdminStep(a, IdleAdmin)
  /\ UNCHANGED <<rows>>

AdminFails(a) == /\ admin[a].pc # "idle"
                 /\ AdminStep(a, IdleAdmin)
                 /\ UNCHANGED <<rows, trail>>

-----------------------------------------------------------------------------
Next ==
  \/ \E t \in Tabs : \/ \E k \in Keys : RequestSpec(t, k)
                     \/ \E f \in Files : InsertRequest(t, f)
                     \/ \E q \in Rfqs : SubmitRfq(t, q)
                     \/ LookForOpen(t) \/ SendRfq(t) \/ TabFails(t)
  \/ \E a \in Admins :
       \/ \E c \in FileOffers(a) \cup AppOffers(a) \cup RfqOffers(a) : Click(a, c)
       \/ Decide(a) \/ UpdateRfq(a) \/ MarkContacted(a) \/ Refuse(a)
       \/ RecordChange(a) \/ AdminFails(a)

Spec == Init /\ [][Next]_vars

-----------------------------------------------------------------------------
(* Properties.                                                             *)

\* A request, an application and a quotation request are decided once: a
\* second decide() is a conflict, and nothing changes once contacted
\* (updateMany in file-access, candidates and rfq.controller.ts).
Once == INSTANCE DecideOnce WITH
  Cases <- Decidable \cup Rfqs,
  Outcomes <- [what : Verdicts \cup RfqStatuses, by : Admins],
  Open <- [what |-> "none", by |-> "none"],
  decision <- [c \in Decidable \cup Rfqs |->
    IF c \in Decidable
    THEN IF status[c] \in Verdicts THEN [what |-> status[c], by |-> decider[c]]
         ELSE [what |-> "none", by |-> "none"]
    ELSE IF contacted[c] # "none" THEN [what |-> rfq[c], by |-> contacted[c]]
         ELSE [what |-> "none", by |-> "none"]]
DecidedOnce == Once!Spec

\* A client has one open request for a file, however often and from however
\* many tabs it is asked for (file-access create() and its partial index).
OneOpenRequest == \A k \in Keys : Cardinality(OpenRequests(k)) <= 1

\* What the audit trail says of a decision is what the row says, and who: no
\* losing admin of a race leaves an entry (decide(), markContacted()).
TrailMatchesRows ==
  \A c \in trail : /\ c.act \in Verdicts
                        => status[c.on] = c.act /\ decider[c.on] = c.by
                   /\ c.act = "contacted" => contacted[c.on] = c.by

\* Rule 8 to the letter: every decision is in the audit log.
EveryDecisionRecorded ==
  \A d \in Decidable :
    status[d] \in Verdicts /\ (\A a \in Admins : admin[a].pc = "idle")
      => [on |-> d, act |-> status[d], by |-> decider[d]] \in trail
=============================================================================
