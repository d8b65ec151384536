--------------------------- MODULE DecisionProofs ----------------------------
(***************************************************************************)
(* What admins and clients decide, for any number of them at once.         *)
(*                                                                         *)
(* Casework: requests and applications are decided once, each client has   *)
(* one open request for a file, and the trail agrees with the rows.  To    *)
(* make the last inductive, an admin between the update and the entry must *)
(* already be right about the row: no later decision can have touched it.  *)
(*                                                                         *)
(* Bookings: a booked slot is its client's until the booking is cancelled, *)
(* and an admin's lists only go forward.  Inductive is that the answer a   *)
(* list still waits for was asked for after the last change, and is no     *)
(* older than the list.                                                    *)
(***************************************************************************)
EXTENDS Casework, Bookings, FiniteSetTheorems, TLAPS

(* Casework: file requests, applications, quotation requests.             *)

RowsOK == /\ key \in [Files -> Keys \cup {"none"}]
          /\ status \in [Decidable -> {"absent", "pending"} \cup Verdicts]
          /\ decider \in [Decidable -> Admins \cup {"none"}]
          /\ rfq \in [Rfqs -> {"absent"} \cup RfqStatuses]
          /\ contacted \in [Rfqs -> Admins \cup {"none"}]
          /\ \A q \in Rfqs : rfq[q] = "absent" => contacted[q] = "none"

\* A request that was sent names a case there is, and its admin.
Asked(a) == admin[a].pc # "idle" =>
  /\ admin[a].change \in Changes /\ admin[a].change.by = a
  /\ admin[a].change.on \in Rfqs => rfq[admin[a].change.on] # "absent"

AdminStates == [pc : {"idle", "sent", "audit"}, change : Changes \cup {NoChange}]
TabStates == [pc : {"idle", "look", "insert", "rfq"}, key : Keys \cup {"none"}]

RequestsOK == /\ admin \in [Admins -> AdminStates]
              /\ tab \in [Tabs -> TabStates]
              /\ \A a \in Admins : Asked(a)

\* What a change says is what the row says.
Agrees(c) == /\ c.act \in Verdicts => status[c.on] = c.act /\ decider[c.on] = c.by
             /\ c.act = "contacted" => contacted[c.on] = c.by

Signed == /\ \A d \in Decidable : status[d] \in Verdicts => decider[d] \in Admins
          /\ \A a \in Admins : admin[a].pc = "audit" => Agrees(admin[a].change)
          /\ trail \subseteq Changes /\ \A c \in trail : Agrees(c)

Opened(f) == status[f] \in {"pending", "approved"}
OneOpen == \A f, g \in Files : key[f] = key[g] /\ Opened(f) /\ Opened(g) => f = g

CaseInv == RowsOK /\ RequestsOK /\ Signed /\ OneOpen

-----------------------------------------------------------------------------
LEMMA ChangeFacts ==
  ASSUME NEW c \in Changes
  PROVE  /\ c.by \in Admins /\ c.on \in Decidable \cup Rfqs
         /\ c.act \in Verdicts => c.on \in Decidable
         /\ c.on \in Decidable => c.act \in Verdicts
         /\ c.act = "contacted" => c.on \in Rfqs
         /\ c.on \in Rfqs => c.act \in RfqStatuses \cup {"contacted"}
         /\ c.act \in RfqStatuses => c.on \in Rfqs
  BY CasesAssumption DEF Changes, Decidable, Verdicts, RfqStatuses

LEMMA CaseInit == Init => CaseInv
  <1> SUFFICES ASSUME Init PROVE CaseInv
    OBVIOUS
  <1>1. RowsOK
    BY DEF Init, RowsOK
  <1>2. RequestsOK
    <2>1. IdleAdmin \in AdminStates /\ IdleAdmin.pc = "idle"
      BY DEF IdleAdmin, AdminStates
    <2>2. IdleTab \in TabStates
      BY DEF IdleTab, TabStates
    <2> QED
      BY <2>1, <2>2 DEF Init, RequestsOK, Asked
  <1>3. Signed
    BY DEF Init, Signed, IdleAdmin, Verdicts
  <1>4. OneOpen
    BY CasesAssumption DEF Init, OneOpen, Opened, Decidable
  <1> QED
    BY <1>1, <1>2, <1>3, <1>4 DEF CaseInv

\* A client's request moves on; no quotation request disappears.
LEMMA TabMoves ==
  ASSUME RequestsOK, NEW t \in Tabs, NEW s \in TabStates, TabStep(t, s),
         \A q \in Rfqs : rfq[q] # "absent" => rfq'[q] # "absent"
  PROVE  RequestsOK' /\ UNCHANGED admin
  <1>1. tab' \in [Tabs -> TabStates] /\ UNCHANGED admin
    BY DEF RequestsOK, TabStep
  <1> QED
    BY <1>1 DEF RequestsOK, Asked

\* An admin's request moves on.
LEMMA AdminMoves ==
  ASSUME RequestsOK, NEW a \in Admins, NEW s \in AdminStates, AdminStep(a, s),
         s.pc # "idle" => /\ s.change \in Changes /\ s.change.by = a
                          /\ s.change.on \in Rfqs => rfq'[s.change.on] # "absent",
         \A q \in Rfqs : rfq[q] # "absent" => rfq'[q] # "absent"
  PROVE  /\ RequestsOK' /\ admin'[a] = s
         /\ \A b \in Admins \ {a} : admin'[b] = admin[b]
  <1>1. /\ admin' \in [Admins -> AdminStates] /\ admin'[a] = s
        /\ \A b \in Admins \ {a} : admin'[b] = admin[b]
        /\ UNCHANGED tab
    BY DEF RequestsOK, AdminStep
  <1>2. ASSUME NEW b \in Admins PROVE Asked(b)'
    <2>1. CASE b = a
      BY <1>1, <2>1 DEF Asked
    <2>2. CASE b # a
      BY <1>1, <2>2 DEF RequestsOK, Asked
    <2> QED
      BY <2>1, <2>2
  <1> QED
    BY <1>1, <1>2 DEF RequestsOK

\* Clients' steps that change no row.
LEMMA TabKeeps ==
  ASSUME CaseInv, NEW t \in Tabs, NEW s \in TabStates, TabStep(t, s),
         UNCHANGED <<rows, trail>>
  PROVE  CaseInv'
  <1>1. RequestsOK' /\ UNCHANGED admin
    BY TabMoves DEF CaseInv, rows
  <1>2. RowsOK' /\ OneOpen'
    BY DEF CaseInv, rows, RowsOK, OneOpen, Opened
  <1>3. Signed'
    BY <1>1 DEF CaseInv, rows, Signed, Agrees
  <1> QED
    BY <1>1, <1>2, <1>3 DEF CaseInv

LEMMA InsertKeeps ==
  ASSUME CaseInv, NEW t \in Tabs, NEW f \in Files, InsertRequest(t, f)
  PROVE  CaseInv'
  <1>1. IdleTab \in TabStates /\ tab[t] \in TabStates
    BY DEF IdleTab, TabStates, CaseInv, RequestsOK
  <1>2. RequestsOK' /\ UNCHANGED admin
    BY <1>1, TabMoves DEF CaseInv, InsertRequest
  <1>3. f \in Decidable /\ status[f] = "absent" /\ tab[t].key \in Keys \cup {"none"}
    BY <1>1 DEF InsertRequest, Decidable, TabStates
  <1>4. CASE OpenRequests(tab[t].key) = {}
    <2>1. /\ key' = [key EXCEPT ![f] = tab[t].key]
          /\ status' = [status EXCEPT ![f] = "pending"]
          /\ UNCHANGED <<decider, rfq, contacted, trail>>
      BY <1>4 DEF InsertRequest
    <2>2. RowsOK'
      BY <1>3, <2>1 DEF CaseInv, RowsOK
    <2>3. Signed'
      <3>1. \A d \in Decidable : status'[d] \in Verdicts => status'[d] = status[d]
        BY <1>3, <2>1 DEF CaseInv, RowsOK, Verdicts
      <3>2. \A d \in Decidable : status[d] \in Verdicts => status'[d] = status[d]
        BY <1>3, <2>1 DEF CaseInv, RowsOK, Verdicts
      <3>3. ASSUME NEW c \in Changes, Agrees(c) PROVE Agrees(c)'
        BY <2>1, <3>2, <3>3, ChangeFacts DEF Agrees
      <3>4. \A a \in Admins : admin[a].pc = "audit" => admin[a].change \in Changes
        BY DEF CaseInv, RequestsOK, Asked
      <3> QED
        BY <1>2, <2>1, <3>1, <3>3, <3>4 DEF CaseInv, Signed
    <2>4. OneOpen'
      <3> SUFFICES ASSUME NEW g \in Files, NEW h \in Files, g # h,
                          key'[g] = key'[h], Opened(g)', Opened(h)'
                   PROVE  FALSE
        BY DEF OneOpen
      <3>1. \A k \in Files : Opened(k) => key[k] # tab[t].key
        BY <1>4 DEF OpenRequests, Opened
      <3>2. \A k \in Files \ {f} : key'[k] = key[k] /\ (Opened(k)' <=> Opened(k))
        BY <2>1 DEF CaseInv, RowsOK, Opened, Decidable
      <3>3. key'[f] = tab[t].key
        BY <2>1 DEF CaseInv, RowsOK
      <3>4. CASE g # f /\ h # f
        BY <3>2, <3>4 DEF CaseInv, OneOpen
      <3>5. CASE g = f \/ h = f
        BY <3>1, <3>2, <3>3, <3>5
      <3> QED
        BY <3>4, <3>5
    <2> QED
      BY <1>2, <2>2, <2>3, <2>4 DEF CaseInv
  <1>5. CASE OpenRequests(tab[t].key) # {}
    BY <1>1, <1>5, TabKeeps DEF InsertRequest, rows
  <1> QED
    BY <1>4, <1>5

LEMMA SubmitRfqKeeps ==
  ASSUME CaseInv, NEW t \in Tabs, NEW q \in Rfqs, SubmitRfq(t, q)
  PROVE  CaseInv'
  <1>1. IdleTab \in TabStates
    BY DEF IdleTab, TabStates
  <1>2. /\ rfq' = [rfq EXCEPT ![q] = "pending"] /\ TabStep(t, IdleTab)
        /\ UNCHANGED <<key, status, decider, contacted, trail>>
    BY DEF SubmitRfq
  <1>3. RowsOK' /\ \A p \in Rfqs : rfq[p] # "absent" => rfq'[p] # "absent"
    BY <1>2 DEF CaseInv, RowsOK, RfqStatuses
  <1>4. RequestsOK' /\ UNCHANGED admin
    BY <1>1, <1>2, <1>3, TabMoves DEF CaseInv
  <1>5. Signed' /\ OneOpen'
    BY <1>2, <1>4 DEF CaseInv, Signed, Agrees, OneOpen, Opened
  <1> QED
    BY <1>3, <1>4, <1>5 DEF CaseInv

-----------------------------------------------------------------------------
\* Admins' steps that change no row: what they add to the trail agrees with it.
LEMMA AdminKeeps ==
  ASSUME CaseInv, NEW a \in Admins, NEW s \in AdminStates, AdminStep(a, s),
         s.pc # "idle" => /\ s.change \in Changes /\ s.change.by = a
                          /\ s.change.on \in Rfqs => rfq[s.change.on] # "absent",
         s.pc # "audit", UNCHANGED rows,
         trail' \subseteq trail \cup {admin[a].change},
         trail' = trail \/ admin[a].pc = "audit"
  PROVE  CaseInv'
  <1>1. /\ RequestsOK' /\ admin'[a] = s
        /\ \A b \in Admins \ {a} : admin'[b] = admin[b]
    BY AdminMoves DEF CaseInv, rows
  <1>2. RowsOK' /\ OneOpen'
    BY DEF CaseInv, rows, RowsOK, OneOpen, Opened
  <1>3. \A c : Agrees(c)' <=> Agrees(c)
    BY DEF rows, Agrees
  <1>4. trail' \subseteq Changes /\ \A c \in trail' : Agrees(c)
    BY DEF CaseInv, Signed, RequestsOK, Asked
  <1>5. Signed'
    <2>1. \A d \in Decidable : status'[d] \in Verdicts => decider'[d] \in Admins
      BY DEF CaseInv, Signed, rows
    <2>2. ASSUME NEW b \in Admins, admin'[b].pc = "audit" PROVE Agrees(admin[b].change)'
      <3>1. admin'[b] = admin[b]
        BY <1>1, <2>2
      <3>2. Agrees(admin[b].change)
        BY <2>2, <3>1 DEF CaseInv, Signed
      <3> QED
        BY <3>1, <3>2 DEF rows, Agrees
    <2> QED
      BY <1>3, <1>4, <2>1, <2>2 DEF Signed
  <1> QED
    BY <1>1, <1>2, <1>5 DEF CaseInv

LEMMA ClickKeeps ==
  ASSUME CaseInv, NEW a \in Admins,
         NEW c \in FileOffers(a) \cup AppOffers(a) \cup RfqOffers(a), Click(a, c)
  PROVE  CaseInv'
  <1> DEFINE s == [pc |-> "sent", change |-> c]
  <1>1. c \in Changes /\ c.by = a /\ (c.on \in Rfqs => rfq[c.on] # "absent")
    <2>1. CASE c \in FileOffers(a)
      BY <2>1, CasesAssumption DEF FileOffers, Changes, Decidable
    <2>2. CASE c \in AppOffers(a)
      BY <2>2, CasesAssumption DEF AppOffers, Changes, Decidable
    <2>3. CASE c \in RfqOffers(a)
      BY <2>3 DEF RfqOffers, Changes
    <2> QED
      BY <2>1, <2>2, <2>3
  <1>2. s \in AdminStates /\ s.pc = "sent" /\ s.change = c
    BY <1>1 DEF AdminStates
  <1>3. AdminStep(a, s) /\ UNCHANGED <<rows, trail>>
    BY DEF Click
  <1> HIDE DEF s
  <1> QED
    BY <1>1, <1>2, <1>3, AdminKeeps

LEMMA IdleAdminOK == IdleAdmin \in AdminStates /\ IdleAdmin.pc = "idle"
  BY DEF IdleAdmin, AdminStates

LEMMA RecordChangeKeeps ==
  ASSUME CaseInv, NEW a \in Admins, RecordChange(a)
  PROVE  CaseInv'
  <1>1. trail' \subseteq trail \cup {admin[a].change} /\ admin[a].pc = "audit"
    BY DEF RecordChange, Record
  <1> QED
    BY <1>1, IdleAdminOK, AdminKeeps DEF RecordChange

\* The three updates: each sets a row that agreed with no change before.
LEMMA UpdateKeeps ==
  ASSUME CaseInv, NEW a \in Admins, admin[a].pc = "sent",
         AdminStep(a, [admin[a] EXCEPT !.pc = "audit"]),
         RowsOK', OneOpen', UNCHANGED trail,
         \A q \in Rfqs : rfq[q] # "absent" => rfq'[q] # "absent",
         \A d \in Decidable : status'[d] \in Verdicts => decider'[d] \in Admins,
         \A c \in Changes : Agrees(c) => Agrees(c)',
         NEW CONSTANT made \in Changes, made = admin[a].change, Agrees(made)'
  PROVE  CaseInv'
  <1> DEFINE s == [admin[a] EXCEPT !.pc = "audit"]
  <1>1. /\ admin[a] \in AdminStates /\ admin[a].change \in Changes
        /\ admin[a].change.by = a
        /\ admin[a].change.on \in Rfqs => rfq[admin[a].change.on] # "absent"
    BY DEF CaseInv, RequestsOK, Asked
  <1>2. s \in AdminStates /\ s.pc = "audit" /\ s.change = admin[a].change
    BY <1>1 DEF AdminStates
  <1>3. AdminStep(a, s)
    OBVIOUS
  <1> HIDE DEF s
  <1>4. /\ RequestsOK' /\ admin'[a] = s
        /\ \A b \in Admins \ {a} : admin'[b] = admin[b]
    BY <1>1, <1>2, <1>3, AdminMoves DEF CaseInv
  <1>5. ASSUME NEW b \in Admins, admin'[b].pc = "audit" PROVE Agrees(admin[b].change)'
    <2>1. CASE b = a
      <3>1. admin'[b].change = made
        BY <1>2, <1>4, <2>1
      <3> QED
        BY <3>1 DEF Agrees
    <2>2. CASE b # a
      <3>1. PICK c \in Changes : c = admin[b].change
        BY <1>4, <1>5, <2>2 DEF CaseInv, RequestsOK, Asked
      <3>2. admin'[b] = admin[b]
        BY <1>4, <2>2
      <3>3. Agrees(c)
        BY <1>5, <3>1, <3>2 DEF CaseInv, Signed
      <3>4. Agrees(c)'
        BY <3>3
      <3> QED
        BY <3>1, <3>2, <3>4 DEF Agrees
    <2> QED
      BY <2>1, <2>2
  <1>6. Signed'
    <2>1. trail' \subseteq Changes /\ \A c \in trail' : Agrees(c)'
      BY DEF CaseInv, Signed
    <2> QED
      BY <1>5, <2>1 DEF Signed
  <1> QED
    BY <1>4, <1>6 DEF CaseInv

LEMMA DecideKeeps ==
  ASSUME CaseInv, NEW a \in Admins, Decide(a)
  PROVE  CaseInv'
  <1>0. PICK c \in Changes : c = admin[a].change /\ c.by = a
    <2>1. admin[a].pc # "idle"
      BY DEF Decide, UpdateRfq, MarkContacted, Sent
    <2> QED
      BY <2>1 DEF CaseInv, RequestsOK, Asked
  <1>1. /\ admin[a].pc = "sent" /\ c.on \in Decidable /\ status[c.on] = "pending"
        /\ status' = [status EXCEPT ![c.on] = c.act]
        /\ decider' = [decider EXCEPT ![c.on] = a]
        /\ AdminStep(a, [admin[a] EXCEPT !.pc = "audit"])
        /\ UNCHANGED <<key, rfq, contacted, trail>>
    BY <1>0 DEF Decide, Sent, DecidePending
  <1>2. c.act \in Verdicts
    BY <1>1, ChangeFacts
  <1>3. /\ status'[c.on] = c.act /\ decider'[c.on] = a
        /\ \A d \in Decidable \ {c.on} : status'[d] = status[d] /\ decider'[d] = decider[d]
    BY <1>1 DEF CaseInv, RowsOK
  <1>4. RowsOK'
    BY <1>1, <1>2 DEF CaseInv, RowsOK
  <1>5. OneOpen'
    <2>1. \A f \in Files : Opened(f)' => Opened(f)
      BY <1>1, <1>3 DEF Opened, Decidable
    <2> QED
      BY <1>1, <2>1 DEF CaseInv, OneOpen
  <1>6. \A d \in Decidable : status'[d] \in Verdicts => decider'[d] \in Admins
    BY <1>3 DEF CaseInv, Signed
  <1>7. ASSUME NEW e \in Changes, Agrees(e) PROVE Agrees(e)'
    <2>1. e.act \in Verdicts => e.on \in Decidable /\ e.on # c.on
      BY <1>1, <1>7, ChangeFacts DEF Agrees, Verdicts
    <2> QED
      BY <1>1, <1>3, <1>7, <2>1 DEF Agrees
  <1>8. Agrees(c)'
    BY <1>0, <1>2, <1>3 DEF Agrees, Verdicts
  <1> QED
    BY <1>1, <1>4, <1>5, <1>6, <1>7, <1>8, <1>0, UpdateKeeps

LEMMA UpdateRfqKeeps ==
  ASSUME CaseInv, NEW a \in Admins, UpdateRfq(a)
  PROVE  CaseInv'
  <1>0. PICK c \in Changes : c = admin[a].change /\ c.by = a
    <2>1. admin[a].pc # "idle"
      BY DEF Decide, UpdateRfq, MarkContacted, Sent
    <2> QED
      BY <2>1 DEF CaseInv, RequestsOK, Asked
  <1>1. /\ admin[a].pc = "sent" /\ c.act \in RfqStatuses
        /\ rfq' = [rfq EXCEPT ![c.on] = c.act]
        /\ AdminStep(a, [admin[a] EXCEPT !.pc = "audit"])
        /\ UNCHANGED <<key, status, decider, contacted, trail>>
    BY <1>0 DEF UpdateRfq, Sent
  <1>2. RowsOK' /\ \A q \in Rfqs : rfq[q] # "absent" => rfq'[q] # "absent"
    BY <1>1 DEF CaseInv, RowsOK, RfqStatuses
  <1>3. OneOpen' /\ \A d \in Decidable : status'[d] \in Verdicts => decider'[d] \in Admins
    BY <1>1 DEF CaseInv, OneOpen, Opened, Signed
  <1>4. \A e \in Changes : Agrees(e) => Agrees(e)'
    BY <1>1 DEF Agrees
  <1>5. Agrees(c)'
    BY <1>1 DEF Agrees, Verdicts, RfqStatuses
  <1> QED
    BY <1>1, <1>2, <1>3, <1>4, <1>5, <1>0, UpdateKeeps

LEMMA MarkContactedKeeps ==
  ASSUME CaseInv, NEW a \in Admins, MarkContacted(a)
  PROVE  CaseInv'
  <1>0. PICK c \in Changes : c = admin[a].change /\ c.by = a
    <2>1. admin[a].pc # "idle"
      BY DEF Decide, UpdateRfq, MarkContacted, Sent
    <2> QED
      BY <2>1 DEF CaseInv, RequestsOK, Asked
  <1>1. /\ admin[a].pc = "sent" /\ c.act = "contacted" /\ c.on \in Rfqs
        /\ contacted[c.on] = "none" /\ rfq[c.on] # "absent"
        /\ contacted' = [contacted EXCEPT ![c.on] = a]
        /\ AdminStep(a, [admin[a] EXCEPT !.pc = "audit"])
        /\ UNCHANGED <<key, status, decider, rfq, trail>>
    BY <1>0 DEF MarkContacted, Sent, CaseInv, RequestsOK, Asked
  <1>3. contacted'[c.on] = a /\ \A q \in Rfqs \ {c.on} : contacted'[q] = contacted[q]
    BY <1>1 DEF CaseInv, RowsOK
  <1>4. RowsOK' /\ \A q \in Rfqs : rfq[q] # "absent" => rfq'[q] # "absent"
    BY <1>1 DEF CaseInv, RowsOK
  <1>5. OneOpen' /\ \A d \in Decidable : status'[d] \in Verdicts => decider'[d] \in Admins
    BY <1>1 DEF CaseInv, OneOpen, Opened, Signed
  <1>6. ASSUME NEW e \in Changes, Agrees(e) PROVE Agrees(e)'
    <2>1. e.act = "contacted" => e.on \in Rfqs /\ e.on # c.on
      BY <1>1, <1>6, ChangeFacts, CasesAssumption DEF Agrees
    <2> QED
      BY <1>1, <1>3, <1>6, <2>1 DEF Agrees
  <1>7. Agrees(c)'
    BY <1>0, <1>1, <1>3 DEF Agrees, Verdicts
  <1> QED
    BY <1>1, <1>4, <1>5, <1>6, <1>7, <1>0, UpdateKeeps

-----------------------------------------------------------------------------
LEMMA CaseStep ==
  ASSUME CaseInv, [Next]_vars
  PROVE  CaseInv'
  <1>1. ASSUME NEW t \in Tabs,
               \/ \E k \in Keys : RequestSpec(t, k)
               \/ LookForOpen(t) \/ SendRfq(t) \/ TabFails(t)
        PROVE  CaseInv'
    <2>1. tab[t] \in TabStates /\ IdleTab \in TabStates
      BY DEF CaseInv, RequestsOK, IdleTab, TabStates
    <2>2. CASE \E k \in Keys : RequestSpec(t, k)
      BY <2>2, TabKeeps DEF RequestSpec, TabStates
    <2>3. CASE LookForOpen(t)
      <3>1. [tab[t] EXCEPT !.pc = "insert"] \in TabStates
        BY <2>1 DEF TabStates
      <3> QED
        BY <2>1, <2>3, <3>1, TabKeeps DEF LookForOpen
    <2>4. CASE SendRfq(t)
      BY <2>4, TabKeeps DEF SendRfq, TabStates
    <2>5. CASE TabFails(t)
      BY <2>1, <2>5, TabKeeps DEF TabFails
    <2> QED
      BY <1>1, <2>2, <2>3, <2>4, <2>5
  <1>2. ASSUME NEW a \in Admins, Refuse(a) \/ AdminFails(a)
        PROVE  CaseInv'
    BY <1>2, IdleAdminOK, AdminKeeps DEF Refuse, AdminFails
  <1>3. CASE UNCHANGED vars
    BY <1>3
    DEF vars, CaseInv, RowsOK, RequestsOK, Asked, Signed, Agrees, OneOpen, Opened
  <1> QED
    BY <1>1, <1>2, <1>3, InsertKeeps, SubmitRfqKeeps, ClickKeeps, DecideKeeps,
       UpdateRfqKeeps, MarkContactedKeeps, RecordChangeKeeps
    DEF Next

LEMMA CaseInvariant == Spec => []CaseInv
  BY CaseInit, CaseStep, PTL DEF Spec

\* Requests, applications and quotation requests, and the requests about them, keep
\* their types (FileAccessController, CandidatesController, RfqController), for any
\* number of each.
THEOREM CaseTypeCorrect == Spec => []TypeOK
  <1>1. CaseInv => TypeOK
    BY DEF CaseInv, RowsOK, RequestsOK, Signed, TypeOK, AdminStates, TabStates
  <1> QED
    BY <1>1, CaseInvariant, PTL

\* However often and from however many tabs a client asks for a file, one of the
\* requests is open (the partial index under file-access create()).
THEOREM OneRequestIsOpen == Spec => []OneOpenRequest
  <1>1. ASSUME CaseInv PROVE OneOpenRequest
    <2> SUFFICES ASSUME NEW k \in Keys PROVE Cardinality(OpenRequests(k)) <= 1
      BY DEF OneOpenRequest
    <2>1. CASE OpenRequests(k) = {}
      BY <2>1, FS_EmptySet
    <2>2. CASE OpenRequests(k) # {}
      <3>1. PICK f \in OpenRequests(k) : TRUE
        BY <2>2
      <3>2. OpenRequests(k) = {f}
        BY <1>1, <3>1 DEF OpenRequests, CaseInv, OneOpen, Opened
      <3> QED
        BY <3>2, FS_Singleton
    <2> QED
      BY <2>1, <2>2
  <1> QED
    BY <1>1, CaseInvariant, PTL

\* No admin who lost a race leaves an entry: every decision in the trail is the
\* row's, by the row's admin (decide(), markContacted()).
THEOREM TrailIsTrue == Spec => []TrailMatchesRows
  <1>1. CaseInv => TrailMatchesRows
    BY DEF CaseInv, Signed, Agrees, TrailMatchesRows
  <1> QED
    BY <1>1, CaseInvariant, PTL

-----------------------------------------------------------------------------
(* The refinement: a decision of the three tables is DecideOnce's. *)

Undecided == [what |-> "none", by |-> "none"]
Outcomes == [what : Verdicts \cup RfqStatuses, by : Admins]
Decision(c) == IF c \in Decidable
               THEN IF status[c] \in Verdicts
                    THEN [what |-> status[c], by |-> decider[c]] ELSE Undecided
               ELSE IF contacted[c] # "none" THEN [what |-> rfq[c], by |-> contacted[c]]
                    ELSE Undecided
CaseDecisions == [c \in Decidable \cup Rfqs |-> Decision(c)]

\* One case that was open is decided, or none is.
Decides == \E c \in Decidable \cup Rfqs, o \in Outcomes :
             /\ CaseDecisions[c] = Undecided
             /\ CaseDecisions' = [CaseDecisions EXCEPT ![c] = o]

LEMMA NoneDecides ==
  ASSUME \A d \in Decidable :
           \/ status'[d] = status[d] /\ decider'[d] = decider[d]
           \/ status[d] \notin Verdicts /\ status'[d] \notin Verdicts,
         \A q \in Rfqs : contacted'[q] = contacted[q],
         \A q \in Rfqs : rfq'[q] = rfq[q] \/ contacted[q] = "none"
  PROVE  CaseDecisions' = CaseDecisions
  <1>1. ASSUME NEW c \in Decidable \cup Rfqs PROVE Decision(c)' = Decision(c)
    BY DEF Decision
  <1> QED
    BY <1>1 DEF CaseDecisions

LEMMA OneDecides ==
  ASSUME NEW c \in Decidable \cup Rfqs, NEW o \in Outcomes,
         Decision(c) = Undecided, Decision(c)' = o,
         \A d \in (Decidable \cup Rfqs) \ {c} : Decision(d)' = Decision(d)
  PROVE  Decides
  <1>1. CaseDecisions[c] = Undecided
    BY DEF CaseDecisions
  <1>2. CaseDecisions' = [CaseDecisions EXCEPT ![c] = o]
    BY DEF CaseDecisions
  <1> QED
    BY <1>1, <1>2 DEF Decides

LEMMA DecideDecides ==
  ASSUME CaseInv, NEW a \in Admins, Decide(a)
  PROVE  Decides
  <1>1. PICK c \in Changes : c = admin[a].change /\ c.by = a
    <2>1. admin[a].pc # "idle"
      BY DEF Decide, Sent
    <2> QED
      BY <2>1 DEF CaseInv, RequestsOK, Asked
  <1>2. /\ c.on \in Decidable /\ c.act \in Verdicts /\ status[c.on] = "pending"
        /\ status' = [status EXCEPT ![c.on] = c.act]
        /\ decider' = [decider EXCEPT ![c.on] = a]
        /\ UNCHANGED <<rfq, contacted>>
    BY <1>1, ChangeFacts DEF Decide, Sent, DecidePending
  <1>3. /\ status'[c.on] = c.act /\ decider'[c.on] = a
        /\ \A d \in Decidable \ {c.on} : status'[d] = status[d] /\ decider'[d] = decider[d]
    BY <1>2 DEF CaseInv, RowsOK
  <1> DEFINE o == [what |-> c.act, by |-> a]
  <1>4. o \in Outcomes
    BY <1>2 DEF Outcomes
  <1>5. Decision(c.on) = Undecided
    BY <1>2 DEF Decision, Verdicts
  <1>6. Decision(c.on)' = o
    BY <1>2, <1>3 DEF Decision
  <1>7. \A d \in (Decidable \cup Rfqs) \ {c.on} : Decision(d)' = Decision(d)
    BY <1>2, <1>3 DEF Decision
  <1> HIDE DEF o
  <1> QED
    BY <1>2, <1>4, <1>5, <1>6, <1>7, OneDecides

LEMMA MarkContactedDecides ==
  ASSUME CaseInv, NEW a \in Admins, MarkContacted(a)
  PROVE  Decides
  <1>1. PICK c \in Changes : c = admin[a].change
    BY DEF MarkContacted, Sent, CaseInv, RequestsOK, Asked
  <1>2. /\ c.on \in Rfqs /\ contacted[c.on] = "none" /\ rfq[c.on] # "absent"
        /\ contacted' = [contacted EXCEPT ![c.on] = a]
        /\ UNCHANGED <<status, decider, rfq>>
    BY <1>1 DEF MarkContacted, Sent, CaseInv, RequestsOK, Asked
  <1>3. /\ contacted'[c.on] = a /\ c.on \notin Decidable
        /\ \A q \in Rfqs \ {c.on} : contacted'[q] = contacted[q]
    BY <1>2, CasesAssumption DEF CaseInv, RowsOK, Decidable
  <1> DEFINE o == [what |-> rfq[c.on], by |-> a]
  <1>4. o \in Outcomes
    BY <1>2 DEF Outcomes, CaseInv, RowsOK
  <1>5. Decision(c.on) = Undecided
    BY <1>2, <1>3 DEF Decision
  <1>6. Decision(c.on)' = [what |-> rfq[c.on], by |-> a]
    BY <1>2, <1>3, CasesAssumption DEF Decision
  <1>7. \A d \in (Decidable \cup Rfqs) \ {c.on} : Decision(d)' = Decision(d)
    BY <1>2, <1>3 DEF Decision
  <1>8. \E p \in Outcomes : Decision(c.on)' = p
    BY <1>4, <1>6
  <1> QED
    BY <1>2, <1>5, <1>7, <1>8, OneDecides

\* The remaining steps decide nothing.
LEMMA OthersDecideNothing ==
  ASSUME CaseInv, [Next]_vars, \A a \in Admins : ~ Decide(a) /\ ~ MarkContacted(a)
  PROVE  CaseDecisions' = CaseDecisions
  <1>1. ASSUME NEW t \in Tabs, NEW f \in Files, InsertRequest(t, f)
        PROVE  CaseDecisions' = CaseDecisions
    <2>1. /\ UNCHANGED <<decider, rfq, contacted>>
          /\ status[f] = "absent" /\ f \in Decidable
          /\ status' = status \/ status' = [status EXCEPT ![f] = "pending"]
      BY <1>1 DEF InsertRequest, Decidable
    <2>2. \A d \in Decidable :
            \/ status'[d] = status[d]
            \/ status[d] \notin Verdicts /\ status'[d] \notin Verdicts
      BY <2>1 DEF CaseInv, RowsOK, Verdicts
    <2> QED
      BY <2>1, <2>2, NoneDecides
  <1>2. ASSUME NEW t \in Tabs, NEW q \in Rfqs, SubmitRfq(t, q)
        PROVE  CaseDecisions' = CaseDecisions
    <2>1. /\ UNCHANGED <<status, decider, contacted>> /\ rfq[q] = "absent"
          /\ rfq' = [rfq EXCEPT ![q] = "pending"]
      BY <1>2 DEF SubmitRfq
    <2>2. contacted[q] = "none"
      BY <2>1 DEF CaseInv, RowsOK
    <2>3. \A p \in Rfqs : rfq'[p] = rfq[p] \/ contacted[p] = "none"
      BY <2>1, <2>2 DEF CaseInv, RowsOK
    <2> QED
      BY <2>1, <2>3, NoneDecides
  <1>3. ASSUME NEW a \in Admins, UpdateRfq(a)
        PROVE  CaseDecisions' = CaseDecisions
    <2>1. PICK q \in Rfqs, v \in RfqStatuses :
            /\ contacted[q] = "none" /\ rfq' = [rfq EXCEPT ![q] = v]
            /\ UNCHANGED <<status, decider, contacted>>
      BY <1>3 DEF UpdateRfq, Sent
    <2>2. \A p \in Rfqs : rfq'[p] = rfq[p] \/ contacted[p] = "none"
      BY <2>1 DEF CaseInv, RowsOK
    <2> QED
      BY <2>1, <2>2, NoneDecides
  <1>4. CASE UNCHANGED <<status, decider, rfq, contacted>>
    BY <1>4, NoneDecides
  <1> QED
    BY <1>1, <1>2, <1>3, <1>4
    DEF Next, vars, rows, RequestSpec, LookForOpen, SendRfq, TabFails, Click, Refuse,
        RecordChange, AdminFails

\* Once's variable is CaseDecisions, its step Decides.
LEMMA OnceIsDecisions ==
  /\ Once!Init <=> CaseDecisions = [c \in Decidable \cup Rfqs |-> Undecided]
  /\ [Once!Next]_(CaseDecisions) <=> (Decides \/ UNCHANGED CaseDecisions)
  BY DEF Once!Init, Once!Next, Once!Decide, Decides, CaseDecisions, Decision, Undecided,
         Outcomes

\* Every behaviour of the three controllers is one of DecideOnce's: a case is decided
\* once, and its decision, with the admin who took it, stays (updateMany over open
\* rows in file-access, candidates and rfq.controller.ts).
THEOREM CasesDecidedOnce == Spec => DecidedOnce
  <1>1. Init => Once!Init
    <2> SUFFICES ASSUME Init
                 PROVE  CaseDecisions = [c \in Decidable \cup Rfqs |-> Undecided]
      BY OnceIsDecisions
    <2>1. ASSUME NEW c \in Decidable \cup Rfqs PROVE Decision(c) = Undecided
      BY DEF Init, Decision, Verdicts
    <2> QED
      BY <2>1 DEF CaseDecisions
  <1>2. CaseInv /\ [Next]_vars => [Once!Next]_(CaseDecisions)
    BY OnceIsDecisions, DecideDecides, MarkContactedDecides, OthersDecideNothing
  <1>3. QED
    BY <1>1, <1>2, CaseInvariant, PTL
    DEF Spec, DecidedOnce, Once!Spec, CaseDecisions, Decision, Undecided

-----------------------------------------------------------------------------
(* Bookings.                                                               *)

\* What an admin or a client sent names a slot, and a time if it sets one.
SentIsWhole ==
  /\ \A a \in Editors : change[a].pc = "sent" =>
       /\ change[a].slot \in Slots /\ change[a].act \in AdminActs
       /\ change[a].act \in {"create", "edit"} => change[a].time \in Times
  /\ \A c \in Clients : client[c].pc # "idle" => client[c].slot \in Slots

\* The bound on list requests leaves one for the change under way.
RoomToAsk ==
  /\ \A a \in Editors : change[a].pc # "idle" =>
       asked[SlotsOf(a)] < MaxAsks /\ asked[ApptsOf(a)] < MaxAsks
  /\ \A c \in Clients : client[c].pc # "idle" => asked[PickerOf(c)] < MaxAsks

OneEach == \A s \in Slots : IF s \in booked THEN \E x : ApptOf(s) = {x}
                            ELSE ApptOf(s) = {}

\* Requests are sent in the order of their numbers; no list is from the
\* future; the answer an admin's list still waits for is no older than the
\* list.
ListInOrder(scr) ==
  /\ \A i \in 1 .. MaxAsks : reply[scr][i].at = "unsent" <=> i > asked[scr]
  /\ shown[scr].tick <= tick
  /\ \A i \in 1 .. MaxAsks : reply[scr][i].ans.tick <= tick
  /\ scr \notin Pickers /\ asked[scr] > 0
     /\ reply[scr][asked[scr]].at = "served"
     => reply[scr][asked[scr]].ans.tick >= shown[scr].tick

\* The last request of the slot list was sent after the admin's last change.
OwnInOrder(a) ==
  LET scr == SlotsOf(a)
      last == reply[scr][asked[scr]]
  IN /\ own[a] <= tick
     /\ asked[scr] = 0 => own[a] = 0
     /\ asked[scr] > 0 /\ last.at = "served" => last.ans.tick >= own[a]
     /\ asked[scr] > 0 /\ last.at = "landed" => shown[scr].tick >= own[a]

BookingsInv == /\ BookingsTypeOK /\ SentIsWhole /\ RoomToAsk /\ OneEach
               /\ \A scr \in Screens : ListInOrder(scr)
               /\ \A a \in Editors : OwnInOrder(a)

-----------------------------------------------------------------------------
(* Screens and rows.                                                       *)

LEMMA ScreenFacts ==
  /\ \A a \in Editors : /\ SlotsOf(a) \in Screens \ Pickers
                        /\ ApptsOf(a) \in Screens \ Pickers
  /\ \A c \in Clients : PickerOf(c) \in Pickers /\ PickerOf(c) \in Screens
  /\ \A a, b \in Editors : SlotsOf(a) # ApptsOf(b)
  /\ \A a, b \in Editors : SlotsOf(a) = SlotsOf(b) => a = b
  /\ \A a, b \in Editors : ApptsOf(a) = ApptsOf(b) => a = b
  /\ \A c, d \in Clients : PickerOf(c) = PickerOf(d) => c = d
  <1>1. \A a \in Editors : SlotsOf(a) \in AdminSlots /\ ApptsOf(a) \in AdminAppts
    BY DEF AdminSlots, AdminAppts, SlotsOf, ApptsOf
  <1>2. \A scr \in AdminSlots \cup AdminAppts : scr \notin Pickers
    <2>1. \A scr \in AdminSlots \cup AdminAppts : DOMAIN scr = {"admin", "list"}
      BY DEF AdminSlots, AdminAppts
    <2>2. \A scr \in Pickers : DOMAIN scr = {"client"}
      BY DEF Pickers
    <2>3. {"admin", "list"} # {"client"}
      OBVIOUS
    <2> QED
      BY <2>1, <2>2, <2>3
  <1>3. \A c \in Clients : PickerOf(c) \in Pickers
    BY DEF Pickers, PickerOf
  <1>4. \A a, b \in Editors : SlotsOf(a) # ApptsOf(b)
    <2> SUFFICES ASSUME NEW a \in Editors, NEW b \in Editors
                 PROVE  SlotsOf(a) # ApptsOf(b)
      OBVIOUS
    <2>1. SlotsOf(a).list = "slots" /\ ApptsOf(b).list = "appointments"
      BY DEF SlotsOf, ApptsOf
    <2> QED
      BY <2>1
  <1>5. /\ \A a \in Editors : SlotsOf(a).admin = a /\ ApptsOf(a).admin = a
        /\ \A c \in Clients : PickerOf(c).client = c
    BY DEF SlotsOf, ApptsOf, PickerOf
  <1> QED
    BY <1>1, <1>2, <1>3, <1>4, <1>5 DEF Screens

LEMMA RowTyped ==
  ASSUME BookingsTypeOK, NEW s \in Slots
  PROVE  Row(s) \in Rows
  <1>1. StatusOf(s) \in Statuses \cup {"free"}
    <2>1. CASE ApptOf(s) = {}
      BY <2>1 DEF StatusOf
    <2>2. CASE ApptOf(s) # {}
      <3>1. (CHOOSE a \in ApptOf(s) : TRUE) \in ApptOf(s)
        BY <2>2
      <3>2. ApptOf(s) \subseteq Appointments
        BY DEF ApptOf, BookingsTypeOK
      <3> QED
        BY <2>2, <3>1, <3>2 DEF StatusOf, Appointments
    <2> QED
      BY <2>1, <2>2
  <1>2. time[s] \in Times
    BY DEF BookingsTypeOK
  <1> QED
    BY <1>1, <1>2 DEF Row, Rows

LEMMA AnswerTyped ==
  ASSUME BookingsTypeOK, NEW scr \in Screens
  PROVE  Answer(scr) \in Answers /\ Answer(scr).tick = tick
  <1>1. created \subseteq Slots /\ tick \in 0 .. MaxCommits
    BY DEF BookingsTypeOK
  <1>2. OpenSlots \subseteq Rows /\ AllSlots \subseteq Rows /\ ApptList \subseteq Rows
    BY <1>1, RowTyped DEF OpenSlots, AllSlots, ApptList
  <1>3. CASE scr \in Pickers
    BY <1>1, <1>2, <1>3 DEF Answer, Answers
  <1>4. CASE scr \in AdminSlots /\ scr \notin Pickers
    BY <1>1, <1>2, <1>4 DEF Answer, Answers
  <1>5. CASE scr \in AdminAppts /\ scr \notin AdminSlots /\ scr \notin Pickers
    BY <1>1, <1>2, <1>5 DEF Answer, Answers
  <1> QED
    BY <1>3, <1>4, <1>5 DEF Screens

LEMMA BlankTyped == Blank \in Answers /\ Blank.tick = 0
  BY BookingsAssumption DEF Blank, Answers

\* A status change keeps every appointment's slot and client.
LEMMA StatusKeepsBookings ==
  ASSUME appts \subseteq Appointments, NEW s, NEW new \in Statuses
  PROVE  /\ WithStatus(s, new) \subseteq Appointments
         /\ appts' = WithStatus(s, new) =>
              \A t \in Slots :
                /\ ApptOf(t) = {} => ApptOf(t)' = {}
                /\ \A x : ApptOf(t) = {x} =>
                     \E y : ApptOf(t)' = {y} /\ y.client = x.client
  <1> DEFINE f(a) == IF a.slot = s THEN [a EXCEPT !.status = new] ELSE a
  <1>1. \A a \in Appointments : /\ f(a) \in Appointments
                                /\ f(a).slot = a.slot /\ f(a).client = a.client
    BY DEF Appointments
  <1>2. WithStatus(s, new) = {f(a) : a \in appts}
    BY DEF WithStatus
  <1> HIDE DEF f
  <1>3. WithStatus(s, new) \subseteq Appointments
    BY <1>1, <1>2
  <1>4. ASSUME appts' = WithStatus(s, new), NEW t \in Slots
        PROVE  ApptOf(t)' = {f(a) : a \in ApptOf(t)}
    BY <1>1, <1>2, <1>4 DEF ApptOf
  <1>5. ASSUME appts' = WithStatus(s, new), NEW t \in Slots, NEW x,
               ApptOf(t) = {x}
        PROVE  ApptOf(t)' = {f(x)} /\ f(x).client = x.client
    <2>1. x \in appts
      BY <1>5 DEF ApptOf
    <2> QED
      BY <1>1, <1>4, <1>5, <2>1
  <1> QED
    BY <1>3, <1>4, <1>5

LEMMA BookingsStarts == BookingsInit => BookingsInv
  <1> SUFFICES ASSUME BookingsInit PROVE BookingsInv
    OBVIOUS
  <1>1. (CHOOSE t \in Times : TRUE) \in Times
    BY BookingsAssumption
  <1>2. BookingsTypeOK
    BY <1>1, BlankTyped, BookingsAssumption
    DEF BookingsInit, BookingsTypeOK, IdleEditor, IdleClient, Request, Phases,
        Requests, ChangeStates, ClientStates
  <1>3. SentIsWhole /\ RoomToAsk
    BY DEF BookingsInit, SentIsWhole, RoomToAsk, IdleEditor, IdleClient
  <1>4. OneEach
    BY DEF BookingsInit, OneEach, ApptOf
  <1>5. \A scr \in Screens : ListInOrder(scr)
    BY BlankTyped DEF BookingsInit, ListInOrder, Request
  <1>6. \A a \in Editors : OwnInOrder(a)
    BY ScreenFacts DEF BookingsInit, OwnInOrder
  <1> QED
    BY <1>2, <1>3, <1>4, <1>5, <1>6 DEF BookingsInv

-----------------------------------------------------------------------------
(* What each kind of step does to the lists.                               *)

\* A commit: what the screens show only gets older.
LEMMA CommitKeepsLists ==
  ASSUME BookingsInv, tick' \in Nat, tick' >= tick, UNCHANGED <<screens, own>>
  PROVE  /\ \A scr \in Screens : ListInOrder(scr)'
         /\ \A a \in Editors : OwnInOrder(a)'
  <1>1. tick \in Nat
    BY BookingsAssumption DEF BookingsInv, BookingsTypeOK
  <1>2. ASSUME NEW scr \in Screens PROVE ListInOrder(scr)'
    <2>1. /\ shown[scr].tick \in Nat
          /\ \A i \in 1 .. MaxAsks : reply[scr][i].ans.tick \in Nat
      BY BookingsAssumption DEF BookingsInv, BookingsTypeOK, Answers, Requests
    <2>2. ListInOrder(scr)
      BY DEF BookingsInv
    <2> QED
      BY <1>1, <2>1, <2>2 DEF ListInOrder, screens
  <1>3. ASSUME NEW a \in Editors PROVE OwnInOrder(a)'
    <2>1. own[a] \in Nat
      BY BookingsAssumption DEF BookingsInv, BookingsTypeOK
    <2>2. OwnInOrder(a)
      BY DEF BookingsInv
    <2> QED
      BY <1>1, <2>1, <2>2 DEF OwnInOrder, screens
  <1> QED
    BY <1>2, <1>3

\* Screens ask again: the request that counts is now one not answered yet.
LEMMA AskingKeepsLists ==
  ASSUME BookingsInv, NEW S \in SUBSET Screens, Asking(S), UNCHANGED tick,
         \A scr \in S : asked[scr] < MaxAsks,
         \A a \in Editors : own'[a] = own[a]
                            \/ (SlotsOf(a) \in S /\ own'[a] = tick)
  PROVE  /\ asked' \in [Screens -> 0 .. MaxAsks]
         /\ reply' \in [Screens -> [1 .. MaxAsks -> Requests]]
         /\ \A scr \in Screens : ListInOrder(scr)'
         /\ \A a \in Editors : OwnInOrder(a)'
  <1>1. /\ asked \in [Screens -> 0 .. MaxAsks] /\ MaxAsks \in Nat
        /\ reply \in [Screens -> [1 .. MaxAsks -> Requests]]
        /\ tick \in Nat
    BY BookingsAssumption DEF BookingsInv, BookingsTypeOK
  <1> DEFINE w == Request("waiting", Blank)
  <1>2. /\ w \in Requests
        /\ w.at = "waiting" /\ w.ans.tick = 0
    BY BlankTyped DEF Request, Phases, Requests
  <1> HIDE DEF w
  <1>3. \A scr \in Screens : /\ scr \in S => asked'[scr] = asked[scr] + 1
                             /\ scr \notin S => asked'[scr] = asked[scr]
    BY <1>1 DEF Asking
  <1>4. asked' \in [Screens -> 0 .. MaxAsks]
    BY <1>1 DEF Asking
  <1>5. \A scr \in Screens :
          /\ scr \in S => reply'[scr] = [reply[scr] EXCEPT ![asked[scr] + 1] = w]
          /\ scr \notin S => reply'[scr] = reply[scr]
    BY DEF Asking, w
  <1>6. ASSUME NEW scr \in Screens
        PROVE  reply'[scr] \in [1 .. MaxAsks -> Requests]
    <2>1. reply[scr] \in [1 .. MaxAsks -> Requests]
      BY <1>1
    <2> QED
      BY <1>2, <1>5, <2>1
  <1>7. reply' \in [Screens -> [1 .. MaxAsks -> Requests]]
    BY <1>6 DEF Asking
  <1>8. ASSUME NEW scr \in Screens PROVE ListInOrder(scr)'
    <2>1. ListInOrder(scr) /\ UNCHANGED shown
      BY DEF BookingsInv, Asking
    <2>2. CASE scr \notin S
      <3>1. reply'[scr] = reply[scr] /\ asked'[scr] = asked[scr]
        BY <1>1, <1>3, <1>5, <2>2
      <3> QED
        BY <2>1, <3>1 DEF ListInOrder
    <2>3. CASE scr \in S
      <3> DEFINE n == asked[scr] + 1
      <3>1. n \in 1 .. MaxAsks /\ asked'[scr] = n
        BY <1>1, <1>3, <2>3
      <3>2. /\ reply'[scr][n].at = "waiting" /\ reply'[scr][n].ans.tick = 0
            /\ \A i \in 1 .. MaxAsks \ {n} : reply'[scr][i] = reply[scr][i]
        <4>1. reply[scr] \in [1 .. MaxAsks -> Requests]
          BY <1>1
        <4> QED
          BY <1>2, <1>5, <2>3, <3>1, <4>1
      <3>3. \A i \in 1 .. MaxAsks : reply'[scr][i].at = "unsent" <=> i > n
        BY <1>1, <2>1, <3>1, <3>2 DEF ListInOrder
      <3>4. \A i \in 1 .. MaxAsks : reply'[scr][i].ans.tick <= tick
        <4> SUFFICES ASSUME NEW i \in 1 .. MaxAsks
                     PROVE  reply'[scr][i].ans.tick <= tick
          OBVIOUS
        <4>1. CASE i = n
          BY <1>1, <3>2, <4>1
        <4>2. CASE i # n
          BY <2>1, <3>2, <4>2 DEF ListInOrder
        <4> QED
          BY <4>1, <4>2
      <3> HIDE DEF n
      <3> QED
        BY <2>1, <3>1, <3>2, <3>3, <3>4 DEF ListInOrder
    <2> QED
      BY <2>2, <2>3
  <1>9. ASSUME NEW a \in Editors PROVE OwnInOrder(a)'
    <2> DEFINE scr == SlotsOf(a)
    <2>1. scr \in Screens /\ OwnInOrder(a) /\ UNCHANGED shown
      BY ScreenFacts DEF BookingsInv, Asking
    <2>2. CASE scr \notin S
      <3>1. /\ reply'[scr] = reply[scr] /\ asked'[scr] = asked[scr]
            /\ own'[a] = own[a]
        BY <1>1, <1>3, <1>5, <2>1, <2>2
      <3> QED
        BY <2>1, <3>1 DEF OwnInOrder
    <2>3. CASE scr \in S
      <3> DEFINE n == asked[scr] + 1
      <3>1. n \in 1 .. MaxAsks /\ asked'[scr] = n
        BY <1>1, <1>3, <2>1, <2>3
      <3>2. reply'[scr][n].at = "waiting"
        <4>1. reply[scr] \in [1 .. MaxAsks -> Requests]
          BY <1>1, <2>1
        <4> QED
          BY <1>2, <1>5, <2>1, <2>3, <3>1, <4>1
      <3>3. own'[a] <= tick
        BY <1>1, <2>1 DEF OwnInOrder
      <3> QED
        BY <2>1, <3>1, <3>2, <3>3 DEF OwnInOrder
    <2> QED
      BY <2>2, <2>3
  <1> QED
    BY <1>4, <1>7, <1>8, <1>9

\* A request moves on: served with what the tables hold, failed, or landed.
LEMMA AnswerKeepsLists ==
  ASSUME BookingsInv, NEW scr \in Screens, NEW i \in 1 .. MaxAsks,
         Serve(scr, i) \/ AskFails(scr, i) \/ Land(scr, i)
  PROVE  /\ reply' \in [Screens -> [1 .. MaxAsks -> Requests]]
         /\ shown' \in [Screens -> Answers]
         /\ \A q \in Screens : ListInOrder(q)'
         /\ \A a \in Editors : OwnInOrder(a)'
  <1>1. /\ asked \in [Screens -> 0 .. MaxAsks] /\ MaxAsks \in Nat
        /\ reply \in [Screens -> [1 .. MaxAsks -> Requests]]
        /\ shown \in [Screens -> Answers]
        /\ tick \in Nat /\ own \in [Editors -> 0 .. MaxCommits]
        /\ MaxCommits \in Nat
    BY BookingsAssumption DEF BookingsInv, BookingsTypeOK
  <1>2. /\ UNCHANGED <<tick, own, asked>>
        /\ reply[scr][i].at # "unsent"
        /\ \A q \in Screens \ {scr} : /\ reply'[q] = reply[q]
                                      /\ shown'[q] = shown[q]
        /\ \A j \in 1 .. MaxAsks \ {i} : reply'[scr][j] = reply[scr][j]
    BY <1>1 DEF Serve, AskFails, Land, Answered, table, Phases
  <1>3. PICK r \in Requests :
          /\ reply' = [reply EXCEPT ![scr][i] = r]
          /\ r.at # "unsent" /\ r.ans.tick <= tick
          /\ r.at = "served" => r.ans.tick = tick /\ UNCHANGED shown
          /\ r.at = "landed" =>
               /\ reply[scr][i].at = "served"
               /\ shown' = IF scr \notin Pickers /\ i # asked[scr] THEN shown
                           ELSE [shown EXCEPT ![scr] = reply[scr][i].ans]
          /\ r.at \notin {"served", "landed"} => UNCHANGED shown
    <2>1. CASE Serve(scr, i)
      <3> DEFINE s == Request("served", Answer(scr))
      <3>1. /\ s \in Requests
            /\ s.at = "served" /\ s.ans.tick = tick
        BY AnswerTyped DEF BookingsInv, Request, Phases, Requests
      <3>2. reply' = [reply EXCEPT ![scr][i] = s] /\ UNCHANGED shown
        BY <2>1 DEF Serve, Answered
      <3> USE <3>1
      <3> HIDE DEF s
      <3> WITNESS s \in Requests
      <3> QED
        BY <1>1, <3>1, <3>2
    <2>2. CASE AskFails(scr, i)
      <3> DEFINE s == Request("failed", Blank)
      <3>1. /\ s \in Requests
            /\ s.at = "failed" /\ s.ans.tick = 0
        BY BlankTyped DEF Request, Phases, Requests
      <3>2. reply' = [reply EXCEPT ![scr][i] = s] /\ UNCHANGED shown
        BY <2>2 DEF AskFails, Answered
      <3> USE <3>1
      <3> HIDE DEF s
      <3> WITNESS s \in Requests
      <3> QED
        BY <1>1, <3>1, <3>2
    <2>3. CASE Land(scr, i)
      <3> DEFINE s == Request("landed", Blank)
      <3>1. /\ s \in Requests
            /\ s.at = "landed" /\ s.ans.tick = 0
        BY BlankTyped DEF Request, Phases, Requests
      <3>2. /\ reply' = [reply EXCEPT ![scr][i] = s]
            /\ reply[scr][i].at = "served"
            /\ shown' = IF scr \notin Pickers /\ i # asked[scr] THEN shown
                        ELSE [shown EXCEPT ![scr] = reply[scr][i].ans]
        BY <2>3 DEF Land, Answered, Stale
      <3> USE <3>1
      <3> HIDE DEF s
      <3> WITNESS s \in Requests
      <3> QED
        BY <1>1, <3>1, <3>2
    <2> QED
      BY <2>1, <2>2, <2>3
  <1>4. reply' \in [Screens -> [1 .. MaxAsks -> Requests]]
    BY <1>1, <1>3
  <1>5. reply'[scr][i] = r
    BY <1>1, <1>3
  <1>6. shown' \in [Screens -> Answers]
    <2>1. reply[scr][i].ans \in Answers
      BY <1>1 DEF Requests
    <2>2. shown' = shown \/ shown' = [shown EXCEPT ![scr] = reply[scr][i].ans]
      BY <1>3
    <2> QED
      BY <1>1, <2>1, <2>2
  <1>7. \A q \in Screens : /\ shown[q].tick \in Nat
                           /\ \A j \in 1 .. MaxAsks : reply[q][j].ans.tick \in Nat
    BY <1>1 DEF Answers, Requests
  <1>8. i <= asked[scr] /\ asked[scr] > 0
    BY <1>1, <1>2 DEF BookingsInv, ListInOrder
  <1>9. ASSUME NEW q \in Screens PROVE ListInOrder(q)'
    <2>1. ListInOrder(q) /\ ListInOrder(scr)
      BY DEF BookingsInv
    <2>2. CASE q # scr
      BY <1>2, <2>1, <2>2 DEF ListInOrder
    <2>3. CASE q = scr
      <3>1. \A j \in 1 .. MaxAsks : reply'[q][j].at = "unsent" <=> j > asked[q]
        BY <1>1, <1>2, <1>3, <1>5, <1>8, <2>1, <2>3 DEF ListInOrder
      <3>2. \A j \in 1 .. MaxAsks : reply'[q][j].ans.tick <= tick
        BY <1>1, <1>2, <1>3, <1>5, <2>1, <2>3 DEF ListInOrder
      <3>3. shown'[q].tick <= tick
        BY <1>1, <1>3, <2>1, <2>3 DEF ListInOrder
      <3>4. ASSUME q \notin Pickers, asked[q] > 0,
                   reply'[q][asked[q]].at = "served"
            PROVE  reply'[q][asked[q]].ans.tick >= shown'[q].tick
        <4>1. CASE i = asked[q]
          <5>1. r.at = "served"
            BY <1>5, <2>3, <3>4, <4>1
          <5>2. r.ans.tick = tick /\ shown'[q] = shown[q]
            BY <1>3, <5>1
          <5> QED
            BY <1>5, <1>7, <2>1, <2>3, <4>1, <5>2, <1>1 DEF ListInOrder
        <4>2. CASE i # asked[q]
          <5>1. shown'[q] = shown[q]
            BY <1>3, <2>3, <3>4, <4>2
          <5>2. reply'[q][asked[q]] = reply[q][asked[q]]
            BY <1>1, <1>2, <2>3, <3>4, <4>2
          <5> QED
            BY <2>1, <3>4, <5>1, <5>2 DEF ListInOrder
        <4> QED
          BY <4>1, <4>2
      <3> QED
        BY <1>2, <3>1, <3>2, <3>3, <3>4 DEF ListInOrder
    <2> QED
      BY <2>2, <2>3
  <1>10. ASSUME NEW a \in Editors PROVE OwnInOrder(a)'
    <2> DEFINE q == SlotsOf(a)
    <2>1. q \in Screens \ Pickers /\ OwnInOrder(a) /\ ListInOrder(q)
      BY ScreenFacts DEF BookingsInv
    <2>2. CASE q # scr
      BY <1>2, <2>1, <2>2 DEF OwnInOrder
    <2>3. CASE q = scr /\ i # asked[q]
      <3>1. shown'[q] = shown[q]
        BY <1>3, <2>1, <2>3
      <3>2. reply'[q][asked[q]] = reply[q][asked[q]]
        BY <1>1, <1>2, <1>8, <2>3
      <3> QED
        BY <1>2, <2>1, <3>1, <3>2 DEF OwnInOrder
    <2>4. CASE q = scr /\ i = asked[q]
      <3>1. reply'[q][asked[q]] = r
        BY <1>5, <2>4
      <3>2. r.at = "served" => r.ans.tick >= own[a]
        BY <1>1, <1>3, <2>1 DEF OwnInOrder
      <3>3. r.at = "landed" => shown'[q].tick >= own[a]
        <4>1. r.at = "landed" => shown'[q] = reply[q][asked[q]].ans
                                 /\ reply[q][asked[q]].at = "served"
          BY <1>1, <1>3, <2>1, <2>4
        <4> QED
          BY <1>8, <2>1, <2>4, <4>1 DEF OwnInOrder
      <3> QED
        BY <1>2, <2>1, <3>1, <3>2, <3>3 DEF OwnInOrder
    <2> QED
      BY <2>2, <2>3, <2>4
  <1> QED
    BY <1>4, <1>6, <1>9, <1>10

-----------------------------------------------------------------------------
(* Every step of Bookings keeps the invariant.                             *)

\* Steps that only ask for lists, or answer a request for one.
LEMMA AskingKeeps ==
  ASSUME BookingsInv, NEW scr \in Screens, asked[scr] + 1 < MaxAsks,
         Asking({scr}), signals' \subseteq Clients,
         UNCHANGED <<table, change, own, client, socket, faults>>
  PROVE  BookingsInv'
  <1>1. asked \in [Screens -> 0 .. MaxAsks] /\ MaxAsks \in Nat
    BY BookingsAssumption DEF BookingsInv, BookingsTypeOK
  <1>2. /\ asked' \in [Screens -> 0 .. MaxAsks]
        /\ reply' \in [Screens -> [1 .. MaxAsks -> Requests]]
        /\ \A q \in Screens : ListInOrder(q)'
        /\ \A a \in Editors : OwnInOrder(a)'
    <2> DEFINE S == {scr}
    <2>1. /\ S \in SUBSET Screens /\ \A q \in S : asked[q] < MaxAsks
          /\ Asking(S) /\ UNCHANGED <<tick, own>>
      BY <1>1 DEF table
    <2> HIDE DEF S
    <2> QED
      BY <2>1, AskingKeepsLists
  <1>3. BookingsTypeOK' /\ SentIsWhole' /\ OneEach'
    BY <1>2
    DEF BookingsInv, BookingsTypeOK, SentIsWhole, OneEach, ApptOf, Asking, table
  <1>4. \A q \in Screens : asked[q] < MaxAsks => asked'[q] < MaxAsks
    BY <1>1 DEF Asking
  <1>5. RoomToAsk'
    BY <1>4, ScreenFacts DEF BookingsInv, RoomToAsk
  <1> QED
    BY <1>2, <1>3, <1>5 DEF BookingsInv

LEMMA AnswersKeep ==
  ASSUME BookingsInv, NEW scr \in Screens, NEW i \in 1 .. MaxAsks,
         Serve(scr, i) \/ AskFails(scr, i) \/ Land(scr, i)
  PROVE  BookingsInv'
  <1>1. /\ reply' \in [Screens -> [1 .. MaxAsks -> Requests]]
        /\ shown' \in [Screens -> Answers]
        /\ \A q \in Screens : ListInOrder(q)'
        /\ \A a \in Editors : OwnInOrder(a)'
    BY AnswerKeepsLists
  <1>2. /\ UNCHANGED <<table, change, own, client, socket, signals, asked>>
        /\ faults' \in 0 .. MaxFaults
    BY BookingsAssumption
    DEF Serve, AskFails, Land, Answered, BookingsInv, BookingsTypeOK
  <1>3. BookingsTypeOK'
    BY <1>1, <1>2 DEF BookingsInv, BookingsTypeOK, table
  <1>4. SentIsWhole' /\ RoomToAsk' /\ OneEach'
    BY <1>2 DEF BookingsInv, SentIsWhole, RoomToAsk, OneEach, ApptOf, table
  <1> QED
    BY <1>1, <1>3, <1>4 DEF BookingsInv

\* What an admin may send names a row on display, or a new one.
LEMMA OffersAreWhole ==
  ASSUME BookingsTypeOK, NEW a \in Editors,
         NEW o \in NewSlots \cup Edits(a) \cup Toggles(a) \cup Decisions(a)
  PROVE  /\ o.slot \in Slots /\ o.act \in AdminActs
         /\ o.time \in Times \cup {"none"}
         /\ o.act \in {"create", "edit"} => o.time \in Times
  <1>1. /\ shown[SlotsOf(a)].rows \subseteq Rows
        /\ shown[ApptsOf(a)].rows \subseteq Rows
    BY ScreenFacts DEF BookingsTypeOK, Answers
  <1>2. CASE o \in NewSlots
    BY <1>2 DEF NewSlots, AdminActs
  <1>3. CASE o \in Edits(a)
    BY <1>1, <1>3 DEF Edits, AdminActs, Rows
  <1>4. CASE o \in Toggles(a)
    BY <1>1, <1>4 DEF Toggles, AdminActs, Rows
  <1>5. CASE o \in Decisions(a)
    BY <1>1, <1>5 DEF Decisions, AdminActs, Rows
  <1> QED
    BY <1>2, <1>3, <1>4, <1>5

LEMMA SendChangeKeeps ==
  ASSUME BookingsInv, NEW a \in Editors,
         NEW o \in NewSlots \cup Edits(a) \cup Toggles(a) \cup Decisions(a),
         SendChange(a, o)
  PROVE  BookingsInv'
  <1> DEFINE s == [pc |-> "sent", act |-> o.act, slot |-> o.slot, time |-> o.time]
  <1>1. /\ o.slot \in Slots /\ o.act \in AdminActs
        /\ o.time \in Times \cup {"none"}
        /\ o.act \in {"create", "edit"} => o.time \in Times
    BY OffersAreWhole DEF BookingsInv
  <1>2. /\ s \in ChangeStates
        /\ s.slot \in Slots /\ s.act \in AdminActs
        /\ s.act \in {"create", "edit"} => s.time \in Times
    BY <1>1 DEF ChangeStates
  <1>3. change' = [change EXCEPT ![a] = s]
    BY DEF SendChange
  <1> HIDE DEF s
  <1>4. /\ UNCHANGED <<table, own, client, socket, signals, screens, faults>>
        /\ asked[SlotsOf(a)] < MaxAsks /\ asked[ApptsOf(a)] < MaxAsks
    BY DEF SendChange
  <1>5. BookingsTypeOK'
    BY <1>2, <1>3, <1>4 DEF BookingsInv, BookingsTypeOK, table, screens
  <1>6. SentIsWhole'
    BY <1>2, <1>3, <1>4 DEF BookingsInv, BookingsTypeOK, SentIsWhole
  <1>7. RoomToAsk'
    BY <1>3, <1>4 DEF BookingsInv, BookingsTypeOK, RoomToAsk, screens
  <1>8. OneEach'
    BY <1>4 DEF BookingsInv, OneEach, ApptOf, table
  <1>9. tick \in Nat
    BY BookingsAssumption DEF BookingsInv, BookingsTypeOK
  <1>10. /\ \A scr \in Screens : ListInOrder(scr)'
         /\ \A b \in Editors : OwnInOrder(b)'
    BY <1>4, <1>9, CommitKeepsLists DEF table
  <1> QED
    BY <1>5, <1>6, <1>7, <1>8, <1>10 DEF BookingsInv

\* What the three commits of an admin have in common.
LEMMA CommittedKeeps ==
  ASSUME BookingsInv, NEW a \in Editors, NEW acts, Committed(a, acts),
         created' \subseteq Slots, closed' \subseteq Slots,
         time' \in [Slots -> Times], appts' \subseteq Appointments,
         UNCHANGED booked, OneEach'
  PROVE  BookingsInv'
  <1>1. /\ tick \in Nat /\ tick' \in 0 .. MaxCommits /\ tick' = tick + 1
    BY BookingsAssumption DEF BookingsInv, BookingsTypeOK, Committed
  <1>2. /\ \A scr \in Screens : ListInOrder(scr)'
        /\ \A b \in Editors : OwnInOrder(b)'
    BY <1>1, CommitKeepsLists DEF Committed
  <1>3. BookingsTypeOK'
    <2>1. change' \in [Editors -> ChangeStates]
      <3> DEFINE s == [change[a] EXCEPT !.pc = "answer"]
      <3>1. change' = [change EXCEPT ![a] = s]
        BY DEF Committed
      <3>2. change[a] \in ChangeStates
        BY DEF BookingsInv, BookingsTypeOK
      <3>3. s \in ChangeStates
        BY <3>2 DEF ChangeStates
      <3> HIDE DEF s
      <3> QED
        BY <3>1, <3>3 DEF BookingsInv, BookingsTypeOK
    <2> QED
      BY <1>1, <2>1 DEF BookingsInv, BookingsTypeOK, Committed, screens
  <1>4. SentIsWhole'
    BY DEF BookingsInv, BookingsTypeOK, SentIsWhole, Committed
  <1>5. RoomToAsk'
    BY DEF BookingsInv, BookingsTypeOK, RoomToAsk, Committed, screens
  <1> QED
    BY <1>2, <1>3, <1>4, <1>5 DEF BookingsInv

LEMMA CreateSlotKeeps ==
  ASSUME BookingsInv, NEW a \in Editors, CreateSlot(a)
  PROVE  BookingsInv'
  <1>1. change[a].slot \in Slots /\ change[a].time \in Times
    BY DEF BookingsInv, SentIsWhole, CreateSlot, Committed
  <1>2. /\ created' \subseteq Slots /\ closed' \subseteq Slots
        /\ time' \in [Slots -> Times] /\ appts' \subseteq Appointments
        /\ UNCHANGED booked /\ OneEach'
    BY <1>1 DEF BookingsInv, BookingsTypeOK, CreateSlot, OneEach, ApptOf
  <1> QED
    BY <1>2, CommittedKeeps DEF CreateSlot

LEMMA UpdateSlotKeeps ==
  ASSUME BookingsInv, NEW a \in Editors, UpdateSlot(a)
  PROVE  BookingsInv'
  <1>1. /\ change[a].slot \in Slots
        /\ change[a].act = "edit" => change[a].time \in Times
    BY DEF BookingsInv, SentIsWhole, UpdateSlot, Committed
  <1>2. time' \in [Slots -> Times]
    BY <1>1 DEF BookingsInv, BookingsTypeOK, UpdateSlot
  <1>3. closed' \subseteq Slots
    BY <1>1 DEF BookingsInv, BookingsTypeOK, UpdateSlot
  <1>4. /\ created' \subseteq Slots /\ appts' \subseteq Appointments
        /\ UNCHANGED booked /\ OneEach'
    BY DEF BookingsInv, BookingsTypeOK, UpdateSlot, OneEach, ApptOf
  <1> QED
    BY <1>2, <1>3, <1>4, CommittedKeeps DEF UpdateSlot

LEMMA UpdateStatusKeeps ==
  ASSUME BookingsInv, NEW a \in Editors, UpdateStatus(a)
  PROVE  BookingsInv'
  <1>1. change[a].act \in Statuses /\ appts \subseteq Appointments
    BY DEF UpdateStatus, Committed, Statuses, BookingsInv, BookingsTypeOK
  <1>2. appts' \subseteq Appointments /\ OneEach'
    BY <1>1, StatusKeepsBookings DEF BookingsInv, UpdateStatus, OneEach
  <1>3. /\ created' \subseteq Slots /\ closed' \subseteq Slots
        /\ time' \in [Slots -> Times] /\ UNCHANGED booked
    BY DEF BookingsInv, BookingsTypeOK, UpdateStatus
  <1> QED
    BY <1>2, <1>3, CommittedKeeps DEF UpdateStatus

\* An admin's request is over, with its reloads or without.
LEMMA ChangeAnsweredKeeps ==
  ASSUME BookingsInv, NEW a \in Editors, NEW r \in Replicas,
         ChangeAnswered(a, r)
  PROVE  BookingsInv'
  <1>1. PICK S \in SUBSET {SlotsOf(a), ApptsOf(a)} : Asking(S) /\ SlotsOf(a) \in S
    BY DEF ChangeAnswered
  <1>2. /\ asked[SlotsOf(a)] < MaxAsks /\ asked[ApptsOf(a)] < MaxAsks
        /\ own \in [Editors -> 0 .. MaxCommits] /\ tick \in 0 .. MaxCommits
        /\ asked \in [Screens -> 0 .. MaxAsks] /\ MaxAsks \in Nat
        /\ change \in [Editors -> ChangeStates]
    BY BookingsAssumption
    DEF BookingsInv, BookingsTypeOK, RoomToAsk, ChangeAnswered
  <1>3. /\ UNCHANGED <<table, client, socket, faults>>
        /\ own' = [own EXCEPT ![a] = tick]
        /\ change' = [change EXCEPT ![a] = IdleEditor]
    BY DEF ChangeAnswered
  <1>4. S \in SUBSET Screens /\ \A scr \in S : asked[scr] < MaxAsks
    BY <1>1, <1>2, ScreenFacts
  <1>5. \A b \in Editors : own'[b] = own[b] \/ (SlotsOf(b) \in S /\ own'[b] = tick)
    <2> SUFFICES ASSUME NEW b \in Editors
                 PROVE  own'[b] = own[b] \/ (SlotsOf(b) \in S /\ own'[b] = tick)
      OBVIOUS
    <2>1. CASE b = a
      BY <1>1, <1>2, <1>3, <2>1
    <2>2. CASE b # a
      <3>1. own'[b] = own[b]
        BY <1>2, <1>3, <2>2
      <3> QED
        BY <3>1
    <2> QED
      BY <2>1, <2>2
  <1>6. /\ asked' \in [Screens -> 0 .. MaxAsks]
        /\ reply' \in [Screens -> [1 .. MaxAsks -> Requests]]
        /\ \A q \in Screens : ListInOrder(q)'
        /\ \A b \in Editors : OwnInOrder(b)'
    BY <1>1, <1>3, <1>4, <1>5, AskingKeepsLists DEF table
  <1>7. signals' \subseteq Clients
    BY DEF ChangeAnswered, Emit, BookingsInv, BookingsTypeOK
  <1>8. /\ change' \in [Editors -> ChangeStates]
        /\ change'[a].pc = "idle"
        /\ \A b \in Editors \ {a} : change'[b] = change[b]
    BY <1>2, <1>3 DEF IdleEditor, ChangeStates
  <1>9. own' \in [Editors -> 0 .. MaxCommits]
    BY <1>2, <1>3
  <1>10. shown' = shown
    BY <1>1 DEF Asking
  <1>11. BookingsTypeOK'
    BY <1>3, <1>6, <1>7, <1>8, <1>9, <1>10 DEF BookingsInv, BookingsTypeOK, table
  <1>12. SentIsWhole'
    BY <1>3, <1>8 DEF BookingsInv, SentIsWhole
  <1>13. RoomToAsk'
    <2>1. \A q \in Screens \ S : asked'[q] = asked[q]
      BY <1>1, <1>2 DEF Asking
    <2>2. \A b \in Editors \ {a} : /\ SlotsOf(b) \in Screens \ S
                                   /\ ApptsOf(b) \in Screens \ S
      BY ScreenFacts
    <2>3. \A c \in Clients : PickerOf(c) \in Screens \ S
      BY ScreenFacts
    <2> QED
      BY <1>3, <1>8, <2>1, <2>2, <2>3 DEF BookingsInv, RoomToAsk
  <1>14. OneEach'
    BY <1>3 DEF BookingsInv, OneEach, ApptOf, table
  <1> QED
    BY <1>6, <1>11, <1>12, <1>13, <1>14 DEF BookingsInv

LEMMA ChangeFailsKeeps ==
  ASSUME BookingsInv, NEW a \in Editors, ChangeFails(a)
  PROVE  BookingsInv'
  <1>1. UNCHANGED <<table, own, client, socket, signals, screens>>
    BY DEF ChangeFails
  <1>2. tick \in Nat /\ faults' \in 0 .. MaxFaults
    BY BookingsAssumption DEF BookingsInv, BookingsTypeOK, ChangeFails
  <1>3. BookingsTypeOK'
    BY <1>1, <1>2
    DEF BookingsInv, BookingsTypeOK, ChangeFails, IdleEditor, table, screens,
           ChangeStates
  <1>4. SentIsWhole' /\ RoomToAsk'
    BY <1>1 DEF BookingsInv, BookingsTypeOK, SentIsWhole, RoomToAsk, ChangeFails,
                IdleEditor, screens
  <1>5. OneEach'
    BY <1>1 DEF BookingsInv, OneEach, ApptOf, table
  <1>6. /\ \A scr \in Screens : ListInOrder(scr)'
        /\ \A b \in Editors : OwnInOrder(b)'
    BY <1>1, <1>2, CommitKeepsLists DEF table
  <1> QED
    BY <1>3, <1>4, <1>5, <1>6 DEF BookingsInv

\* The four steps of a client that leave the lists and the tables alone.
LEMMA ClientMoves ==
  ASSUME BookingsInv, NEW c \in Clients, NEW s, client' = [client EXCEPT ![c] = s],
         s \in ClientStates,
         s.pc # "idle" => s.slot \in Slots /\ asked'[PickerOf(c)] < MaxAsks,
         \A q \in Screens : q \in Pickers /\ q # PickerOf(c) => asked'[q] = asked[q]
  PROVE  /\ client' \in [Clients -> ClientStates]
         /\ \A d \in Clients : client'[d].pc # "idle" => client'[d].slot \in Slots
         /\ \A d \in Clients : client'[d].pc # "idle" =>
              asked'[PickerOf(d)] < MaxAsks
  <1>1. client \in [Clients -> ClientStates]
    BY DEF BookingsInv, BookingsTypeOK
  <1>2. client'[c] = s /\ \A d \in Clients \ {c} : client'[d] = client[d]
    BY <1>1
  <1>3. \A d \in Clients \ {c} : asked'[PickerOf(d)] = asked[PickerOf(d)]
    BY ScreenFacts
  <1> QED
    BY <1>1, <1>2, <1>3 DEF BookingsInv, SentIsWhole, RoomToAsk

LEMMA ClientKeeps ==
  ASSUME BookingsInv, NEW c \in Clients, NEW s, client' = [client EXCEPT ![c] = s],
         s \in ClientStates,
         s.pc # "idle" => s.slot \in Slots /\ asked[PickerOf(c)] < MaxAsks,
         signals' \subseteq Clients,
         UNCHANGED <<table, change, own, socket, screens, faults>>
  PROVE  BookingsInv'
  <1>1. UNCHANGED <<asked, reply, shown>> /\ tick \in Nat
    BY BookingsAssumption DEF screens, BookingsInv, BookingsTypeOK
  <1>2. /\ client' \in [Clients -> ClientStates]
        /\ \A d \in Clients : client'[d].pc # "idle" => client'[d].slot \in Slots
        /\ \A d \in Clients : client'[d].pc # "idle" =>
             asked'[PickerOf(d)] < MaxAsks
    BY <1>1, ClientMoves
  <1>3. BookingsTypeOK' /\ OneEach'
    BY <1>1, <1>2 DEF BookingsInv, BookingsTypeOK, OneEach, ApptOf, table
  <1>4. SentIsWhole' /\ RoomToAsk'
    BY <1>1, <1>2 DEF BookingsInv, SentIsWhole, RoomToAsk
  <1>5. /\ \A scr \in Screens : ListInOrder(scr)'
        /\ \A b \in Editors : OwnInOrder(b)'
    BY <1>1, CommitKeepsLists DEF table, screens
  <1> QED
    BY <1>3, <1>4, <1>5 DEF BookingsInv

LEMMA ChooseOrSubmitKeeps ==
  ASSUME BookingsInv, NEW c \in Clients,
         (\E row \in Rows : Choose(c, row)) \/ Submit(c) \/ BookConflict(c)
         \/ (\E r \in Replicas : BookAnswer(c, r))
  PROVE  BookingsInv'
  <1>1. /\ client[c] \in ClientStates
        /\ signals \subseteq Clients
        /\ client[c].pc # "idle" =>
             client[c].slot \in Slots /\ asked[PickerOf(c)] < MaxAsks
    BY DEF BookingsInv, BookingsTypeOK, SentIsWhole, RoomToAsk
  <1>2. CASE \E row \in Rows : Choose(c, row)
    <2>1. PICK row \in Rows : Choose(c, row)
      BY <1>2
    <2> DEFINE s == [client[c] EXCEPT !.slot = row.slot, !.seen = row.time]
    <2>2. client' = [client EXCEPT ![c] = s]
      BY <2>1 DEF Choose
    <2>3. /\ s \in ClientStates
          /\ s.pc = "idle"
      BY <1>1, <2>1 DEF Choose, Rows, ClientStates
    <2> HIDE DEF s
    <2> QED
      BY <1>1, <2>1, <2>2, <2>3, ClientKeeps DEF Choose
  <1>3. CASE Submit(c)
    <2> DEFINE s == [client[c] EXCEPT !.pc = "sent", !.told = "none"]
    <2>1. client' = [client EXCEPT ![c] = s]
      BY <1>3 DEF Submit
    <2>2. /\ s \in ClientStates
          /\ s.slot \in Slots
      BY <1>1, <1>3 DEF Submit, ClientStates
    <2> HIDE DEF s
    <2> QED
      BY <1>1, <1>3, <2>1, <2>2, ClientKeeps DEF Submit
  <1>4. CASE BookConflict(c)
    <2> DEFINE s == [client[c] EXCEPT !.pc = "lost"]
    <2>1. client' = [client EXCEPT ![c] = s]
      BY <1>4 DEF BookConflict
    <2>2. /\ s \in ClientStates
          /\ s.slot \in Slots
      BY <1>1, <1>4 DEF BookConflict, ClientStates
    <2> HIDE DEF s
    <2> QED
      BY <1>1, <1>4, <2>1, <2>2, ClientKeeps DEF BookConflict
  <1>5. CASE \E r \in Replicas : BookAnswer(c, r)
    <2>1. PICK r \in Replicas : BookAnswer(c, r)
      BY <1>5
    <2> DEFINE s == [client[c] EXCEPT !.pc = "idle", !.told = "booked"]
    <2>2. client' = [client EXCEPT ![c] = s]
      BY <2>1 DEF BookAnswer, Told
    <2>3. /\ s \in ClientStates
          /\ s.pc = "idle"
      BY <1>1 DEF ClientStates
    <2>4. signals' \subseteq Clients
      BY <1>1, <2>1 DEF BookAnswer, Emit
    <2> HIDE DEF s
    <2> QED
      BY <1>1, <2>1, <2>2, <2>3, <2>4, ClientKeeps DEF BookAnswer
  <1> QED
    BY <1>2, <1>3, <1>4, <1>5

\* The conditional update and the row, together.
LEMMA BookKeeps ==
  ASSUME BookingsInv, NEW c \in Clients, Book(c)
  PROVE  BookingsInv'
  <1> PICK s : s = client[c].slot
    OBVIOUS
  <1> DEFINE x == [slot |-> s, client |-> c, status |-> "booked"]
             new == [client[c] EXCEPT !.pc = "won"]
  <1>1. /\ client[c] \in ClientStates
        /\ s \in Slots /\ asked[PickerOf(c)] < MaxAsks
        /\ appts \subseteq Appointments
        /\ tick \in 0 .. MaxCommits /\ MaxCommits \in Nat
    BY BookingsAssumption
    DEF BookingsInv, BookingsTypeOK, SentIsWhole, RoomToAsk, Book
  <1>2. /\ s \notin booked /\ booked' = booked \cup {s}
        /\ appts' = appts \cup {x} /\ tick' = tick + 1 /\ tick < MaxCommits
        /\ UNCHANGED <<created, closed, time, change, own, socket, signals,
                       screens, faults>>
    BY DEF Book
  <1>3. client' = [client EXCEPT ![c] = new]
    BY DEF Book
  <1>4. /\ new \in ClientStates
        /\ new.slot \in Slots
    BY <1>1 DEF ClientStates
  <1>5. x \in Appointments /\ x.slot = s
    BY <1>1 DEF Appointments, Statuses
  <1> HIDE DEF x, new
  <1>6. UNCHANGED <<asked, reply, shown>>
    BY <1>2 DEF screens
  <1>7. /\ client' \in [Clients -> ClientStates]
        /\ \A d \in Clients : client'[d].pc # "idle" => client'[d].slot \in Slots
        /\ \A d \in Clients : client'[d].pc # "idle" =>
             asked'[PickerOf(d)] < MaxAsks
    BY <1>1, <1>3, <1>4, <1>6, ClientMoves
  <1>8. BookingsTypeOK'
    BY <1>1, <1>2, <1>5, <1>6, <1>7 DEF BookingsInv, BookingsTypeOK
  <1>9. SentIsWhole' /\ RoomToAsk'
    BY <1>2, <1>6, <1>7 DEF BookingsInv, SentIsWhole, RoomToAsk
  <1>10. OneEach'
    <2>1. ApptOf(s) = {}
      BY <1>1, <1>2 DEF BookingsInv, OneEach
    <2>2. ApptOf(s)' = {x}
      BY <1>2, <1>5, <2>1 DEF ApptOf
    <2>3. \A t \in Slots \ {s} : ApptOf(t)' = ApptOf(t)
      BY <1>2, <1>5 DEF ApptOf
    <2> QED
      BY <1>2, <2>2, <2>3 DEF BookingsInv, OneEach
  <1>11. /\ \A scr \in Screens : ListInOrder(scr)'
         /\ \A b \in Editors : OwnInOrder(b)'
    BY <1>1, <1>2, CommitKeepsLists
  <1> QED
    BY <1>8, <1>9, <1>10, <1>11 DEF BookingsInv

LEMMA RefusalKeeps ==
  ASSUME BookingsInv, NEW c \in Clients, BookRefused(c) \/ BookFails(c)
  PROVE  BookingsInv'
  <1> DEFINE s == [client[c] EXCEPT !.pc = "idle", !.told = "taken"]
  <1>1. /\ client[c] \in ClientStates
        /\ asked[PickerOf(c)] < MaxAsks
        /\ asked \in [Screens -> 0 .. MaxAsks] /\ MaxAsks \in Nat
    BY BookingsAssumption
    DEF BookingsInv, BookingsTypeOK, RoomToAsk, BookRefused, BookFails
  <1>2. /\ UNCHANGED <<table, change, own, socket, signals>>
        /\ Asking({PickerOf(c)}) /\ faults' \in 0 .. MaxFaults
    BY BookingsAssumption
    DEF BookingsInv, BookingsTypeOK, BookRefused, BookFails
  <1>3. client' = [client EXCEPT ![c] = s]
    BY DEF BookRefused, BookFails, Told
  <1>4. /\ s \in ClientStates
        /\ s.pc = "idle"
    BY <1>1 DEF ClientStates
  <1> HIDE DEF s
  <1>5. /\ asked' \in [Screens -> 0 .. MaxAsks]
        /\ reply' \in [Screens -> [1 .. MaxAsks -> Requests]]
        /\ \A q \in Screens : ListInOrder(q)'
        /\ \A b \in Editors : OwnInOrder(b)'
    <2> DEFINE S == {PickerOf(c)}
    <2>1. /\ S \in SUBSET Screens /\ \A q \in S : asked[q] < MaxAsks
          /\ Asking(S) /\ UNCHANGED <<tick, own>>
      BY <1>1, <1>2, ScreenFacts DEF table
    <2> HIDE DEF S
    <2> QED
      BY <2>1, AskingKeepsLists
  <1>6. \A q \in Screens : q # PickerOf(c) => asked'[q] = asked[q]
    BY <1>1, <1>2 DEF Asking
  <1>7. /\ client' \in [Clients -> ClientStates]
        /\ \A d \in Clients : client'[d].pc # "idle" => client'[d].slot \in Slots
        /\ \A d \in Clients : client'[d].pc # "idle" =>
             asked'[PickerOf(d)] < MaxAsks
    BY <1>3, <1>4, <1>6, ClientMoves
  <1>8. shown' = shown
    BY <1>2 DEF Asking
  <1>9. BookingsTypeOK' /\ OneEach'
    BY <1>2, <1>5, <1>7, <1>8 DEF BookingsInv, BookingsTypeOK, OneEach, ApptOf, table
  <1>10. \A b \in Editors : /\ asked'[SlotsOf(b)] = asked[SlotsOf(b)]
                            /\ asked'[ApptsOf(b)] = asked[ApptsOf(b)]
    BY <1>6, ScreenFacts
  <1>11. SentIsWhole' /\ RoomToAsk'
    BY <1>2, <1>7, <1>10 DEF BookingsInv, SentIsWhole, RoomToAsk
  <1> QED
    BY <1>5, <1>9, <1>11 DEF BookingsInv

LEMMA BookingsStep == BookingsInv /\ [BookingsNext]_bookingsVars => BookingsInv'
  <1> SUFFICES ASSUME BookingsInv, [BookingsNext]_bookingsVars
               PROVE  BookingsInv'
    OBVIOUS
  <1>1. ASSUME NEW scr \in Screens, Ask(scr) PROVE BookingsInv'
    BY <1>1, AskingKeeps DEF Ask, BookingsInv, BookingsTypeOK
  <1>2. ASSUME NEW scr \in Screens, NEW i \in 1 .. MaxAsks,
               Serve(scr, i) \/ AskFails(scr, i) \/ Land(scr, i)
        PROVE  BookingsInv'
    BY <1>2, AnswersKeep
  <1>3. ASSUME NEW a \in Editors,
               NEW o \in NewSlots \cup Edits(a) \cup Toggles(a) \cup Decisions(a),
               SendChange(a, o)
        PROVE  BookingsInv'
    BY <1>3, SendChangeKeeps
  <1>4. ASSUME NEW a \in Editors,
               CreateSlot(a) \/ UpdateSlot(a) \/ UpdateStatus(a) \/ ChangeFails(a)
               \/ \E r \in Replicas : ChangeAnswered(a, r)
        PROVE  BookingsInv'
    BY <1>4, CreateSlotKeeps, UpdateSlotKeeps, UpdateStatusKeeps,
       ChangeFailsKeeps, ChangeAnsweredKeeps
  <1>5. ASSUME NEW c \in Clients, Refetch(c) PROVE BookingsInv'
    <2>1. PickerOf(c) \in Screens /\ signals' \subseteq Clients
      BY <1>5, ScreenFacts DEF Refetch, BookingsInv, BookingsTypeOK
    <2> QED
      BY <1>5, <2>1, AskingKeeps DEF Refetch
  <1>6. ASSUME NEW c \in Clients,
               \/ \E row \in Rows : Choose(c, row)
               \/ Submit(c) \/ Book(c) \/ BookConflict(c) \/ BookRefused(c)
               \/ BookFails(c)
               \/ \E r \in Replicas : BookAnswer(c, r)
        PROVE  BookingsInv'
    BY <1>6, ChooseOrSubmitKeeps, BookKeeps, RefusalKeeps
  <1>7. CASE UNCHANGED bookingsVars
    <2>1. UNCHANGED <<screens, own, tick>> /\ tick \in Nat
      BY <1>7, BookingsAssumption
      DEF bookingsVars, screens, BookingsInv, BookingsTypeOK
    <2>2. /\ \A scr \in Screens : ListInOrder(scr)'
          /\ \A b \in Editors : OwnInOrder(b)'
      BY <2>1, CommitKeepsLists
    <2> QED
      BY <1>7, <2>2 DEF bookingsVars, BookingsInv, BookingsTypeOK, SentIsWhole,
                        RoomToAsk, OneEach, ApptOf
  <1> QED
    BY <1>1, <1>2, <1>3, <1>4, <1>5, <1>6, <1>7 DEF BookingsNext

LEMMA BookingsInvariant == BookingsSpec => []BookingsInv
  BY BookingsStarts, BookingsStep, PTL DEF BookingsSpec

\* Slots, bookings, requests and screens keep their types for any number of them.
THEOREM BookingsTypeCorrect == BookingsSpec => []BookingsTypeOK
  BY BookingsInvariant, PTL DEF BookingsInv

\* However many clients book and admins edit, close and cancel at once, a booked
\* slot has exactly one appointment and a free one none (book and updateStatus of
\* AppointmentsController).
THEOREM TakenSlotsAreHeld == BookingsSpec => []TakenSlotHasItsBooking
  <1>1. ASSUME BookingsInv PROVE TakenSlotHasItsBooking
    <2>1. ASSUME NEW s \in Slots, s \in booked PROVE Cardinality(ApptOf(s)) = 1
      <3>1. PICK x : ApptOf(s) = {x}
        BY <1>1, <2>1 DEF BookingsInv, OneEach
      <3> QED
        BY <3>1, FS_Singleton
    <2>2. ASSUME NEW s \in Slots, s \notin booked PROVE ApptOf(s) = {}
      BY <1>1, <2>2 DEF BookingsInv, OneEach
    <2> QED
      BY <2>1, <2>2 DEF TakenSlotHasItsBooking
  <1> QED
    BY <1>1, BookingsInvariant, PTL

\* Whatever order list answers arrive in, an admin's slot list that waits for
\* nothing shows the admin's own last change, or its last request failed
\* (useRequestGuard in AdminBookingsSection).
THEOREM SettledListsShowChange == BookingsSpec => []SettledListShowsOwnChange
  <1>1. ASSUME BookingsInv PROVE SettledListShowsOwnChange
    <2> SUFFICES ASSUME NEW a \in Editors,
                        \A i \in 1 .. MaxAsks :
                          reply[SlotsOf(a)][i].at \notin {"waiting", "served"},
                        ~ \E i \in 1 .. MaxAsks :
                            i = asked[SlotsOf(a)] /\ reply[SlotsOf(a)][i].at = "failed"
                 PROVE  shown[SlotsOf(a)].tick >= own[a]
      BY DEF SettledListShowsOwnChange
    <2> DEFINE scr == SlotsOf(a)
    <2>1. scr \in Screens
      BY ScreenFacts
    <2>2. /\ asked[scr] \in 0 .. MaxAsks /\ MaxAsks \in Nat
          /\ reply[scr] \in [1 .. MaxAsks -> Requests]
          /\ shown[scr].tick \in Nat
      BY <1>1, <2>1, BookingsAssumption DEF BookingsInv, BookingsTypeOK, Answers
    <2>3. OwnInOrder(a) /\ ListInOrder(scr)
      BY <1>1, <2>1 DEF BookingsInv
    <2>4. CASE asked[scr] = 0
      BY <2>2, <2>3, <2>4 DEF OwnInOrder
    <2>5. CASE asked[scr] > 0
      <3>1. reply[scr][asked[scr]].at = "landed"
        BY <2>2, <2>3, <2>5 DEF ListInOrder, Phases, Requests
      <3> QED
        BY <2>3, <2>5, <3>1 DEF OwnInOrder
    <2> QED
      BY <2>2, <2>4, <2>5
  <1> QED
    BY <1>1, BookingsInvariant, PTL

\* No answer, however late, takes an admin's list back to an older state of the
\* tables (rule 15; useRequestGuard and usePaginatedList.reload).
THEOREM AdminListsAdvance == BookingsSpec => AdminListsNeverGoBack
  <1> DEFINE NoneBack ==
        \A scr \in Screens \ Pickers : shown'[scr].tick >= shown[scr].tick
  <1>1. ASSUME BookingsInv, [BookingsNext]_bookingsVars PROVE [NoneBack]_shown
    <2>1. shown \in [Screens -> Answers]
      BY <1>1 DEF BookingsInv, BookingsTypeOK
    <2>2. ASSUME NEW scr \in Screens, NEW i \in 1 .. MaxAsks, Land(scr, i)
          PROVE  NoneBack
      <3> SUFFICES ASSUME NEW q \in Screens \ Pickers
                   PROVE  shown'[q].tick >= shown[q].tick
        OBVIOUS
      <3>1. shown[q].tick \in Nat
        BY <2>1 DEF Answers
      <3>2. CASE q = scr /\ i = asked[q]
        <4>1. i > 0 /\ reply[q][i].at = "served" /\ shown'[q] = reply[q][i].ans
          BY <2>1, <2>2, <3>2 DEF Land, Stale
        <4>2. ListInOrder(q)
          BY <1>1 DEF BookingsInv
        <4> QED
          BY <3>2, <4>1, <4>2 DEF ListInOrder
      <3>3. CASE ~(q = scr /\ i = asked[q])
        <4>1. shown'[q] = shown[q]
          BY <2>1, <2>2, <3>3 DEF Land, Stale
        <4> QED
          BY <3>1, <4>1
      <3> QED
        BY <3>2, <3>3
    <2>3. CASE \A scr \in Screens, i \in 1 .. MaxAsks : ~ Land(scr, i)
      <3>1. UNCHANGED shown
        BY <1>1, <2>3
        DEF BookingsNext, bookingsVars, screens, Asking, Ask, Serve, AskFails, Refetch,
            SendChange, CreateSlot, UpdateSlot, UpdateStatus, Committed,
            ChangeAnswered, ChangeFails, Choose, Submit, Book, BookConflict,
            BookAnswer, BookRefused, BookFails
      <3> QED
        BY <3>1
    <2> QED
      BY <2>2, <2>3
  <1> QED
    BY <1>1, BookingsInvariant, PTL DEF BookingsSpec, AdminListsNeverGoBack

\* A client who booked a slot has it alone until the booking is cancelled,
\* whatever other clients book and admins edit, close and decide meanwhile (rule
\* 4; the conditional update in AppointmentsController.book).
THEOREM SlotsAreHeld == BookingsSpec => HeldUntilCancelled
  <1> DEFINE Held == \A a \in appts : a.status # "cancelled" =>
                       /\ ApptOf(a.slot)' # {}
                       /\ \A b \in ApptOf(a.slot)' : b.client = a.client
  <1>1. ASSUME BookingsInv, [BookingsNext]_bookingsVars PROVE [Held]_appts
    <2> SUFFICES ASSUME appts' # appts,
                        NEW a \in appts, a.status # "cancelled"
                 PROVE  /\ ApptOf(a.slot)' # {}
                        /\ \A b \in ApptOf(a.slot)' : b.client = a.client
      OBVIOUS
    <2> PICK s : s = a.slot
      OBVIOUS
    <2>1. s \in Slots /\ appts \subseteq Appointments /\ a \in ApptOf(s)
      BY <1>1 DEF BookingsInv, BookingsTypeOK, Appointments, ApptOf
    <2>2. ApptOf(s) = {a} /\ s \in booked
      BY <1>1, <2>1 DEF BookingsInv, OneEach
    <2>3. ASSUME NEW c \in Clients, Book(c) PROVE ApptOf(s)' = ApptOf(s)
      <3>1. /\ client[c].slot # s
            /\ appts' = appts \cup
                 {[slot |-> client[c].slot, client |-> c, status |-> "booked"]}
        BY <2>2, <2>3 DEF Book
      <3> QED
        BY <3>1 DEF ApptOf
    <2>4. ASSUME NEW e \in Editors, UpdateStatus(e)
          PROVE  \E y : ApptOf(s)' = {y} /\ y.client = a.client
      <3>1. /\ change[e].act \in Statuses
            /\ appts' = WithStatus(change[e].slot, change[e].act)
        BY <2>4 DEF UpdateStatus, Committed, Statuses
      <3> QED
        BY <2>1, <2>2, <3>1, StatusKeepsBookings
    <2>5. (\E c \in Clients : Book(c)) \/ (\E e \in Editors : UpdateStatus(e))
      BY <1>1 DEF BookingsNext, bookingsVars, table, screens, Asking, Ask, Serve,
          AskFails, Land, Answered, Refetch, SendChange, CreateSlot, UpdateSlot,
          ChangeAnswered, ChangeFails, Choose, Submit, BookConflict, BookAnswer,
          BookRefused, BookFails
    <2>6. \E y : ApptOf(s)' = {y} /\ y.client = a.client
      BY <2>2, <2>3, <2>4, <2>5
    <2> QED
      BY <2>6
  <1> QED
    BY <1>1, BookingsInvariant, PTL DEF BookingsSpec, HeldUntilCancelled
=============================================================================
