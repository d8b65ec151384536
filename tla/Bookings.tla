------------------------------ MODULE Bookings ------------------------------
(***************************************************************************)
(* Appointment slots: AppointmentsController and AppointmentsGateway on    *)
(* the server (backend/src/appointments), the admin's two lists            *)
(* (frontend/views/AdminBookingsSection.tsx, with the request guard of     *)
(* frontend/lib/useRequestGuard.ts) and the client's picker                *)
(* (frontend/views/ClientDashboard.tsx, which has no guard).               *)
(*                                                                         *)
(* tick counts the commits to the two tables: it dates what a screen       *)
(* shows.  A slot's date and times are one of Times; past dates, search    *)
(* and the second page of the appointment list are left out.               *)
(*                                                                         *)
(* DecisionProofs EXTENDS this module and Casework: a name that both would *)
(* define carries this module's.                                           *)
(***************************************************************************)
EXTENDS Naturals, FiniteSets

CONSTANTS Slots, Clients,
          Editors,      \* admins with the bookings section open
          Times,        \* dates with their start and end
          Replicas,     \* a socket hears only the replica it is connected to
          MaxCommits,   \* bound: commits to the tables
          MaxAsks,      \* bound: list requests per screen
          MaxFaults     \* bound: failing or unanswered requests

ASSUME BookingsAssumption == /\ MaxCommits \in Nat /\ MaxAsks \in Nat
                             /\ MaxFaults \in Nat
                             /\ Times # {}

VARIABLES created,  \* rows of AppointmentSlot
          booked,   \* ... with isBooked
          closed,   \* ... with isClosed
          time,     \* ... with this date and start
          appts,    \* the Appointment table
          tick,
          change,   \* per admin: the change being made
          own,      \* per admin: the tick of the last change answered
          client,   \* per client: the booking being made
          socket,   \* per client: the replica of the open socket
          signals,  \* clients with a slots:changed on its way
          asked,    \* per screen: the last request's number (ref.current)
          reply,    \* per screen and request: where it is
          shown,    \* per screen: the answer on display
          faults

bookingsVars == <<created, booked, closed, time, appts, tick, change, own,
                  client, socket, signals, asked, reply, shown, faults>>

table   == <<created, booked, closed, time, appts, tick>>
screens == <<asked, reply, shown>>

-----------------------------------------------------------------------------
(* Rows, answers and screens.                                              *)

Statuses == {"booked", "done", "cancelled"}
Appointments == [slot : Slots, client : Clients, status : Statuses]

AdminSlots == [admin : Editors, list : {"slots"}]
AdminAppts == [admin : Editors, list : {"appointments"}]
Pickers    == [client : Clients]
Screens    == AdminSlots \cup AdminAppts \cup Pickers

SlotsOf(a) == [admin |-> a, list |-> "slots"]
ApptsOf(a) == [admin |-> a, list |-> "appointments"]
PickerOf(c) == [client |-> c]

ApptOf(s) == {a \in appts : a.slot = s}
StatusOf(s) == IF ApptOf(s) = {} THEN "free"
               ELSE (CHOOSE a \in ApptOf(s) : TRUE).status
Row(s) == [slot |-> s, time |-> time[s], closed |-> s \in closed,
           status |-> StatusOf(s)]
Rows == [slot : Slots, time : Times, closed : BOOLEAN,
         status : Statuses \cup {"free"}]
Answers == [tick : 0 .. MaxCommits, rows : SUBSET Rows]

\* GET /appointments/slots, /appointments/slots/all and /appointments.
OpenSlots == {Row(s) : s \in {s \in created : s \notin booked /\ s \notin closed}}
AllSlots  == {Row(s) : s \in {s \in created : StatusOf(s) # "done"}}
ApptList  == {Row(s) : s \in {s \in created : ApptOf(s) # {}}}

Answer(scr) == [tick |-> tick,
                rows |-> CASE scr \in Pickers    -> OpenSlots
                           [] scr \in AdminSlots -> AllSlots
                           [] scr \in AdminAppts -> ApptList]

Blank == [tick |-> 0, rows |-> {}]
\* A list request: not sent, sent, answered, on display (or dropped), failed.
Request(at, ans) == [at |-> at, ans |-> ans]
Phases == {"unsent", "waiting", "served", "landed", "failed"}

IdleEditor == [pc |-> "idle", act |-> "none", slot |-> "none", time |-> "none"]
IdleClient == [pc |-> "idle", slot |-> "none", seen |-> "none", told |-> "none"]
AdminActs == {"create", "edit", "close", "reopen", "done", "cancelled"}

ChangeStates == [pc : {"idle", "sent", "answer"}, act : AdminActs \cup {"none"},
                 slot : Slots \cup {"none"}, time : Times \cup {"none"}]
ClientStates == [pc : {"idle", "sent", "won", "lost"},
                 slot : Slots \cup {"none"}, seen : Times \cup {"none"},
                 told : {"none", "booked", "taken"}]
Requests == [at : Phases, ans : Answers]

BookingsTypeOK ==
  /\ created \subseteq Slots /\ booked \subseteq Slots /\ closed \subseteq Slots
  /\ time \in [Slots -> Times]
  /\ appts \subseteq Appointments
  /\ tick \in 0 .. MaxCommits
  /\ change \in [Editors -> ChangeStates]
  /\ own \in [Editors -> 0 .. MaxCommits]
  /\ client \in [Clients -> ClientStates]
  /\ socket \in [Clients -> Replicas]
  /\ signals \subseteq Clients
  /\ asked \in [Screens -> 0 .. MaxAsks]
  /\ reply \in [Screens -> [1 .. MaxAsks -> Requests]]
  /\ shown \in [Screens -> Answers]
  /\ faults \in 0 .. MaxFaults

BookingsInit ==
  /\ created \in SUBSET Slots
  /\ booked = {} /\ closed = {} /\ appts = {}
  /\ time = [s \in Slots |-> CHOOSE t \in Times : TRUE]
  /\ tick = 0
  /\ change = [a \in Editors |-> IdleEditor]
  /\ own = [a \in Editors |-> 0]
  /\ client = [c \in Clients |-> IdleClient]
  /\ socket \in [Clients -> Replicas]
  /\ signals = {}
  /\ asked = [scr \in Screens |-> 0]
  /\ reply = [scr \in Screens |-> [i \in 1 .. MaxAsks |-> Request("unsent", Blank)]]
  /\ shown = [scr \in Screens |-> Blank]
  /\ faults = 0

-----------------------------------------------------------------------------
(* A screen's list requests.                                               *)

Asking(S) ==
  /\ asked' = [scr \in Screens |-> asked[scr] + (IF scr \in S THEN 1 ELSE 0)]
  /\ reply' = [scr \in Screens |-> IF scr \in S
                 THEN [reply[scr] EXCEPT ![asked[scr] + 1] = Request("waiting", Blank)]
                 ELSE reply[scr]]
  /\ UNCHANGED shown

\* Mount, search or a change of language; one request is left for a change.
Ask(scr) == /\ asked[scr] + 1 < MaxAsks
            /\ Asking({scr})
            /\ UNCHANGED <<table, change, own, client, socket, signals, faults>>

Answered(scr, i, r) ==
  /\ reply' = [reply EXCEPT ![scr][i] = r]
  /\ UNCHANGED <<table, change, own, client, socket, signals, asked>>

Serve(scr, i) == /\ reply[scr][i].at = "waiting"
                 /\ Answered(scr, i, Request("served", Answer(scr)))
                 /\ UNCHANGED <<shown, faults>>

\* The catch branch: a banner, and the list stays as it is.
AskFails(scr, i) == /\ reply[scr][i].at \in {"waiting", "served"}
                    /\ faults < MaxFaults
                    /\ faults' = faults + 1
                    /\ Answered(scr, i, Request("failed", Blank))
                    /\ UNCHANGED shown

\* The mutant of Stale: the number is taken before the counter is raised.
StalePostIncrement(scr, i) == i # asked[scr] - 1

\* useRequestGuard: a list drops every answer but the last request's.
Stale(scr, i) == i # asked[scr]

\* The mutant of Land: no guard.
LandUnguarded(scr, i) ==
  /\ reply[scr][i].at = "served"
  /\ Answered(scr, i, Request("landed", Blank))
  /\ shown' = [shown EXCEPT ![scr] = reply[scr][i].ans]
  /\ UNCHANGED faults

Land(scr, i) ==
  /\ reply[scr][i].at = "served"
  /\ Answered(scr, i, Request("landed", Blank))
  /\ shown' = IF scr \notin Pickers /\ Stale(scr, i)
              THEN shown ELSE [shown EXCEPT ![scr] = reply[scr][i].ans]
  /\ UNCHANGED faults

-----------------------------------------------------------------------------
(* The gateway: every socket of the replica that serves the request.       *)

Emit(r) == signals' = signals \cup {c \in Clients : socket[c] = r}

\* Each signal is one refetch of the picker.
Refetch(c) == /\ c \in signals
              /\ asked[PickerOf(c)] + 1 < MaxAsks
              /\ signals' = signals \ {c}
              /\ Asking({PickerOf(c)})
              /\ UNCHANGED <<table, change, own, client, socket, faults>>

-----------------------------------------------------------------------------
(* The admin's changes, each started from a row on display.                *)

\* The form above the lists, which checks nothing against them.
NewSlots == {[act |-> "create", slot |-> s, time |-> t] :
               s \in Slots \ created, t \in Times}

\* A row's edit form, and its close or reopen button: on every row, booked or
\* not.
Edits(a) == {[act |-> "edit", slot |-> row.slot, time |-> t] :
               row \in shown[SlotsOf(a)].rows, t \in Times}
Toggles(a) == {[act |-> IF row.closed THEN "reopen" ELSE "close",
                slot |-> row.slot, time |-> "none"] :
                 row \in shown[SlotsOf(a)].rows}

\* An appointment's two buttons, on a row that says booked.
Decisions(a) ==
  {[act |-> act, slot |-> row.slot, time |-> "none"] :
     row \in {r \in shown[ApptsOf(a)].rows : r.status = "booked"},
     act \in {"done", "cancelled"}}

SendChange(a, o) ==
  /\ change[a].pc = "idle"
  /\ \A scr \in {SlotsOf(a), ApptsOf(a)} : asked[scr] < MaxAsks
  /\ change' = [change EXCEPT ![a] = [pc |-> "sent", act |-> o.act,
                                      slot |-> o.slot, time |-> o.time]]
  /\ UNCHANGED <<table, own, client, socket, signals, screens, faults>>

Committed(a, acts) ==
  /\ change[a].pc = "sent" /\ change[a].act \in acts
  /\ tick < MaxCommits
  /\ tick' = tick + 1
  /\ change' = [change EXCEPT ![a].pc = "answer"]
  /\ UNCHANGED <<own, client, socket, signals, screens, faults>>

\* createSlot(): the only one of the three that leaves no audit record.
CreateSlot(a) ==
  /\ Committed(a, {"create"})
  /\ change[a].slot \notin created
  /\ created' = created \cup {change[a].slot}
  /\ time' = [time EXCEPT ![change[a].slot] = change[a].time]
  /\ UNCHANGED <<booked, closed, appts>>

\* updateSlot(): whatever the slot's booking, and never isBooked.
UpdateSlot(a) ==
  LET s == change[a].slot IN
  /\ Committed(a, {"edit", "close", "reopen"})
  /\ time' = IF change[a].act = "edit"
             THEN [time EXCEPT ![s] = change[a].time] ELSE time
  /\ closed' = CASE change[a].act = "close"  -> closed \cup {s}
                 [] change[a].act = "reopen" -> closed \ {s}
                 [] OTHER -> closed
  /\ UNCHANGED <<created, booked, appts>>

\* The mutant of WithStatus: a cancelled booking is deleted.
WithoutCancelled(s, status) ==
  IF status = "cancelled" THEN {a \in appts : a.slot # s}
  ELSE {IF a.slot = s THEN [a EXCEPT !.status = status] ELSE a : a \in appts}

WithStatus(s, status) == {IF a.slot = s THEN [a EXCEPT !.status = status] ELSE a :
                            a \in appts}

\* updateStatus(): from any status, and the slot is left alone.
UpdateStatus(a) ==
  /\ Committed(a, {"done", "cancelled"})
  /\ appts' = WithStatus(change[a].slot, change[a].act)
  /\ UNCHANGED <<created, booked, closed, time>>

\* The audit record (Casework.tla) and slotsChanged(), which a status change
\* leaves out, then the answer: the page reloads the lists the change shows in.
ChangeAnswered(a, r) ==
  /\ change[a].pc = "answer"
  /\ change' = [change EXCEPT ![a] = IdleEditor]
  /\ own' = [own EXCEPT ![a] = tick]
  /\ IF change[a].act \in {"done", "cancelled"}
     THEN Asking({SlotsOf(a), ApptsOf(a)}) /\ signals' = signals
     ELSE Asking({SlotsOf(a)}) /\ Emit(r)
  /\ UNCHANGED <<table, client, socket, faults>>

\* The audit insert fails, the replica goes down or the answer is lost: a
\* banner, no reload, and no slots:changed.
ChangeFails(a) ==
  /\ change[a].pc # "idle"
  /\ faults < MaxFaults
  /\ faults' = faults + 1
  /\ change' = [change EXCEPT ![a] = IdleEditor]
  /\ UNCHANGED <<table, own, client, socket, signals, screens>>

-----------------------------------------------------------------------------
(* The client's booking.                                                   *)

\* The picker: the slot chosen stays chosen when the list changes under it.
Choose(c, row) ==
  /\ client[c].pc = "idle" /\ client[c].told # "booked"
  /\ row \in shown[PickerOf(c)].rows
  /\ client' = [client EXCEPT ![c].slot = row.slot, ![c].seen = row.time]
  /\ UNCHANGED <<table, change, own, socket, signals, screens, faults>>

\* bookAppointment(); a booking that went through takes the form's place.
Submit(c) ==
  /\ client[c].pc = "idle" /\ client[c].told # "booked"
  /\ client[c].slot # "none"
  /\ asked[PickerOf(c)] < MaxAsks
  /\ client' = [client EXCEPT ![c].pc = "sent", ![c].told = "none"]
  /\ UNCHANGED <<table, change, own, socket, signals, screens, faults>>

\* The mutant of Book: an update whose where holds the id alone.
BookUnguarded(c) ==
  LET s == client[c].slot IN
  /\ client[c].pc = "sent"
  /\ tick < MaxCommits
  /\ booked' = booked \cup {s}
  /\ appts' = appts \cup {[slot |-> s, client |-> c, status |-> "booked"]}
  /\ tick' = tick + 1
  /\ client' = [client EXCEPT ![c].pc = "won"]
  /\ UNCHANGED <<created, closed, time, change, own, socket, signals, screens,
                 faults>>

\* book(): the conditional update, and the row, in one transaction.
Book(c) ==
  LET s == client[c].slot IN
  /\ client[c].pc = "sent"
  /\ s \notin booked /\ s \notin closed
  /\ tick < MaxCommits
  /\ booked' = booked \cup {s}
  /\ appts' = appts \cup {[slot |-> s, client |-> c, status |-> "booked"]}
  /\ tick' = tick + 1
  /\ client' = [client EXCEPT ![c].pc = "won"]
  /\ UNCHANGED <<created, closed, time, change, own, socket, signals, screens,
                 faults>>

BookConflict(c) ==
  /\ client[c].pc = "sent"
  /\ client[c].slot \in booked \cup closed
  /\ client' = [client EXCEPT ![c].pc = "lost"]
  /\ UNCHANGED <<table, change, own, socket, signals, screens, faults>>

Told(c, what) == [client EXCEPT ![c].pc = "idle", ![c].told = what]

BookAnswer(c, r) ==
  /\ client[c].pc = "won"
  /\ client' = Told(c, "booked")
  /\ Emit(r)
  /\ UNCHANGED <<table, change, own, socket, screens, faults>>

\* The catch block: the picker is fetched again.
BookRefused(c) ==
  /\ client[c].pc = "lost"
  /\ client' = Told(c, "taken")
  /\ Asking({PickerOf(c)})
  /\ UNCHANGED <<table, change, own, socket, signals, faults>>

\* A request or an answer is lost: the page says the slot was taken.
BookFails(c) ==
  /\ client[c].pc # "idle"
  /\ faults < MaxFaults
  /\ faults' = faults + 1
  /\ client' = Told(c, "taken")
  /\ Asking({PickerOf(c)})
  /\ UNCHANGED <<table, change, own, socket, signals>>

-----------------------------------------------------------------------------
BookingsNext ==
  \/ \E scr \in Screens : Ask(scr)
  \/ \E scr \in Screens, i \in 1 .. MaxAsks :
       Serve(scr, i) \/ AskFails(scr, i) \/ Land(scr, i)
  \/ \E a \in Editors :
       \/ \E o \in NewSlots \cup Edits(a) \cup Toggles(a) \cup Decisions(a) : SendChange(a, o)
       \/ CreateSlot(a) \/ UpdateSlot(a) \/ UpdateStatus(a)
       \/ ChangeFails(a)
       \/ \E r \in Replicas : ChangeAnswered(a, r)
  \/ \E c \in Clients :
       \/ Refetch(c)
       \/ \E row \in Rows : Choose(c, row)
       \/ Submit(c)
       \/ Book(c) \/ BookConflict(c) \/ BookRefused(c) \/ BookFails(c)
       \/ \E r \in Replicas : BookAnswer(c, r)

BookingsSpec == BookingsInit /\ [][BookingsNext]_bookingsVars

-----------------------------------------------------------------------------
(* Properties.                                                             *)

\* A booked slot has one appointment and a free one has none, whoever books,
\* edits, closes or cancels at the same time (AppointmentsController.book and
\* updateStatus).
TakenSlotHasItsBooking ==
  \A s \in Slots : IF s \in booked THEN Cardinality(ApptOf(s)) = 1
                   ELSE ApptOf(s) = {}

\* Rule 4: whoever booked a slot has it alone for as long as the booking is not
\* cancelled, whatever two clients and the admins do at once, on lists however
\* old (AppointmentsController.book, updateSlot and updateStatus).
HeldUntilCancelled ==
  [][\A a \in appts : a.status # "cancelled" =>
       /\ ApptOf(a.slot)' # {}
       /\ \A b \in ApptOf(a.slot)' : b.client = a.client]_appts

\* Rule 15: a late answer never takes an admin's list back to an older state
\* (useRequestGuard in AdminBookingsSection and usePaginatedList.reload).
AdminListsNeverGoBack ==
  [][\A scr \in Screens \ Pickers : shown'[scr].tick >= shown[scr].tick]_shown

\* Once no request of an admin's slot list is under way, it shows the admin's
\* own last change, or the page shows the error of the request that would have
\* (the reload after each change, through the guard).
SettledListShowsOwnChange ==
  \A a \in Editors :
    LET of == reply[SlotsOf(a)] IN
    (\A i \in 1 .. MaxAsks : of[i].at \notin {"waiting", "served"}) =>
      \/ shown[SlotsOf(a)].tick >= own[a]
      \/ \E i \in 1 .. MaxAsks : i = asked[SlotsOf(a)] /\ of[i].at = "failed"

\* AppointmentsGateway: a client's picker drops what others booked.
PickersNeverGoBack ==
  [][\A c \in Clients :
       shown'[PickerOf(c)].tick >= shown[PickerOf(c)].tick]_shown

\* ClientDashboard: a client told that the slot was taken does not hold it.
ToldTakenIsTaken ==
  \A c \in Clients : client[c].told = "taken" =>
    ~ \E a \in appts : a.slot = client[c].slot /\ a.client = c

\* "an admin who wants that time slot offered again closes/edits it": a slot of
\* a cancelled booking that an admin edits or reopens is back in GET slots.
ReopenedIsOffered ==
  [][\A a \in Editors :
       LET s == change[a].slot IN
       UpdateSlot(a) /\ change[a].act \in {"edit", "reopen"}
         /\ StatusOf(s) = "cancelled" /\ s \notin closed'
       => s \in {row.slot : row \in OpenSlots'}]_bookingsVars

\* updateSlot: a client is booked at the time the picker showed.
BookedAtSeenTime ==
  \A c \in Clients : client[c].pc = "won" => time[client[c].slot] = client[c].seen
=============================================================================
