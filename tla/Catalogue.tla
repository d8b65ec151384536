----------------------------- MODULE Catalogue -----------------------------
(***************************************************************************)
(* One service of the public catalogue: its row, its hero image and spec    *)
(* files in S3, the list cached in Redis, and the admin's own copy of the   *)
(* list (services.controller.ts, s3.service.ts, AdminSpecsSection.tsx,      *)
(* specsPrefetch.ts).                                                      *)
(*                                                                         *)
(* Every click of an admin is an operation, numbered from 1; an upload o    *)
(* gets the key o, which is pending/... until it is promoted.  Its presigned *)
(* URL can be used again, and its confirm sent again: that is an operation  *)
(* of its own with the same key.  An operation is several calls to S3,      *)
(* Postgres and Redis, so operations interleave, and any of them can stop   *)
(* half way: a call that throws, a lost answer and a restart all look like  *)
(* GiveUp.                                                                 *)
(***************************************************************************)
EXTENDS Naturals, FiniteSets

CONSTANTS
  MaxOps,    \* how many operations admins start (a bound)
  Visitors   \* GET /services requests of the public that are served at once
ASSUME MaxOpsAssumption == MaxOps \in Nat

Ops == 1..MaxOps
Seed == 0            \* the key of the image the service was seeded with
Keys == {Seed} \cup Ops
NoKey == MaxOps + 1
Uploads == {"image", "file"}
Kinds == Uploads \cup {"edit", "create", "remove"}

Tabs == {"tab", "other"}   \* the tab that is looked at, and another admin's
Readers == Visitors \cup {"tab"}   \* the tab has one prefetch in flight

VARIABLES
  service,  \* the row: [status, image, text]; text names the last edit
  files,    \* the ServiceFile rows: records [id, key, version]
  wanted,   \* "yes" once an RFQ or a file access request refers to it
  pending,  \* keys that hold an object under pending/
  stored,   \* keys that hold an object under their permanent name
  op,       \* the operations, Ops -> [kind, by, key, pc, old, count]
  list,     \* services:list in Redis: {} or the one cached row
  reader,   \* the GET /services under way, Readers -> [pc, got]
  specs     \* specsPrefetch's module-level cache in the admin's tab
vars == <<service, files, wanted, pending, stored, op, list, reader, specs>>

Rows == [status : {"none", "live", "gone"}, image : Keys \cup {NoKey}, text : Keys]
FileRows == [id : Ops, key : Ops, version : 1..(MaxOps + 1)]
Idle == [kind |-> "none", by |-> "tab", key |-> NoKey, pc |-> "idle",
         old |-> {}, count |-> 0]
Quiet == [pc |-> "idle", got |-> {}]

TypeOK ==
  /\ service \in Rows
  /\ files \subseteq FileRows
  /\ wanted \in {"no", "yes"}
  /\ pending \subseteq Ops
  /\ stored \subseteq Keys
  /\ op \in [Ops -> [kind : Kinds \cup {"none"}, by : Tabs \cup {"api"},
                     key : Ops \cup {NoKey},
                     pc : {"idle", "put", "read", "copied", "promoted", "counted",
                           "saved", "swept", "answered", "done", "failed"},
                     old : SUBSET Keys, count : 0..MaxOps]]
  /\ list \subseteq Rows /\ specs \subseteq Rows
  /\ reader \in [Readers -> [pc : {"idle", "fetched", "answered"}, got : SUBSET Rows]]

Init ==
  /\ service \in {[status |-> "none", image |-> NoKey, text |-> Seed],
                  [status |-> "live", image |-> Seed, text |-> Seed]}
  /\ stored = IF service.status = "live" THEN {Seed} ELSE {}
  /\ files = {} /\ wanted = "no" /\ pending = {}
  /\ op = [o \in Ops |-> Idle]
  /\ list = {} /\ reader = [r \in Readers |-> Quiet] /\ specs = {}

Live == service.status = "live"
FileKeys == {f.key : f \in files}
Imaged == {service.image} \ {NoKey}

\* Operations are started in the order of their numbers.
Fresh(o) == op[o].pc = "idle" /\ \A p \in Ops : p < o => op[p].pc # "idle"
At(o, kinds, pc) == op[o].kind \in kinds /\ op[o].pc = pc
Goes(o, pc) == op' = [op EXCEPT ![o].pc = pc]
\* It goes on, and what it has read is of no more use.
Forgets(o, pc) == op' = [op EXCEPT ![o].pc = pc, ![o].old = {}, ![o].count = 0]
Over == {"idle", "done", "failed"}

\* A tab disables the button of what it is doing until it has its answer.
Busy(kind, by) ==
  \E p \in Ops : op[p].kind = kind /\ op[p].by = by /\ op[p].pc \notin Over

\* The service has a card, which a tab goes on showing after a removal.
Card == service.status # "none"
ImageButton(by) == Card /\ ~Busy("image", by)
FileButton(by) == Card /\ ~Busy("file", by)
EditForm(by) == Card /\ ~Busy("edit", by)
DeleteButton(by) == Card /\ ~Busy("remove", by)
CreateForm(by) == ~Busy("create", by)

Starts(o, kind, by, key, pc, old) ==
  op' = [op EXCEPT ![o] = [kind |-> kind, by |-> by, key |-> key, pc |-> pc,
                           old |-> old, count |-> 0]]

\* The parts of the state an operation step may leave alone.
Elsewhere == UNCHANGED <<wanted, list, reader, specs>>
Bucket == <<pending, stored>>
Tables == <<service, files>>

-----------------------------------------------------------------------------
(* Uploads: presign, PUT by the browser, confirm. *)

\* The browser PUTs to the presigned URL; no presign route looks at the row.
Put(o, kind, by) ==
  /\ Fresh(o)
  /\ pending' = pending \cup {o}
  /\ Starts(o, kind, by, o, "put", {})
  /\ UNCHANGED <<Tables, stored>> /\ Elsewhere

PutImage(o, by) == ImageButton(by) /\ Put(o, "image", by)
PutFile(o, by) == FileButton(by) /\ Put(o, "file", by)

\* The URL is used again while it is valid, whatever became of the object (a
\* bound: no longer once no operation will read what is put there).
PutAgain(o) ==
  /\ op[o].kind \in Uploads
  /\ \E p \in Ops : \/ op[p].pc = "idle"
                    \/ op[p].key = op[o].key /\ op[p].pc \in {"put", "read"}
  /\ pending' = pending \cup {op[o].key}
  /\ UNCHANGED <<Tables, stored, op>> /\ Elsewhere

\* A confirm is sent again; no route remembers the keys it has confirmed.
ConfirmAgain(o) ==
  /\ Fresh(o)
  /\ \E p \in Ops : /\ op[p].kind \in Uploads
                   /\ Starts(o, op[p].kind, "api", op[p].key, "put", {})
  /\ UNCHANGED <<Tables, Bucket>> /\ Elsewhere

\* confirmImage reads the key it will replace; 404 without the row.
ReadImage(o) ==
  /\ At(o, {"image"}, "put")
  /\ op' = IF Live THEN [op EXCEPT ![o].pc = "read", ![o].old = Imaged]
                   ELSE [op EXCEPT ![o].pc = "failed"]
  /\ UNCHANGED <<Tables, Bucket>> /\ Elsewhere

\* The leading bytes can be read: the object is there.
MayCheck(o) ==
  /\ At(o, {"image"}, "read") \/ At(o, {"file"}, "put")
  /\ op[o].key \in pending

\* The leading bytes are of another type: the object is removed, unless
\* that call fails too.
Reject(o) ==
  /\ MayCheck(o)
  /\ pending' \in {pending, pending \ {op[o].key}}
  /\ Forgets(o, "failed")
  /\ UNCHANGED <<Tables, stored>> /\ Elsewhere

\* promoteUpload is a copy and then a delete.
Copy(o) ==
  /\ MayCheck(o)
  /\ stored' = stored \cup {op[o].key} /\ Goes(o, "copied")
  /\ UNCHANGED <<Tables, pending>> /\ Elsewhere

\* A bug the checks catch: the old object goes before the row lets go of it.
DropPendingAndOld(o) ==
  /\ At(o, Uploads, "copied")
  /\ pending' = pending \ {op[o].key} /\ stored' = stored \ op[o].old
  /\ Goes(o, "promoted")
  /\ UNCHANGED Tables /\ Elsewhere

DropPending(o) ==
  /\ At(o, Uploads, "copied")
  /\ pending' = pending \ {op[o].key} /\ Goes(o, "promoted")
  /\ UNCHANGED <<Tables, stored>> /\ Elsewhere

SaveImage(o) ==
  /\ At(o, {"image"}, "promoted") /\ Live
  /\ service' = [service EXCEPT !.image = op[o].key] /\ Goes(o, "saved")
  /\ UNCHANGED <<files, Bucket>> /\ Elsewhere

\* The version is a count read before the insert.
CountFiles(o) ==
  /\ At(o, {"file"}, "promoted")
  /\ op' = [op EXCEPT ![o].pc = "counted", ![o].count = Cardinality(files)]
  /\ UNCHANGED <<Tables, Bucket>> /\ Elsewhere

SaveFile(o) ==
  /\ At(o, {"file"}, "counted") /\ Live
  /\ files' = files \cup {[id |-> o, key |-> op[o].key, version |-> op[o].count + 1]}
  /\ Forgets(o, "answered")
  /\ UNCHANGED <<service, Bucket>> /\ Elsewhere

-----------------------------------------------------------------------------
(* The other operations on the row. *)

Create(o, by) ==
  /\ Fresh(o) /\ CreateForm(by) /\ service.status = "none"
  /\ service' = [service EXCEPT !.status = "live", !.text = o]
  /\ Starts(o, "create", by, NoKey, "swept", {})
  /\ UNCHANGED <<files, Bucket>> /\ Elsewhere

Edit(o, by) ==
  /\ Fresh(o) /\ EditForm(by) /\ Live
  /\ service' = [service EXCEPT !.text = o]
  /\ Starts(o, "edit", by, NoKey, "swept", {})
  /\ UNCHANGED <<files, Bucket>> /\ Elsewhere

\* remove() reads the row and the files, and counts what refers to them.
ReadAll(o, by) ==
  /\ Fresh(o) /\ DeleteButton(by) /\ Live /\ wanted = "no"
  /\ Starts(o, "remove", by, NoKey, "read", FileKeys \cup Imaged)
  /\ UNCHANGED <<Tables, Bucket>> /\ Elsewhere

\* The delete cascades to the files; a reference made since then refuses it.
DeleteRow(o) ==
  /\ At(o, {"remove"}, "read") /\ Live /\ wanted = "no"
  /\ service' = [service EXCEPT !.status = "gone", !.image = NoKey]
  /\ files' = {}
  /\ Goes(o, "saved")
  /\ UNCHANGED Bucket /\ Elsewhere

\* Each object is deleted on its own, and each failure is swallowed.
Sweep(o, kind) ==
  /\ At(o, {kind}, "saved")
  /\ \E kept \in SUBSET op[o].old : stored' = stored \ (op[o].old \ kept)
  /\ Forgets(o, "swept")
  /\ UNCHANGED <<Tables, pending>> /\ Elsewhere

SweepImage(o) == Sweep(o, "image")
SweepRemoved(o) == Sweep(o, "remove")

\* safeCacheDel, which swallows a Redis error.
DropList(o) ==
  /\ At(o, {"image", "edit", "create", "remove"}, "swept")
  /\ list' \in {list, {}}
  /\ Forgets(o, "answered")
  /\ UNCHANGED <<Tables, wanted, Bucket, reader, specs>>

\* A tab has its answer and forgets its own copy of the list.
Answer(o) ==
  /\ op[o].pc = "answered"
  /\ Goes(o, "done")
  /\ specs' = IF op[o].by = "tab" THEN {} ELSE specs
  /\ UNCHANGED <<Tables, wanted, Bucket, list, reader>>

GiveUp(o) ==
  /\ op[o].pc \notin Over
  /\ Forgets(o, "failed")
  /\ UNCHANGED <<Tables, Bucket>> /\ Elsewhere

\* A client sends an RFQ, or asks for one of its files.
Refer ==
  /\ Live /\ wanted = "no" /\ wanted' = "yes"
  /\ UNCHANGED <<Tables, Bucket, op, list, reader, specs>>

-----------------------------------------------------------------------------
(* GET /services, for visitors and for the tab's prefetchSpecs. *)

Asks(r) ==
  /\ reader[r].pc = "idle"
  /\ r = "tab" => specs = {}

\* What a visitor is answered goes nowhere; the tab keeps it.
Told(r, got) ==
  reader' = [reader EXCEPT ![r] =
              IF r = "tab" THEN [pc |-> "answered", got |-> got] ELSE Quiet]

\* A bug the checks catch: a hit renews the entry, as a sliding TTL would.
HitRenews(r) ==
  /\ Asks(r) /\ list # {}
  /\ reader' = [reader EXCEPT ![r] = [pc |-> "fetched", got |-> list]]
  /\ UNCHANGED <<Tables, wanted, Bucket, op, list, specs>>

\* list() answers from the cache.
Hit(r) ==
  /\ Asks(r) /\ list # {}
  /\ Told(r, list)
  /\ UNCHANGED <<Tables, wanted, Bucket, op, list, specs>>

\* It reads the rows: there is no entry, or safeCacheGet failed and said so.
Miss(r) ==
  /\ Asks(r)
  /\ reader' = [reader EXCEPT ![r] = [pc |-> "fetched", got |-> {service}]]
  /\ UNCHANGED <<Tables, wanted, Bucket, op, list, specs>>

\* The entry is written whatever has happened since the rows were read.
CacheList(r) ==
  /\ reader[r].pc = "fetched"
  /\ list' \in {list, reader[r].got}
  /\ Told(r, reader[r].got)
  /\ UNCHANGED <<Tables, wanted, Bucket, op, specs>>

\* The tab has its list, or the answer is lost.
Land ==
  /\ reader["tab"].pc = "answered"
  /\ reader' = [reader EXCEPT !["tab"] = Quiet]
  /\ specs' \in {specs, reader["tab"].got}
  /\ UNCHANGED <<Tables, wanted, Bucket, op, list>>

Expire ==
  /\ list # {} /\ list' = {}
  /\ UNCHANGED <<Tables, wanted, Bucket, op, reader, specs>>

-----------------------------------------------------------------------------
Upload(o) ==
  \/ ReadImage(o) \/ Reject(o) \/ Copy(o) \/ DropPending(o)
  \/ SaveImage(o) \/ CountFiles(o) \/ SaveFile(o) \/ PutAgain(o) \/ ConfirmAgain(o)
Click(o, by) ==
  \/ PutImage(o, by) \/ PutFile(o, by)
  \/ Create(o, by) \/ Edit(o, by) \/ ReadAll(o, by)
Finish(o) ==
  DeleteRow(o) \/ SweepImage(o) \/ SweepRemoved(o) \/ DropList(o)
  \/ Answer(o) \/ GiveUp(o)
Ask == \E r \in Readers : Hit(r) \/ Miss(r) \/ CacheList(r)
Next ==
  \/ \E o \in Ops : Upload(o) \/ Finish(o) \/ \E by \in Tabs : Click(o, by)
  \/ Refer \/ Ask \/ Land \/ Expire

Spec == Init /\ [][Next]_vars

\* Redis expires what it holds; nothing obliges a request to go on.
FairSpec == Spec /\ WF_vars(Expire)

-----------------------------------------------------------------------------
\* The keys that two operations upload or confirm.
Repeated ==
  {k \in Ops : \E o, p \in Ops : /\ o # p /\ {op[o].kind, op[p].kind} \subseteq Uploads
                                /\ op[o].key = k /\ op[p].key = k}

(* A key that was confirmed once and that a live row serves holds an object  *)
(* under its permanent name: the image is swapped, the service removed,      *)
(* uploads are put again and abandoned at any step without the row pointing  *)
(* at nothing (confirmImage, confirmFile, remove).                          *)
ServedIsPromoted == (Imaged \cup FileKeys) \ Repeated \subseteq stored

(* The list the public sees catches up: however reads and invalidations     *)
(* overlap and whichever GET, SET or DEL of the cache fails, once the        *)
(* admins are finished the cached entry ends up as the row or not there      *)
(* (the TTL of list()).                                                      *)
ListCatchesUp == <>[](list \subseteq {service})

-----------------------------------------------------------------------------
(* What the sources say and the code does not do (see the README).          *)

\* confirmImage: the old object goes only after the new key is committed, so
\* no failure leaves the service with no image at all.  A confirm that is sent
\* again reads its own key as the old one, and deletes it.
ServedStays == Imaged \cup FileKeys \subseteq stored

\* Spec files of one service have different versions (confirmFile counts).
VersionsDiffer ==
  \A f, g \in files : f.version = g.version => f = g

\* specsPrefetch.ts: after a mutation the next visit does not get stale
\* data.  The rows the tab has differ from the table only while an
\* operation is unanswered.
NextVisitIsFresh ==
  (\A o \in Ops : op[o].pc \in {"idle", "done"}) => specs \subseteq {service}

\* s3.service.ts: an object that is not referenced does not linger.
NothingLingers ==
  (\A o \in Ops : op[o].pc \in {"idle", "done"})
    => stored \subseteq Imaged \cup FileKeys
=============================================================================
