-------------------------- MODULE ObjectStoreProofs --------------------------
(***************************************************************************)
(* What the two components that keep objects in S3 prove: Catalogue and     *)
(* CandidateUploads.                                                       *)
(*                                                                         *)
(* Catalogue: a key that was confirmed once and that a service serves holds *)
(* a promoted object, for any number of operations that interleave and stop *)
(* anywhere, and whatever is put again.  The argument is about what an      *)
(* operation remembers: the keys it means to delete were read from the row, *)
(* so the operation that brought such a key there is past its own save, and *)
(* no other saves it; a key leaves the row for good.  A key is therefore    *)
(* never deleted while an operation can still save it, nor while a row      *)
(* holds it.                                                               *)
(*                                                                         *)
(* CandidateUploads: an assembled object is the parts of one file, for any  *)
(* number of attempts, parts and requests.  Whatever calls or keeps an      *)
(* upload has the file the upload began with, so no part of another file    *)
(* reaches it; and an attempt passes a part once, so it is reported at most *)
(* once by each attempt.                                                   *)
(***************************************************************************)
EXTENDS Catalogue, CandidateUploads, FiniteSetTheorems, TLAPS

(* The catalogue.                                                            *)

\* Past its save: it will write no row any more.
Through == {"saved", "swept", "answered", "done", "failed"}

OpStates == [kind : Kinds \cup {"none"}, by : Tabs \cup {"api"}, key : Ops \cup {NoKey},
             pc : {"idle", "put", "read", "copied", "promoted", "counted"} \cup Through,
             old : SUBSET Keys, count : Nat]

\* The row, the files, the bucket and the operations.
RowsOK == /\ service \in [status : {"none", "live", "gone"}, image : Keys \cup {NoKey},
                          text : Keys]
          /\ files \subseteq [id : Ops, key : Ops, version : Nat] /\ IsFiniteSet(files)
          /\ pending \subseteq Ops /\ stored \subseteq Keys
          /\ op \in [Ops -> OpStates]

\* The keys that at most one operation confirms.
Once == Ops \ Repeated

\* An upload has a key, which is the number of an upload of the same kind that
\* has it too: the one the key was presigned for.
Owned == /\ \A o \in Ops : op[o].pc = "idle" => op[o].kind = "none"
         /\ \A o \in Ops : op[o].kind \in Uploads =>
              /\ op[o].key \in Ops
              /\ op[op[o].key].kind = op[o].kind /\ op[op[o].key].key = op[o].key

\* A key is served, and is going to be deleted, only when its own operation,
\* which is of its kind, is through.
ImageThrough == service.image \in Once => /\ op[service.image].kind = "image"
                                          /\ op[service.image].pc \in Through
FilesThrough == /\ \A k \in FileKeys \cap Once :
                     op[k].kind = "file" /\ op[k].pc \in Through
                /\ \A f \in files : op[f.id].pc \in Through
OldThrough == \A o \in Ops : \A k \in op[o].old \cap Once : op[k].pc \in Through
OldImages == \A o \in Ops : op[o].kind = "image"
               => \A k \in op[o].old \cap Once : op[k].kind = "image"

\* What an operation is about to save is stored.
Prepared == \A o \in Ops :
  op[o].kind \in Uploads /\ op[o].key \in Once
    /\ op[o].pc \in {"copied", "promoted", "counted"} => op[o].key \in stored

\* What it is about to delete is not served.
SweepsUnserved == \A o \in Ops : op[o].pc = "saved" =>
  /\ op[o].kind = "image" => service.image \notin op[o].old \ Repeated
  /\ op[o].kind # "image" => service.status = "gone"

GoneIsEmpty == service.status = "gone" => service.image = NoKey /\ files = {}

CatalogueInv == /\ RowsOK /\ Owned /\ ImageThrough /\ FilesThrough /\ OldThrough
                /\ OldImages /\ Prepared /\ SweepsUnserved /\ GoneIsEmpty
                /\ ServedIsPromoted
-----------------------------------------------------------------------------
LEMMA KeyFacts == /\ Ops \subseteq Keys /\ NoKey \notin Keys /\ Seed \in Keys
                  /\ Seed \notin Ops /\ Keys = {Seed} \cup Ops
  BY MaxOpsAssumption DEF Ops, Keys, NoKey, Seed

LEMMA ServedThrough ==
  ASSUME CatalogueInv, NEW k \in Once, k \in Imaged \cup FileKeys
  PROVE  op[k].pc \in Through
  BY DEF CatalogueInv, ImageThrough, FilesThrough, Imaged

\* A key that one operation confirms is that operation's own.
LEMMA OnceIsOwn ==
  ASSUME CatalogueInv, NEW o \in Ops, op[o].kind \in Uploads, op[o].key \in Once
  PROVE  op[o].key = o
  <1> SUFFICES ASSUME op[o].key # o PROVE FALSE
    OBVIOUS
  <1> DEFINE k == op[o].key
  <1>1. k \in Ops /\ op[k].kind \in Uploads /\ op[k].key = k
    BY DEF CatalogueInv, Owned
  <1>2. k \in Repeated
    BY <1>1 DEF Repeated
  <1> QED
    BY <1>2 DEF Once

LEMMA CatalogueInit == Init => CatalogueInv
  <1> SUFFICES ASSUME Init PROVE CatalogueInv
    OBVIOUS
  <1> USE KeyFacts
  <1>1. Idle \in OpStates /\ Idle.pc = "idle" /\ Idle.old = {} /\ Idle.kind = "none"
    BY DEF Idle, OpStates, Tabs
  <1>2. /\ service \in [status : {"none", "live", "gone"}, image : Keys \cup {NoKey},
                        text : Keys]
        /\ service.image \notin Ops /\ service.status # "gone"
    BY DEF Init
  <1>3. files = {} /\ pending = {} /\ stored \subseteq Keys
    BY DEF Init
  <1>4. \A o \in Ops : op[o] = Idle
    BY DEF Init
  <1>5. op \in [Ops -> OpStates]
    BY <1>1 DEF Init
  <1>6. IsFiniteSet(files)
    BY <1>3, FS_EmptySet
  <1>7. RowsOK
    BY <1>2, <1>3, <1>5, <1>6 DEF RowsOK
  <1>8. ImageThrough /\ FilesThrough /\ GoneIsEmpty
    BY <1>2, <1>3 DEF ImageThrough, FilesThrough, FileKeys, GoneIsEmpty, Once
  <1>9. Owned /\ OldThrough /\ OldImages /\ Prepared /\ SweepsUnserved
    BY <1>1, <1>4
    DEF Owned, OldThrough, OldImages, Prepared, SweepsUnserved, Uploads
  <1>10. ServedIsPromoted
    BY <1>3 DEF Init, ServedIsPromoted, FileKeys, Imaged
  <1> QED
    BY <1>7, <1>8, <1>9, <1>10 DEF CatalogueInv

\* Steps that touch neither the operations, nor the rows, nor what is stored.
LEMMA CatalogueQuiet ==
  ASSUME CatalogueInv, UNCHANGED <<service, files, stored, op>>, pending' \subseteq Ops
  PROVE  CatalogueInv'
  <1>1. Repeated' = Repeated /\ Once' = Once
    BY DEF Repeated, Once
  <1>2. Imaged' = Imaged /\ FileKeys' = FileKeys
    BY DEF Imaged, FileKeys
  <1>3. RowsOK' /\ Owned' /\ GoneIsEmpty'
    BY DEF CatalogueInv, RowsOK, Owned, GoneIsEmpty
  <1>4. ImageThrough' /\ FilesThrough' /\ OldThrough' /\ OldImages'
    BY <1>1, <1>2 DEF CatalogueInv, ImageThrough, FilesThrough, OldThrough, OldImages
  <1>5. Prepared' /\ SweepsUnserved' /\ ServedIsPromoted'
    BY <1>1, <1>2 DEF CatalogueInv, Prepared, SweepsUnserved, ServedIsPromoted
  <1> QED
    BY <1>3, <1>4, <1>5 DEF CatalogueInv

\* The operation o takes on the state s: it stays through once it is, keeps its kind
\* and its key, or begins with one that is its own or an earlier upload's, and
\* remembers keys that are through.
Succeeds(o, s) ==
  /\ s \in OpStates /\ op' = [op EXCEPT ![o] = s] /\ s.pc # "idle"
  /\ op[o].pc \in Through => s.pc \in Through
  /\ \/ s.kind = op[o].kind /\ s.key = op[o].key
     \/ /\ op[o].pc = "idle"
        /\ s.kind \in Uploads =>
             \/ s.key = o
             \/ s.key \in Ops /\ op[s.key].kind = s.kind /\ op[s.key].key = s.key
  /\ \A k \in s.old \cap Once :
       op[k].pc \in Through /\ (s.kind = "image" => op[k].kind = "image")

LEMMA KindsKept ==
  ASSUME CatalogueInv, NEW o \in Ops, NEW s, Succeeds(o, s)
  PROVE  /\ op' \in [Ops -> OpStates] /\ op'[o] = s
         /\ \A p \in Ops \ {o} : op'[p] = op[p]
         /\ \A k \in Ops : op[k].kind \in Uploads
                            => op'[k].kind = op[k].kind /\ op'[k].key = op[k].key
         /\ \A k \in Ops : op[k].pc \in Through
                            => op'[k].pc \in Through /\ op'[k].kind = op[k].kind
  <1>1. op' \in [Ops -> OpStates] /\ op'[o] = s /\ \A p \in Ops \ {o} : op'[p] = op[p]
    BY DEF CatalogueInv, RowsOK, Succeeds
  <1>2. op[o].kind \in Uploads \/ op[o].pc \in Through
          => s.kind = op[o].kind /\ s.key = op[o].key
    <2>1. op[o].pc = "idle" => op[o].kind \notin Uploads
      BY DEF CatalogueInv, Owned, Uploads
    <2> QED
      BY <2>1 DEF Succeeds, Through
  <1>3. ASSUME NEW k \in Ops, op[k].kind \in Uploads
        PROVE  op'[k].kind = op[k].kind /\ op'[k].key = op[k].key
    BY <1>1, <1>2, <1>3
  <1>4. ASSUME NEW k \in Ops, op[k].pc \in Through
        PROVE  op'[k].pc \in Through /\ op'[k].kind = op[k].kind
    BY <1>1, <1>2, <1>4 DEF Succeeds
  <1> QED
    BY <1>1, <1>3, <1>4

\* An operation that moves on keeps what all of them remember.
LEMMA MemoryKept ==
  ASSUME CatalogueInv, NEW o \in Ops, NEW s, Succeeds(o, s)
  PROVE  /\ op' \in [Ops -> OpStates] /\ op'[o] = s
         /\ \A p \in Ops \ {o} : op'[p] = op[p]
         /\ \A k \in Ops : op[k].pc \in Through
                            => op'[k].pc \in Through /\ op'[k].kind = op[k].kind
         /\ Repeated \subseteq Repeated' /\ Once' \subseteq Once
         /\ Owned' /\ OldThrough' /\ OldImages'
  <1>1. /\ op' \in [Ops -> OpStates] /\ op'[o] = s
        /\ \A p \in Ops \ {o} : op'[p] = op[p]
        /\ \A k \in Ops : op[k].kind \in Uploads
                           => op'[k].kind = op[k].kind /\ op'[k].key = op[k].key
        /\ \A k \in Ops : op[k].pc \in Through
                           => op'[k].pc \in Through /\ op'[k].kind = op[k].kind
    BY KindsKept
  <1>2. Repeated \subseteq Repeated' /\ Once' \subseteq Once
    <2>1. ASSUME NEW k \in Repeated PROVE k \in Repeated'
      <3>1. PICK p \in Ops, q \in Ops : /\ p # q /\ {op[p].kind, op[q].kind} \subseteq Uploads
                                        /\ op[p].key = k /\ op[q].key = k
        BY <2>1 DEF Repeated
      <3>2. {op'[p].kind, op'[q].kind} \subseteq Uploads /\ op'[p].key = k /\ op'[q].key = k
        BY <1>1, <3>1
      <3> QED
        BY <2>1, <3>1, <3>2 DEF Repeated
    <2> QED
      BY <2>1 DEF Once
  <1>3. Owned'
    <2>1. ASSUME NEW p \in Ops, op'[p].pc = "idle" PROVE op'[p].kind = "none"
      BY <1>1, <2>1 DEF Succeeds, CatalogueInv, Owned
    <2>2. ASSUME NEW p \in Ops, op'[p].kind \in Uploads
          PROVE  /\ op'[p].key \in Ops
                 /\ op'[op'[p].key].kind = op'[p].kind /\ op'[op'[p].key].key = op'[p].key
      <3>1. CASE op[p].kind \in Uploads
        <4>1. /\ op[p].key \in Ops
              /\ op[op[p].key].kind = op[p].kind /\ op[op[p].key].key = op[p].key
          BY <3>1 DEF CatalogueInv, Owned
        <4>2. op'[p].kind = op[p].kind /\ op'[p].key = op[p].key
          BY <1>1, <3>1
        <4>3. /\ op'[op[p].key].kind = op[op[p].key].kind
              /\ op'[op[p].key].key = op[op[p].key].key
          BY <1>1, <3>1, <4>1
        <4> QED
          BY <4>1, <4>2, <4>3
      <3>2. CASE op[p].kind \notin Uploads
        <4>1. p = o /\ s.kind \in Uploads
          BY <1>1, <2>2, <3>2
        <4>2. \/ s.key = o
              \/ s.key \in Ops /\ op[s.key].kind = s.kind /\ op[s.key].key = s.key
          BY <3>2, <4>1 DEF Succeeds
        <4> QED
          BY <1>1, <4>1, <4>2
      <3> QED
        BY <3>1, <3>2
    <2> QED
      BY <2>1, <2>2 DEF Owned
  <1>4. OldThrough'
    <2> SUFFICES ASSUME NEW p \in Ops, NEW k \in op'[p].old \cap Once'
                 PROVE  op'[k].pc \in Through
      BY DEF OldThrough
    <2>1. k \in Once /\ k \in Ops
      BY <1>2 DEF Once
    <2>2. op[k].pc \in Through
      <3>1. CASE p = o
        BY <1>1, <2>1, <3>1 DEF Succeeds
      <3>2. CASE p # o
        BY <1>1, <2>1, <3>2 DEF CatalogueInv, OldThrough
      <3> QED
        BY <3>1, <3>2
    <2> QED
      BY <1>1, <2>1, <2>2
  <1>5. OldImages'
    <2> SUFFICES ASSUME NEW p \in Ops, op'[p].kind = "image", NEW k \in op'[p].old \cap Once'
                 PROVE  op'[k].kind = "image"
      BY DEF OldImages
    <2>1. k \in Once /\ k \in Ops
      BY <1>2 DEF Once
    <2>2. op[k].pc \in Through /\ op[k].kind = "image"
      <3>1. CASE p = o
        BY <1>1, <2>1, <3>1 DEF Succeeds
      <3>2. CASE p # o
        BY <1>1, <2>1, <3>2 DEF CatalogueInv, OldThrough, OldImages
      <3> QED
        BY <3>1, <3>2
    <2> QED
      BY <1>1, <2>1, <2>2
  <1> QED
    BY <1>1, <1>2, <1>3, <1>4, <1>5

\* A step of one operation that leaves the image and the files alone and deletes no
\* object.
LEMMA OperationMoves ==
  ASSUME CatalogueInv, NEW o \in Ops, NEW s, Succeeds(o, s),
         s.pc # "saved",
         s.pc \in {"copied", "promoted", "counted"} => s.key \in stored' \cup Repeated,
         service' \in [status : {"none", "live", "gone"}, image : Keys \cup {NoKey},
                       text : Keys],
         service'.image = service.image,
         (service'.status = "gone") <=> (service.status = "gone"),
         files' = files, stored \subseteq stored', stored' \subseteq Keys,
         pending' \subseteq Ops
  PROVE  CatalogueInv'
  <1>1. /\ op' \in [Ops -> OpStates] /\ op'[o] = s
        /\ \A p \in Ops \ {o} : op'[p] = op[p]
        /\ \A k \in Ops : op[k].pc \in Through
                           => op'[k].pc \in Through /\ op'[k].kind = op[k].kind
        /\ Repeated \subseteq Repeated' /\ Once' \subseteq Once
        /\ Owned' /\ OldThrough' /\ OldImages'
    BY MemoryKept
  <1>2. RowsOK'
    BY <1>1 DEF CatalogueInv, RowsOK
  <1>3. ImageThrough' /\ FilesThrough'
    <2>1. Once \subseteq Ops /\ \A f \in files : f.id \in Ops
      BY DEF Once, CatalogueInv, RowsOK
    <2>2. FileKeys' = FileKeys
      BY DEF FileKeys
    <2> QED
      BY <1>1, <2>1, <2>2 DEF CatalogueInv, ImageThrough, FilesThrough
  <1>4. Prepared'
    <2> SUFFICES ASSUME NEW p \in Ops, op'[p].kind \in Uploads, op'[p].key \in Once',
                        op'[p].pc \in {"copied", "promoted", "counted"}
                 PROVE  op'[p].key \in stored'
      BY DEF Prepared
    <2>1. CASE p = o
      BY <1>1, <2>1 DEF Once
    <2>2. CASE p # o
      BY <1>1, <2>2 DEF CatalogueInv, Prepared
    <2> QED
      BY <2>1, <2>2
  <1>5. SweepsUnserved'
    <2> SUFFICES ASSUME NEW p \in Ops, op'[p].pc = "saved"
                 PROVE  /\ op'[p].kind = "image"
                             => service'.image \notin op'[p].old \ Repeated'
                        /\ op'[p].kind # "image" => service'.status = "gone"
      BY DEF SweepsUnserved
    <2>1. p # o
      BY <1>1
    <2> QED
      BY <1>1, <2>1 DEF CatalogueInv, SweepsUnserved
  <1>6. GoneIsEmpty'
    BY DEF CatalogueInv, GoneIsEmpty
  <1>7. ServedIsPromoted'
    <2>1. Imaged' = Imaged /\ FileKeys' = FileKeys
      BY DEF Imaged, FileKeys
    <2> QED
      BY <1>1, <2>1 DEF CatalogueInv, ServedIsPromoted
  <1> QED
    BY <1>1, <1>2, <1>3, <1>4, <1>5, <1>6, <1>7 DEF CatalogueInv
-----------------------------------------------------------------------------
(* The steps, by the part of the state they touch. *)

\* What any step of an operation finds.
LEMMA OperationFacts ==
  ASSUME CatalogueInv, NEW o \in Ops
  PROVE  /\ op[o] \in OpStates /\ stored \subseteq Keys /\ pending \subseteq Ops
         /\ service \in [status : {"none", "live", "gone"}, image : Keys \cup {NoKey},
                         text : Keys]
         /\ \A k \in op[o].old \cap Once :
              op[k].pc \in Through /\ (op[o].kind = "image" => op[k].kind = "image")
         /\ op[o].kind \in Uploads => op[o].key \in Ops
         /\ op[o].kind \in Uploads /\ op[o].pc \in {"copied", "promoted", "counted"}
              => op[o].key \in stored \cup Repeated
  BY DEF CatalogueInv, RowsOK, Owned, OldThrough, OldImages, Prepared, Once

\* A step that moves an operation on, with or without what it has read.
LEMMA MovesOn ==
  ASSUME CatalogueInv, NEW o \in Ops, NEW pc \in {"copied", "promoted"} \cup Through,
         Goes(o, pc) \/ Forgets(o, pc), op[o].pc \in Through => pc \in Through
  PROVE  \E s : /\ Succeeds(o, s) /\ s.pc = pc /\ s.kind = op[o].kind
                /\ s.key = op[o].key /\ s.old \subseteq op[o].old
  <1>1. op[o] \in OpStates /\ op \in [Ops -> OpStates]
    BY DEF CatalogueInv, RowsOK
  <1>2. PICK s \in OpStates : /\ op' = [op EXCEPT ![o] = s] /\ s.pc = pc
                              /\ s.kind = op[o].kind /\ s.key = op[o].key
                              /\ s.old \subseteq op[o].old
    <2>1. CASE Goes(o, pc)
      <3> DEFINE s == [op[o] EXCEPT !.pc = pc]
      <3>1. s \in OpStates /\ s.pc = pc /\ s.kind = op[o].kind /\ s.key = op[o].key
            /\ s.old = op[o].old
        BY <1>1 DEF OpStates, Through
      <3>2. op' = [op EXCEPT ![o] = s]
        BY <2>1 DEF Goes
      <3> HIDE DEF s
      <3> QED
        BY <3>1, <3>2
    <2>2. CASE Forgets(o, pc)
      <3> DEFINE s == [op[o] EXCEPT !.pc = pc, !.old = {}, !.count = 0]
      <3>1. s \in OpStates /\ s.pc = pc /\ s.kind = op[o].kind /\ s.key = op[o].key
            /\ s.old = {}
        BY <1>1 DEF OpStates, Through
      <3>2. op' = [op EXCEPT ![o] = s]
        <4>1. op' = [op EXCEPT ![o].pc = pc, ![o].old = {}, ![o].count = 0]
          BY <2>2 DEF Forgets
        <4> QED
          BY <1>1, <4>1 DEF OpStates
      <3> HIDE DEF s
      <3> QED
        BY <3>1, <3>2
    <2> QED
      BY <2>1, <2>2
  <1>3. s.pc # "idle"
    BY <1>2 DEF Through
  <1>4. \A k \in s.old \cap Once :
          op[k].pc \in Through /\ (s.kind = "image" => op[k].kind = "image")
    BY <1>2, OperationFacts
  <1>5. Succeeds(o, s)
    BY <1>2, <1>3, <1>4 DEF Succeeds
  <1> QED
    BY <1>2, <1>5

\* A step that only moves an operation on, and may drop its pending object.
LEMMA Advances ==
  ASSUME CatalogueInv, NEW o \in Ops, NEW pc, Goes(o, pc) \/ Forgets(o, pc),
         pc \in {"promoted", "swept", "answered", "done", "failed"},
         op[o].pc \in Through => pc \in Through,
         pc = "promoted" => op[o].pc = "copied" /\ op[o].kind \in Uploads,
         UNCHANGED <<service, files, stored>>, pending' \subseteq pending
  PROVE  CatalogueInv'
  <1>1. pc \in {"copied", "promoted"} \cup Through /\ pc # "saved"
    BY DEF Through
  <1>2. PICK s : /\ Succeeds(o, s) /\ s.pc = pc /\ s.kind = op[o].kind
                 /\ s.key = op[o].key /\ s.old \subseteq op[o].old
    BY <1>1, MovesOn
  <1>3. s.pc \in {"copied", "promoted", "counted"} => s.key \in stored' \cup Repeated
    BY <1>2, OperationFacts
  <1> QED
    BY <1>1, <1>2, <1>3, OperationFacts, OperationMoves

\* An operation begins, with what it read of the row.
LEMMA Begins ==
  ASSUME CatalogueInv, NEW o \in Ops, NEW kind \in Kinds, NEW by \in Tabs \cup {"api"},
         NEW key \in Ops \cup {NoKey}, NEW pc,
         NEW old, Fresh(o), Starts(o, kind, by, key, pc, old),
         pc \in {"put", "read", "swept"}, old \subseteq Imaged \cup FileKeys,
         kind = "image" => old = {},
         kind \in Uploads =>
           \/ key = o
           \/ key \in Ops /\ op[key].kind = kind /\ op[key].key = key,
         service' \in [status : {"none", "live", "gone"}, image : Keys \cup {NoKey},
                       text : Keys],
         service'.image = service.image,
         (service'.status = "gone") <=> (service.status = "gone"),
         UNCHANGED <<files, stored>>, pending' \subseteq Ops
  PROVE  CatalogueInv'
  <1> DEFINE s == [kind |-> kind, by |-> by, key |-> key, pc |-> pc, old |-> old,
                   count |-> 0]
  <1>1. old \subseteq Keys
    BY KeyFacts, OperationFacts DEF CatalogueInv, RowsOK, Imaged, FileKeys
  <1>2. s \in OpStates /\ s.pc = pc /\ s.kind = kind /\ s.old = old /\ s.key = key
    BY <1>1 DEF OpStates, Through
  <1>3. op' = [op EXCEPT ![o] = s] /\ op[o].pc = "idle"
    BY DEF Starts, Fresh
  <1> HIDE DEF s
  <1>4. \A k \in s.old \cap Once :
            op[k].pc \in Through /\ (s.kind = "image" => op[k].kind = "image")
    BY <1>2, ServedThrough
  <1>5. Succeeds(o, s)
    BY <1>2, <1>3, <1>4 DEF Succeeds, Through
  <1> QED
    BY <1>2, <1>5, OperationFacts, OperationMoves

LEMMA PutKeeps ==
  ASSUME CatalogueInv, NEW o \in Ops, NEW kind \in Uploads, NEW by \in Tabs,
         Put(o, kind, by)
  PROVE  CatalogueInv'
  <1> DEFINE s == [kind |-> kind, by |-> by, key |-> o, pc |-> "put", old |-> {},
                   count |-> 0]
  <1>1. /\ s \in OpStates /\ s.pc = "put" /\ s.kind = kind /\ s.key = o /\ s.old = {}
    BY DEF OpStates, Kinds
  <1>2. /\ op' = [op EXCEPT ![o] = s] /\ op[o].pc = "idle"
        /\ UNCHANGED <<service, files, stored>> /\ pending' \subseteq Ops
    BY OperationFacts DEF Put, Starts, Fresh, Tables
  <1> HIDE DEF s
  <1>3. Succeeds(o, s)
    BY <1>1, <1>2 DEF Succeeds, Through
  <1> QED
    BY <1>1, <1>2, <1>3, OperationFacts, OperationMoves

LEMMA ClickKeeps ==
  ASSUME CatalogueInv, NEW o \in Ops, NEW by \in Tabs, Click(o, by)
  PROVE  CatalogueInv'
  <1> USE OperationFacts
  <1>1. CASE PutImage(o, by) \/ PutFile(o, by)
    BY <1>1, PutKeeps DEF PutImage, PutFile, Uploads
  <1>3. CASE Create(o, by)
    <2>1. service' = [service EXCEPT !.status = "live", !.text = o] /\ service.status = "none"
      BY <1>3 DEF Create
    <2>2. /\ service' \in [status : {"none", "live", "gone"}, image : Keys \cup {NoKey},
                           text : Keys]
          /\ service'.image = service.image /\ service'.status = "live"
      BY <2>1, KeyFacts
    <2>3. /\ Fresh(o) /\ Starts(o, "create", by, NoKey, "swept", {})
          /\ UNCHANGED <<files, stored>> /\ pending' = pending
      BY <1>3 DEF Create, Bucket
    <2>4. "create" \in Kinds /\ "create" \notin Uploads
      BY DEF Kinds, Uploads
    <2> QED
      BY <2>1, <2>2, <2>3, <2>4, Begins
  <1>4. CASE Edit(o, by)
    <2>1. service' = [service EXCEPT !.text = o]
      BY <1>4 DEF Edit
    <2>2. /\ service' \in [status : {"none", "live", "gone"}, image : Keys \cup {NoKey},
                           text : Keys]
          /\ service'.image = service.image /\ service'.status = service.status
      BY <2>1, KeyFacts
    <2>3. /\ Fresh(o) /\ Starts(o, "edit", by, NoKey, "swept", {})
          /\ UNCHANGED <<files, stored>> /\ pending' = pending
      BY <1>4 DEF Edit, Bucket
    <2>4. "edit" \in Kinds /\ "edit" \notin Uploads
      BY DEF Kinds, Uploads
    <2> QED
      BY <2>2, <2>3, <2>4, Begins
  <1>5. CASE ReadAll(o, by)
    <2>1. /\ Fresh(o) /\ Starts(o, "remove", by, NoKey, "read", FileKeys \cup Imaged)
          /\ UNCHANGED <<service, files, stored>> /\ pending' = pending
      BY <1>5 DEF ReadAll, Tables, Bucket
    <2>2. "remove" \in Kinds /\ "remove" \notin Uploads
      BY DEF Kinds, Uploads
    <2> QED
      BY <2>1, <2>2, Begins
  <1> QED
    BY <1>1, <1>3, <1>4, <1>5 DEF Click

\* A confirm that is sent again has the key and the kind of an upload.
LEMMA ConfirmAgainKeeps ==
  ASSUME CatalogueInv, NEW o \in Ops, ConfirmAgain(o)
  PROVE  CatalogueInv'
  <1>1. PICK p \in Ops : /\ op[p].kind \in Uploads
                         /\ Starts(o, op[p].kind, "api", op[p].key, "put", {})
    BY DEF ConfirmAgain
  <1>2. /\ op[p].key \in Ops
        /\ op[op[p].key].kind = op[p].kind /\ op[op[p].key].key = op[p].key
    BY <1>1 DEF CatalogueInv, Owned
  <1>3. /\ Fresh(o) /\ UNCHANGED <<service, files, stored>> /\ pending' = pending
    BY DEF ConfirmAgain, Tables, Bucket
  <1> DEFINE kind == op[p].kind
             key == op[p].key
  <1>4. /\ kind \in Kinds /\ key \in Ops /\ op[key].kind = kind /\ op[key].key = key
        /\ Starts(o, kind, "api", key, "put", {})
    BY <1>1, <1>2 DEF Kinds
  <1> HIDE DEF kind, key
  <1> QED
    BY <1>3, <1>4, OperationFacts, Begins

\* confirmImage's steps before its save, and confirmFile's.
LEMMA ReadImageKeeps ==
  ASSUME CatalogueInv, NEW o \in Ops, ReadImage(o)
  PROVE  CatalogueInv'
  <1>1. CASE Live
    <2> DEFINE s == [op[o] EXCEPT !.pc = "read", !.old = Imaged]
    <2>1. op[o].kind = "image" /\ op[o].pc = "put" /\ op' = [op EXCEPT ![o] = s]
      <3>1. /\ op[o].kind = "image" /\ op[o].pc = "put"
            /\ op' = [op EXCEPT ![o].pc = "read", ![o].old = Imaged]
        BY <1>1 DEF ReadImage, At
      <3>2. [op EXCEPT ![o].pc = "read", ![o].old = Imaged] = [op EXCEPT ![o] = s]
        BY OperationFacts DEF CatalogueInv, RowsOK, OpStates
      <3> QED
        BY <3>1, <3>2
    <2>2. Imaged \subseteq Keys
      BY OperationFacts DEF Imaged
    <2>3. /\ s \in OpStates /\ s.pc = "read" /\ s.kind = op[o].kind /\ s.old = Imaged
          /\ s.key = op[o].key
      <3>1. op[o] \in OpStates
        BY OperationFacts
      <3>2. s.pc = "read" /\ s.kind = op[o].kind /\ s.old = Imaged /\ s.key = op[o].key
        BY <3>1 DEF OpStates
      <3>3. s \in OpStates
        BY <2>2, <3>1 DEF OpStates
      <3> QED
        BY <3>2, <3>3
    <2>4. \A k \in Imaged \cap Once : op[k].pc \in Through /\ op[k].kind = "image"
      BY DEF CatalogueInv, ImageThrough, Imaged
    <2>5. UNCHANGED <<service, files, stored, pending>>
      BY DEF ReadImage, Tables, Bucket
    <2> HIDE DEF s
    <2>6. Succeeds(o, s)
      BY <2>1, <2>3, <2>4 DEF Succeeds, Through
    <2> QED
      BY <2>3, <2>5, <2>6, OperationFacts, OperationMoves
  <1>2. CASE ~Live
    <2>1. /\ Goes(o, "failed") /\ UNCHANGED <<service, files, stored, pending>>
      BY <1>2 DEF ReadImage, Goes, Tables, Bucket
    <2> QED
      BY <2>1, Advances DEF Through
  <1> QED
    BY <1>1, <1>2

LEMMA CopyKeeps ==
  ASSUME CatalogueInv, NEW o \in Ops, Copy(o)
  PROVE  CatalogueInv'
  <1>1. op[o].pc \in {"read", "put"} /\ op[o].kind \in Uploads
    BY DEF Copy, MayCheck, At, Uploads
  <1>2. PICK s : /\ Succeeds(o, s) /\ s.pc = "copied" /\ s.kind = op[o].kind
                 /\ s.key = op[o].key /\ s.old \subseteq op[o].old
    BY <1>1, MovesOn DEF Copy, Through
  <1>3. /\ UNCHANGED <<service, files, pending>> /\ stored' = stored \cup {op[o].key}
        /\ stored' \subseteq Keys
    BY <1>1, KeyFacts, OperationFacts DEF Copy, Tables
  <1> QED
    BY <1>2, <1>3, OperationFacts, OperationMoves

LEMMA CountKeeps ==
  ASSUME CatalogueInv, NEW o \in Ops, CountFiles(o)
  PROVE  CatalogueInv'
  <1> DEFINE s == [op[o] EXCEPT !.pc = "counted", !.count = Cardinality(files)]
  <1>1. op' = [op EXCEPT ![o] = s] /\ op[o].pc = "promoted" /\ op[o].kind \in Uploads
    <2>1. [op EXCEPT ![o].pc = "counted", ![o].count = Cardinality(files)] = [op EXCEPT ![o] = s]
      BY OperationFacts DEF CatalogueInv, RowsOK, OpStates
    <2> QED
      BY <2>1 DEF CountFiles, At, Uploads
  <1>2. Cardinality(files) \in Nat
    BY FS_CardinalityType DEF CatalogueInv, RowsOK
  <1>3. /\ s \in OpStates /\ s.pc = "counted" /\ s.kind = op[o].kind
        /\ s.old = op[o].old /\ s.key = op[o].key
    <2>1. op[o] \in OpStates
      BY OperationFacts
    <2>2. s.pc = "counted" /\ s.kind = op[o].kind /\ s.old = op[o].old /\ s.key = op[o].key
      BY <2>1 DEF OpStates
    <2>3. s \in OpStates
      BY <1>2, <2>1 DEF OpStates
    <2> QED
      BY <2>2, <2>3
  <1>4. UNCHANGED <<service, files, pending, stored>>
    BY DEF CountFiles, Tables, Bucket
  <1> HIDE DEF s
  <1>5. Succeeds(o, s)
    BY <1>1, <1>3, OperationFacts DEF Succeeds, Through
  <1>6. s.pc \in {"copied", "promoted", "counted"} => s.key \in stored' \cup Repeated
    BY <1>1, <1>3, <1>4, OperationFacts
  <1> QED
    BY <1>3, <1>4, <1>5, <1>6, OperationFacts, OperationMoves

\* The save of an image: what it replaces was read from the row before, so it is
\* another operation's, or the seed.
LEMMA SaveImageKeeps ==
  ASSUME CatalogueInv, NEW o \in Ops, SaveImage(o)
  PROVE  CatalogueInv'
  <1> DEFINE k == op[o].key
  <1>1. /\ Goes(o, "saved") /\ op[o].pc = "promoted" /\ op[o].kind = "image"
        /\ service' = [service EXCEPT !.image = k] /\ service.status = "live"
        /\ UNCHANGED <<files, pending, stored>>
    BY DEF SaveImage, At, Bucket, Live
  <1>2. PICK s : /\ Succeeds(o, s) /\ s.pc = "saved" /\ s.kind = op[o].kind
                 /\ s.key = op[o].key /\ s.old \subseteq op[o].old
    BY <1>1, MovesOn DEF Through
  <1>3. k \in Ops /\ (k \in Once => k = o) /\ k \in stored \cup Repeated
    BY <1>1, OperationFacts, OnceIsOwn DEF Uploads
  <1> HIDE DEF k
  <1>4. /\ op' \in [Ops -> OpStates] /\ op'[o] = s
        /\ \A p \in Ops \ {o} : op'[p] = op[p]
        /\ \A q \in Ops : op[q].pc \in Through
                           => op'[q].pc \in Through /\ op'[q].kind = op[q].kind
        /\ Repeated \subseteq Repeated' /\ Once' \subseteq Once
        /\ Owned' /\ OldThrough' /\ OldImages'
    BY <1>2, MemoryKept
  <1>5. /\ service' \in [status : {"none", "live", "gone"}, image : Keys \cup {NoKey},
                         text : Keys]
        /\ service'.image = k /\ service'.status = "live"
    BY <1>1, <1>3, KeyFacts, OperationFacts
  <1>6. RowsOK'
    BY <1>1, <1>4, <1>5 DEF CatalogueInv, RowsOK
  <1>7. ImageThrough' /\ FilesThrough'
    <2>1. ImageThrough'
      BY <1>1, <1>2, <1>3, <1>4, <1>5 DEF ImageThrough, Through
    <2>2. Once \subseteq Ops /\ (\A f \in files : f.id \in Ops) /\ FileKeys' = FileKeys
      BY <1>1 DEF Once, CatalogueInv, RowsOK, FileKeys
    <2>3. FilesThrough'
      BY <1>1, <1>4, <2>2 DEF CatalogueInv, FilesThrough
    <2> QED
      BY <2>1, <2>3
  <1>8. Prepared'
    BY <1>1, <1>2, <1>4 DEF CatalogueInv, Prepared
  <1>9. SweepsUnserved'
    <2> SUFFICES ASSUME NEW p \in Ops, op'[p].pc = "saved"
                 PROVE  /\ op'[p].kind = "image" => k \notin op'[p].old \ Repeated'
                        /\ op'[p].kind # "image" => FALSE
      BY <1>5 DEF SweepsUnserved
    <2>1. k \in Once => k \notin op[p].old
      BY <1>1, <1>3 DEF CatalogueInv, OldThrough, Through
    <2>2. CASE p = o
      BY <1>1, <1>2, <1>3, <1>4, <2>1, <2>2 DEF Once
    <2>3. CASE p # o
      <3>1. op'[p] = op[p]
        BY <1>4, <2>3
      <3> QED
        BY <1>1, <1>3, <1>4, <2>1, <3>1 DEF CatalogueInv, SweepsUnserved, Once
    <2> QED
      BY <2>2, <2>3
  <1>10. GoneIsEmpty'
    BY <1>5 DEF GoneIsEmpty
  <1>11. ServedIsPromoted'
    <2>1. Imaged' = {k} /\ FileKeys' = FileKeys
      BY <1>1, <1>3, <1>5, KeyFacts DEF Imaged, FileKeys
    <2> QED
      BY <1>1, <1>3, <1>4, <2>1 DEF CatalogueInv, ServedIsPromoted
  <1> QED
    BY <1>4, <1>6, <1>7, <1>8, <1>9, <1>10, <1>11 DEF CatalogueInv

\* The insert of a file: its key was promoted, and no sweep names it.
LEMMA SaveFileKeeps ==
  ASSUME CatalogueInv, NEW o \in Ops, SaveFile(o)
  PROVE  CatalogueInv'
  <1> DEFINE k == op[o].key
             row == [id |-> o, key |-> k, version |-> op[o].count + 1]
  <1>1. /\ Forgets(o, "answered") /\ op[o].pc = "counted" /\ op[o].kind = "file"
        /\ files' = files \cup {row} /\ service.status = "live"
        /\ UNCHANGED <<service, pending, stored>>
    BY DEF SaveFile, At, Bucket, Live
  <1>2. PICK s : /\ Succeeds(o, s) /\ s.pc = "answered" /\ s.kind = op[o].kind
                 /\ s.key = op[o].key /\ s.old \subseteq op[o].old
    BY <1>1, MovesOn DEF Through
  <1>3. k \in Ops /\ (k \in Once => k = o) /\ k \in stored \cup Repeated
    BY <1>1, OperationFacts, OnceIsOwn DEF Uploads
  <1>4. row \in [id : Ops, key : Ops, version : Nat] /\ row.key = k /\ row.id = o
    BY <1>3, OperationFacts DEF OpStates
  <1> HIDE DEF k, row
  <1>5. /\ op' \in [Ops -> OpStates] /\ op'[o] = s
        /\ \A p \in Ops \ {o} : op'[p] = op[p]
        /\ \A q \in Ops : op[q].pc \in Through
                           => op'[q].pc \in Through /\ op'[q].kind = op[q].kind
        /\ Repeated \subseteq Repeated' /\ Once' \subseteq Once
        /\ Owned' /\ OldThrough' /\ OldImages'
    BY <1>2, MemoryKept
  <1>6. RowsOK'
    <2>1. IsFiniteSet(files')
      BY <1>1, FS_AddElement DEF CatalogueInv, RowsOK
    <2> QED
      BY <1>1, <1>4, <1>5, <2>1 DEF CatalogueInv, RowsOK
  <1>7. FileKeys' = FileKeys \cup {k}
    BY <1>1, <1>4 DEF FileKeys
  <1>8. FilesThrough' /\ ImageThrough'
    <2>1. op'[o].kind = "file" /\ op'[o].pc \in Through
      BY <1>1, <1>2, <1>5 DEF Through
    <2>2. \A q \in FileKeys' \cap Once' : op'[q].kind = "file" /\ op'[q].pc \in Through
      <3> SUFFICES ASSUME NEW q \in FileKeys', q \in Once'
                   PROVE  op'[q].kind = "file" /\ op'[q].pc \in Through
        OBVIOUS
      <3>1. q \in Once /\ q \in Ops
        BY <1>5 DEF Once
      <3>2. CASE q = k
        BY <1>3, <2>1, <3>1, <3>2
      <3>3. CASE q # k
        <4>1. op[q].kind = "file" /\ op[q].pc \in Through
          BY <1>7, <3>1, <3>3 DEF CatalogueInv, FilesThrough
        <4> QED
          BY <1>5, <3>1, <4>1
      <3> QED
        BY <3>2, <3>3
    <2>3. \A f \in files' : op'[f.id].pc \in Through
      <3>1. \A f \in files : f.id \in Ops /\ op[f.id].pc \in Through
        BY DEF CatalogueInv, RowsOK, FilesThrough
      <3> QED
        BY <1>1, <1>4, <1>5, <2>1, <3>1
    <2>4. ImageThrough'
      BY <1>1, <1>5 DEF CatalogueInv, ImageThrough, Once
    <2> QED
      BY <2>2, <2>3, <2>4 DEF FilesThrough
  <1>9. Prepared'
    BY <1>1, <1>2, <1>5 DEF CatalogueInv, Prepared
  <1>10. SweepsUnserved'
    BY <1>1, <1>2, <1>5 DEF CatalogueInv, SweepsUnserved
  <1>11. GoneIsEmpty'
    BY <1>1 DEF GoneIsEmpty
  <1>12. ServedIsPromoted'
    <2>1. Imaged' = Imaged
      BY <1>1 DEF Imaged
    <2> QED
      BY <1>1, <1>3, <1>5, <1>7, <2>1 DEF CatalogueInv, ServedIsPromoted
  <1> QED
    BY <1>5, <1>6, <1>8, <1>9, <1>10, <1>11, <1>12 DEF CatalogueInv

\* The delete of the row: nothing is served from then on.
LEMMA DeleteRowKeeps ==
  ASSUME CatalogueInv, NEW o \in Ops, DeleteRow(o)
  PROVE  CatalogueInv'
  <1>1. /\ Goes(o, "saved") /\ op[o].pc = "read" /\ op[o].kind = "remove"
        /\ service' = [service EXCEPT !.status = "gone", !.image = NoKey]
        /\ service.status = "live" /\ files' = {} /\ UNCHANGED <<pending, stored>>
    BY DEF DeleteRow, At, Bucket, Live
  <1>2. PICK s : /\ Succeeds(o, s) /\ s.pc = "saved" /\ s.kind = op[o].kind
                 /\ s.key = op[o].key /\ s.old \subseteq op[o].old
    BY <1>1, MovesOn DEF Through
  <1>3. /\ op' \in [Ops -> OpStates] /\ op'[o] = s
        /\ \A p \in Ops \ {o} : op'[p] = op[p]
        /\ Repeated \subseteq Repeated' /\ Once' \subseteq Once
        /\ Owned' /\ OldThrough' /\ OldImages'
    BY <1>2, MemoryKept
  <1>4. /\ service' \in [status : {"none", "live", "gone"}, image : Keys \cup {NoKey},
                         text : Keys]
        /\ service'.image = NoKey /\ service'.status = "gone"
    BY <1>1, OperationFacts
  <1>5. FileKeys' = {} /\ Imaged' = {}
    BY <1>1, <1>4 DEF FileKeys, Imaged
  <1>6. RowsOK'
    BY <1>1, <1>3, <1>4, FS_EmptySet DEF CatalogueInv, RowsOK
  <1>7. ImageThrough' /\ FilesThrough' /\ ServedIsPromoted' /\ GoneIsEmpty'
    BY <1>1, <1>4, <1>5, KeyFacts
    DEF ImageThrough, FilesThrough, ServedIsPromoted, GoneIsEmpty, Once
  <1>8. Prepared'
    BY <1>1, <1>2, <1>3 DEF CatalogueInv, Prepared
  <1>9. SweepsUnserved'
    <2> SUFFICES ASSUME NEW p \in Ops, op'[p].pc = "saved", op'[p].kind = "image"
                 PROVE  NoKey \notin op'[p].old
      BY <1>4 DEF SweepsUnserved
    <2> QED
      BY <1>3, KeyFacts DEF OpStates
  <1> QED
    BY <1>3, <1>6, <1>7, <1>8, <1>9 DEF CatalogueInv

\* The deletions: a swept key's operation is through, so nobody is about to save
\* it, and it is not served.
LEMMA SweepKeeps ==
  ASSUME CatalogueInv, NEW o \in Ops, NEW kind \in {"image", "remove"}, Sweep(o, kind)
  PROVE  CatalogueInv'
  <1>1. /\ Forgets(o, "swept") /\ op[o].pc = "saved" /\ op[o].kind = kind
        /\ UNCHANGED <<service, files, pending>>
        /\ stored' \subseteq stored /\ stored \ op[o].old \subseteq stored'
    BY DEF Sweep, At, Tables
  <1>2. PICK s : /\ Succeeds(o, s) /\ s.pc = "swept" /\ s.kind = op[o].kind
                 /\ s.key = op[o].key /\ s.old \subseteq op[o].old
    BY <1>1, MovesOn DEF Through
  <1>3. /\ op' \in [Ops -> OpStates] /\ op'[o] = s
        /\ \A p \in Ops \ {o} : op'[p] = op[p]
        /\ \A k \in Ops : op[k].pc \in Through
                           => op'[k].pc \in Through /\ op'[k].kind = op[k].kind
        /\ Repeated \subseteq Repeated' /\ Once' \subseteq Once
        /\ Owned' /\ OldThrough' /\ OldImages'
    BY <1>2, MemoryKept
  <1>4. RowsOK'
    BY <1>1, <1>3 DEF CatalogueInv, RowsOK
  <1>5. ImageThrough' /\ FilesThrough' /\ GoneIsEmpty'
    <2>1. /\ Once \subseteq Ops /\ (\A f \in files : f.id \in Ops) /\ FileKeys' = FileKeys
      BY <1>1 DEF Once, CatalogueInv, RowsOK, FileKeys
    <2>2. ImageThrough' /\ GoneIsEmpty'
      BY <1>1, <1>3, <2>1 DEF CatalogueInv, ImageThrough, GoneIsEmpty
    <2>3. FilesThrough'
      BY <1>1, <1>3, <2>1 DEF CatalogueInv, FilesThrough
    <2> QED
      BY <2>2, <2>3
  <1>6. Prepared'
    <2> SUFFICES ASSUME NEW p \in Ops, op'[p].kind \in Uploads, op'[p].key \in Once',
                        op'[p].pc \in {"copied", "promoted", "counted"}
                 PROVE  op'[p].key \in stored'
      BY DEF Prepared
    <2>1. p # o /\ op'[p] = op[p]
      BY <1>2, <1>3
    <2>2. op[p].key \in Once /\ op[p].key = p /\ p \in stored
      BY <1>3, <2>1, OnceIsOwn DEF CatalogueInv, Prepared
    <2>3. p \notin op[o].old
      BY <2>1, <2>2, OperationFacts DEF Through
    <2> QED
      BY <1>1, <2>1, <2>2, <2>3
  <1>7. SweepsUnserved'
    BY <1>1, <1>2, <1>3 DEF CatalogueInv, SweepsUnserved
  <1>8. ((Imaged \cup FileKeys) \ Repeated) \cap op[o].old = {}
    <2>1. CASE kind = "remove"
      <3>1. service.status = "gone"
        BY <1>1, <2>1 DEF CatalogueInv, SweepsUnserved
      <3> QED
        BY <3>1 DEF CatalogueInv, GoneIsEmpty, Imaged, FileKeys
    <2>2. CASE kind = "image"
      <3>1. service.image \notin op[o].old \ Repeated
        BY <1>1, <2>2 DEF CatalogueInv, SweepsUnserved
      <3>2. ASSUME NEW k \in FileKeys, k \notin Repeated, k \in op[o].old PROVE FALSE
        <4>1. k \in Once
          BY <3>2 DEF FileKeys, CatalogueInv, RowsOK, Once
        <4>2. op[k].kind = "image"
          BY <1>1, <2>2, <3>2, <4>1, OperationFacts
        <4> QED
          BY <4>1, <4>2 DEF CatalogueInv, FilesThrough
      <3> QED
        BY <3>1, <3>2 DEF Imaged
    <2> QED
      BY <2>1, <2>2
  <1>9. ServedIsPromoted'
    <2>1. Imaged' = Imaged /\ FileKeys' = FileKeys
      BY <1>1 DEF Imaged, FileKeys
    <2> QED
      BY <1>1, <1>3, <1>8, <2>1 DEF CatalogueInv, ServedIsPromoted
  <1> QED
    BY <1>3, <1>4, <1>5, <1>6, <1>7, <1>9 DEF CatalogueInv

-----------------------------------------------------------------------------
LEMMA CatalogueStep ==
  ASSUME CatalogueInv, [Next]_vars
  PROVE  CatalogueInv'
  <1>1. ASSUME NEW o \in Ops, Upload(o)
        PROVE  CatalogueInv'
    <2>1. CASE Reject(o)
      BY <2>1, Advances DEF Reject, Tables, Through
    <2>2. CASE DropPending(o)
      BY <2>2, Advances DEF DropPending, At, Tables, Through
    <2>3. CASE PutAgain(o)
      <3>1. pending' \subseteq Ops /\ UNCHANGED <<service, files, stored, op>>
        BY <2>3, OperationFacts DEF PutAgain, Tables
      <3> QED
        BY <3>1, CatalogueQuiet
    <2> QED
      BY <1>1, <2>1, <2>2, <2>3, ReadImageKeeps, CopyKeeps, SaveImageKeeps, CountKeeps,
         SaveFileKeeps, ConfirmAgainKeeps
      DEF Upload
  <1>2. ASSUME NEW o \in Ops, Finish(o)
        PROVE  CatalogueInv'
    <2>1. CASE DropList(o)
      BY <2>1, Advances DEF DropList, Tables, Bucket, Through
    <2>2. CASE Answer(o)
      BY <2>2, Advances DEF Answer, Tables, Bucket, Through
    <2>3. CASE GiveUp(o)
      BY <2>3, Advances DEF GiveUp, Tables, Bucket, Through
    <2> QED
      BY <1>2, <2>1, <2>2, <2>3, DeleteRowKeeps, SweepKeeps
      DEF Finish, SweepImage, SweepRemoved
  <1>3. ASSUME NEW o \in Ops, NEW by \in Tabs, Click(o, by)
        PROVE  CatalogueInv'
    BY <1>3, ClickKeeps
  <1>4. CASE Refer \/ Ask \/ Land \/ Expire \/ UNCHANGED vars
    <2>1. UNCHANGED <<service, files, pending, stored, op>>
      BY <1>4 DEF Refer, Ask, Hit, Miss, CacheList, Land, Expire, Tables, Bucket, vars
    <2>2. pending \subseteq Ops
      BY DEF CatalogueInv, RowsOK
    <2> QED
      BY <2>1, <2>2, CatalogueQuiet
  <1> QED
    BY <1>1, <1>2, <1>3, <1>4 DEF Next

LEMMA CatalogueInvariant == Spec => []CatalogueInv
  BY CatalogueInit, CatalogueStep, PTL DEF Spec

\* The row, the files, the bucket and the operations of the admins keep their types
\* (ServicesController, S3Service), however many operations there are.
THEOREM RowsTypeCorrect == Spec => []RowsOK
  <1>1. CatalogueInv => RowsOK
    BY DEF CatalogueInv
  <1> QED
    BY <1>1, CatalogueInvariant, PTL

\* Image swaps, uploads, objects put again, removals and their failures interleave
\* without the row or a file ever naming a missing object, unless its confirm was sent
\* twice (confirmImage, confirmFile, remove), for any number of operations.
THEOREM ServedKeysPromoted == Spec => []ServedIsPromoted
  <1>1. CatalogueInv => ServedIsPromoted
    BY DEF CatalogueInv
  <1> QED
    BY <1>1, CatalogueInvariant, PTL

\* An operation saves one file, so there are no more files than operations: no count,
\* and no version made from one, goes beyond.
IdsOnce == \A f, g \in files : f.id = g.id => f = g
Counted == /\ \A f \in files : f.version \in 1 .. (MaxOps + 1)
           /\ \A o \in Ops : op[o].count \in 0 .. MaxOps

\* What the caches and the readers hold were rows.
ReadersOK == /\ wanted \in {"no", "yes"}
             /\ list \subseteq Rows /\ specs \subseteq Rows
             /\ reader \in [Readers -> [pc : {"idle", "fetched", "answered"},
                                        got : SUBSET Rows]]

CatalogueTyped == CatalogueInv /\ IdsOnce /\ Counted /\ ReadersOK

LEMMA FilesBounded ==
  ASSUME CatalogueInv, IdsOnce
  PROVE  Cardinality(files) \in 0 .. MaxOps
  <1> DEFINE IdOf == [f \in files |-> f.id]
  <1>1. IsFiniteSet(files) /\ \A f \in files : f.id \in Ops
    BY DEF CatalogueInv, RowsOK
  <1>2. IsFiniteSet(Ops) /\ Cardinality(Ops) = MaxOps
    <2>1. MaxOps \in Nat /\ 1 \in Nat
      BY MaxOpsAssumption
    <2>2. CASE MaxOps = 0
      <3>1. Ops = {}
        BY <2>2 DEF Ops
      <3> QED
        BY <2>2, <3>1, FS_EmptySet
    <2>3. CASE MaxOps > 0
      <3>1. Cardinality(1 .. MaxOps) = MaxOps - 1 + 1 /\ IsFiniteSet(1 .. MaxOps)
        BY <2>1, <2>3, FS_Interval
      <3> QED
        BY <2>1, <3>1 DEF Ops
    <2> QED
      BY <2>1, <2>2, <2>3
  <1>3. IdOf \in Injection(files, Ops)
    BY <1>1 DEF IdsOnce, Injection, IsInjective
  <1>4. Cardinality(files) <= Cardinality(Ops)
    BY <1>2, <1>3, FS_Injection DEF ExistsInjection
  <1> QED
    BY <1>1, <1>2, <1>4, FS_CardinalityType, MaxOpsAssumption

LEMMA TypedInit == Init => CatalogueTyped
  <1> SUFFICES ASSUME Init PROVE CatalogueTyped
    OBVIOUS
  <1>1. \A o \in Ops : op[o].count = 0
    BY DEF Init, Idle
  <1>2. IdsOnce /\ Counted
    BY <1>1, MaxOpsAssumption DEF Init, IdsOnce, Counted
  <1>3. ReadersOK
    BY DEF Init, ReadersOK, Quiet
  <1> QED
    BY <1>2, <1>3, CatalogueInit DEF CatalogueTyped

\* An operation that goes on keeps its count or forgets it.
LEMMA CountStays ==
  ASSUME CatalogueInv, NEW o \in Ops, NEW pc, Goes(o, pc) \/ Forgets(o, pc)
  PROVE  \A p \in Ops : op'[p].count \in {0, op[p].count}
  <1>1. op \in [Ops -> OpStates]
    BY DEF CatalogueInv, RowsOK
  <1>2. op'[o].count \in {0, op[o].count}
    <2>1. CASE Goes(o, pc)
      BY <1>1, <2>1 DEF Goes, OpStates
    <2>2. CASE Forgets(o, pc)
      BY <1>1, <2>2 DEF Forgets, OpStates
    <2> QED
      BY <2>1, <2>2
  <1>3. \A p \in Ops \ {o} : op'[p] = op[p]
    BY <1>1 DEF Goes, Forgets
  <1> QED
    BY <1>2, <1>3

LEMMA FilesKept ==
  ASSUME Counted, IdsOnce, files' \subseteq files,
         \A p \in Ops : op'[p].count \in {0, op[p].count}
  PROVE  Counted' /\ IdsOnce'
  <1>1. 0 \in 0 .. MaxOps
    BY MaxOpsAssumption
  <1> QED
    BY <1>1 DEF Counted, IdsOnce

LEMMA CountedStep ==
  ASSUME CatalogueTyped, [Next]_vars
  PROVE  IdsOnce' /\ Counted'
  <1>0. /\ CatalogueInv /\ IdsOnce /\ Counted /\ op \in [Ops -> OpStates]
        /\ Cardinality(files) \in 0 .. MaxOps
    BY FilesBounded DEF CatalogueTyped, CatalogueInv, RowsOK
  <1>1. ASSUME NEW o \in Ops, NEW pc, Goes(o, pc) \/ Forgets(o, pc), files' \subseteq files
        PROVE  IdsOnce' /\ Counted'
    BY <1>0, <1>1, CountStays, FilesKept
  <1>2. ASSUME NEW o \in Ops, NEW kind, NEW by, NEW key, NEW pc, NEW old,
               Starts(o, kind, by, key, pc, old), files' = files
        PROVE  IdsOnce' /\ Counted'
    <2>1. \A p \in Ops : op'[p].count \in {0, op[p].count}
      BY <1>0, <1>2 DEF Starts
    <2> QED
      BY <1>0, <1>2, <2>1, FilesKept
  <1>3. ASSUME NEW o \in Ops, ReadImage(o)
        PROVE  IdsOnce' /\ Counted'
    <2>1. op'[o].count = op[o].count
      <3>1. CASE Live
        <4>1. op' = [op EXCEPT ![o].pc = "read", ![o].old = Imaged]
          BY <1>3, <3>1 DEF ReadImage
        <4> QED
          BY <1>0, <4>1 DEF OpStates
      <3>2. CASE ~ Live
        BY <1>0, <1>3, <3>2 DEF ReadImage, OpStates
      <3> QED
        BY <3>1, <3>2
    <2>2. \A p \in Ops \ {o} : op'[p] = op[p]
      BY <1>0, <1>3 DEF ReadImage
    <2>3. \A p \in Ops : op'[p].count \in {0, op[p].count}
      BY <2>1, <2>2
    <2> QED
      BY <1>0, <1>3, <2>3, FilesKept DEF ReadImage, Tables
  <1>4. ASSUME NEW o \in Ops, CountFiles(o)
        PROVE  IdsOnce' /\ Counted'
    <2>1. /\ op' = [op EXCEPT ![o].pc = "counted", ![o].count = Cardinality(files)]
          /\ files' = files
      BY <1>4 DEF CountFiles, Tables
    <2>2. op'[o].count = Cardinality(files) /\ \A p \in Ops \ {o} : op'[p] = op[p]
      BY <1>0, <2>1 DEF OpStates
    <2>3. \A p \in Ops : op'[p].count \in 0 .. MaxOps
      BY <1>0, <2>2 DEF Counted
    <2> QED
      BY <1>0, <2>1, <2>3 DEF Counted, IdsOnce
  <1>5. ASSUME NEW o \in Ops, SaveFile(o)
        PROVE  IdsOnce' /\ Counted'
    <2> DEFINE f == [id |-> o, key |-> op[o].key, version |-> op[o].count + 1]
    <2>1. files' = files \cup {f} /\ Forgets(o, "answered") /\ op[o].pc = "counted"
      BY <1>5 DEF SaveFile, At
    <2>2. \A g \in files : g.id # o
      BY <1>0, <2>1 DEF CatalogueInv, FilesThrough, Through
    <2>3. op[o].count \in 0 .. MaxOps
      BY <1>0 DEF Counted
    <2>4. f.version \in 1 .. (MaxOps + 1) /\ f.id = o
      BY <2>3, MaxOpsAssumption
    <2> HIDE DEF f
    <2>5. IdsOnce'
      BY <1>0, <2>1, <2>2, <2>4 DEF IdsOnce
    <2>6. \A p \in Ops : op'[p].count \in 0 .. MaxOps
      <3>1. \A p \in Ops : op'[p].count \in {0, op[p].count}
        BY <1>0, <2>1, CountStays
      <3> QED
        BY <1>0, <3>1, MaxOpsAssumption DEF Counted
    <2> QED
      BY <1>0, <2>1, <2>4, <2>5, <2>6 DEF Counted
  <1>6. ASSUME NEW o \in Ops, Upload(o)
        PROVE  IdsOnce' /\ Counted'
    <2>1. CASE Reject(o) \/ Copy(o) \/ DropPending(o) \/ SaveImage(o)
      <3>1. files' = files /\ \E pc : Goes(o, pc) \/ Forgets(o, pc)
        BY <2>1 DEF Reject, Copy, DropPending, SaveImage, Tables
      <3> QED
        BY <1>1, <3>1
    <2>2. CASE PutAgain(o)
      BY <1>0, <2>2 DEF PutAgain, Tables, Counted, IdsOnce
    <2>3. CASE ConfirmAgain(o)
      <3>1. files' = files /\ \E kind, key : Starts(o, kind, "api", key, "put", {})
        BY <2>3 DEF ConfirmAgain, Tables
      <3> QED
        BY <1>2, <3>1
    <2> QED
      BY <1>3, <1>4, <1>5, <1>6, <2>1, <2>2, <2>3 DEF Upload
  <1>7. ASSUME NEW o \in Ops, Finish(o)
        PROVE  IdsOnce' /\ Counted'
    <2>1. files' \subseteq files /\ \E pc : Goes(o, pc) \/ Forgets(o, pc)
      BY <1>7 DEF Finish, DeleteRow, SweepImage, SweepRemoved, Sweep, DropList, Answer,
                  GiveUp, Tables
    <2> QED
      BY <1>1, <2>1
  <1>8. ASSUME NEW o \in Ops, NEW by \in Tabs, Click(o, by)
        PROVE  IdsOnce' /\ Counted'
    <2>1. files' = files /\ \E kind, key, pc, old : Starts(o, kind, by, key, pc, old)
      BY <1>8 DEF Click, PutImage, PutFile, Put, Create, Edit, ReadAll, Tables
    <2> QED
      BY <1>2, <2>1
  <1>9. CASE Refer \/ Ask \/ Land \/ Expire \/ UNCHANGED vars
    <2>1. UNCHANGED <<files, op>>
      BY <1>9 DEF Refer, Ask, Hit, Miss, CacheList, Land, Expire, Tables, vars
    <2> QED
      BY <1>0, <2>1 DEF IdsOnce, Counted
  <1> QED
    BY <1>6, <1>7, <1>8, <1>9 DEF Next

LEMMA ReadersStep ==
  ASSUME CatalogueTyped, [Next]_vars
  PROVE  ReadersOK'
  <1> DEFINE Reading == [pc : {"idle", "fetched", "answered"}, got : SUBSET Rows]
  <1>0. /\ ReadersOK /\ service \in Rows /\ Quiet \in Reading
        /\ reader \in [Readers -> Reading] /\ "tab" \in Readers
    BY DEF CatalogueTyped, CatalogueInv, RowsOK, Rows, ReadersOK, Quiet, Readers
  <1>1. ASSUME NEW o \in Ops, Upload(o) \/ Finish(o) \/ \E by \in Tabs : Click(o, by)
        PROVE  ReadersOK'
    <2>1. /\ UNCHANGED <<wanted, reader>> /\ list' \in {list, {}}
          /\ specs' \in {specs, {}}
      BY <1>1 DEF Upload, Finish, Click, ReadImage, Reject, Copy, DropPending, SaveImage,
         CountFiles, SaveFile, PutAgain, ConfirmAgain, DeleteRow, SweepImage, SweepRemoved,
         Sweep, DropList, Answer, GiveUp, PutImage, PutFile, Put, Create, Edit, ReadAll,
         Elsewhere
    <2> QED
      BY <1>0, <2>1 DEF ReadersOK
  <1>2. CASE Refer \/ Expire
    BY <1>0, <1>2 DEF Refer, Expire, ReadersOK
  <1>3. ASSUME NEW r \in Readers, Hit(r) \/ Miss(r) \/ CacheList(r)
        PROVE  ReadersOK'
    <2>1. PICK s \in Reading : reader' = [reader EXCEPT ![r] = s]
      <3>1. ASSUME NEW got \in SUBSET Rows, Told(r, got)
            PROVE  \E s \in Reading : reader' = [reader EXCEPT ![r] = s]
        <4>1. [pc |-> "answered", got |-> got] \in Reading
          OBVIOUS
        <4> QED
          BY <1>0, <3>1, <4>1 DEF Told
      <3>2. CASE Hit(r)
        BY <1>0, <3>1, <3>2 DEF Hit, ReadersOK
      <3>3. CASE Miss(r)
        <4>1. reader' = [reader EXCEPT ![r] = [pc |-> "fetched", got |-> {service}]]
          BY <3>3 DEF Miss
        <4>2. [pc |-> "fetched", got |-> {service}] \in Reading
          BY <1>0
        <4> QED
          BY <4>1, <4>2
      <3>4. CASE CacheList(r)
        <4>1. reader[r].got \in SUBSET Rows
          BY <1>0
        <4> QED
          BY <3>1, <3>4, <4>1 DEF CacheList
      <3> QED
        BY <1>3, <3>2, <3>3, <3>4
    <2>2. reader' \in [Readers -> Reading]
      BY <1>0, <2>1
    <2>3. UNCHANGED <<wanted, specs>> /\ list' \subseteq Rows
      BY <1>0, <1>3 DEF Hit, Miss, CacheList, ReadersOK
    <2> QED
      BY <1>0, <2>2, <2>3 DEF ReadersOK
  <1>4. CASE Land
    <2>1. /\ reader' = [reader EXCEPT !["tab"] = Quiet]
          /\ specs' \in {specs, reader["tab"].got} /\ UNCHANGED <<wanted, list>>
      BY <1>4 DEF Land
    <2>2. reader' \in [Readers -> Reading] /\ reader["tab"].got \subseteq Rows
      BY <1>0, <2>1
    <2> QED
      BY <1>0, <2>1, <2>2 DEF ReadersOK
  <1>5. CASE UNCHANGED vars
    BY <1>0, <1>5 DEF ReadersOK, vars
  <1> QED
    BY <1>1, <1>2, <1>3, <1>4, <1>5 DEF Next, Ask

\* The catalogue keeps its types: the row, its files and their versions, the bucket,
\* the operations, and what the caches and readers hold (ServicesController,
\* specsPrefetch), however many operations there are.
THEOREM CatalogueTypeCorrect == Spec => []TypeOK
  <1>1. Init => CatalogueTyped
    BY TypedInit
  <1>2. CatalogueTyped /\ [Next]_vars => CatalogueTyped'
    BY CatalogueStep, CountedStep, ReadersStep DEF CatalogueTyped
  <1>3. CatalogueTyped => TypeOK
    <2> SUFFICES ASSUME CatalogueTyped PROVE TypeOK
      OBVIOUS
    <2>1. /\ service \in Rows /\ pending \subseteq Ops /\ stored \subseteq Keys
          /\ files \subseteq [id : Ops, key : Ops, version : Nat]
          /\ op \in [Ops -> OpStates]
      BY DEF CatalogueTyped, CatalogueInv, RowsOK, Rows
    <2>2. files \subseteq FileRows
      BY <2>1 DEF CatalogueTyped, Counted, FileRows
    <2>3. op \in [Ops -> [kind : Kinds \cup {"none"}, by : Tabs \cup {"api"},
                     key : Ops \cup {NoKey},
                     pc : {"idle", "put", "read", "copied", "promoted", "counted",
                           "saved", "swept", "answered", "done", "failed"},
                     old : SUBSET Keys, count : 0..MaxOps]]
      <3>1. \A o \in Ops : op[o] \in OpStates /\ op[o].count \in 0 .. MaxOps
        BY <2>1 DEF CatalogueTyped, Counted
      <3>2. \A s \in OpStates : s.count \in 0 .. MaxOps =>
              s \in [kind : Kinds \cup {"none"}, by : Tabs \cup {"api"},
                     key : Ops \cup {NoKey},
                     pc : {"idle", "put", "read", "copied", "promoted", "counted",
                           "saved", "swept", "answered", "done", "failed"},
                     old : SUBSET Keys, count : 0..MaxOps]
        BY DEF OpStates, Through
      <3> QED
        BY <2>1, <3>1, <3>2
    <2> QED
      BY <2>1, <2>2, <2>3 DEF TypeOK, CatalogueTyped, ReadersOK
  <1> QED
    BY <1>1, <1>2, <1>3, PTL DEF Spec

-----------------------------------------------------------------------------
(* The candidate's uploads.                                                   *)

\* An attempt that is past the creation of its upload.
Begun(a) == run[a].pc \notin {"unused", "create"}
\* The attempts that are past part n of the upload u.
Passed(u, n) == {a \in Attempts : run[a].up = u /\ run[a].at > n}

\* Whatever calls or keeps an upload has the file the upload began with.
RunsPaired == \A a \in Attempts :
  /\ run[a].pc # "unused" => run[a].file # None
  /\ run[a].pc \in {"unused", "create"} => run[a].up = None
  /\ run[a].pc \in {"part", "confirm"} => run[a].up # None
  /\ run[a].up # None => Begun(run[a].up) /\ run[a].file = run[run[a].up].file
KeptPaired == \A k \in DocumentKinds :
  /\ kept[k].file = None => kept[k].up = None
  /\ kept[k].up # None => Begun(kept[k].up) /\ kept[k].file = run[kept[k].up].file

\* An upload holds the bytes of that file and no other.
BytesPaired == \A u \in Attempts :
  /\ ~ Begun(u) => object[u] = "none"
  /\ \A n \in Parts :
       /\ part[u][n] \in {None, run[u].file}
       /\ ~ Begun(u) => part[u][n] = None /\ acked[u][n] = 0
       /\ acked[u][n] > 0 => part[u][n] = run[u].file
  /\ object[u] \in {"pending", "promoted"} => \A n \in Parts : part[u][n] = run[u].file

\* A part is reported at most once by each attempt.
AckedOncePerRun == \A u \in Attempts : \A n \in Parts :
  acked[u][n] <= Cardinality(Passed(u, n))

UploadsInv == /\ UploadsTypeOK /\ RunsPaired /\ KeptPaired /\ BytesPaired
              /\ AckedOncePerRun

-----------------------------------------------------------------------------
LEMMA UploadNumbers == /\ None \notin Attempts /\ IsFiniteSet(Attempts)
                       /\ Cardinality(Attempts) = MaxAttempts
                       /\ NumParts + 1 \in Nat /\ 1 \in 1..(NumParts + 1)
                       /\ Attempts \subseteq Nat /\ Parts \subseteq 1..(NumParts + 1)
                       /\ MaxAttempts \in Nat
  <1>1. IsFiniteSet(1..MaxAttempts) /\ Cardinality(1..MaxAttempts) = MaxAttempts
    <2>1. 1..MaxAttempts = IF MaxAttempts < 1 THEN {} ELSE 1..MaxAttempts
      BY UploadsAssumption
    <2> QED
      BY FS_Interval, UploadsAssumption
  <1> QED
    BY <1>1, UploadsAssumption DEF None, Attempts, Parts

LEMMA PassedFinite ==
  ASSUME NEW u \in Attempts, NEW n \in Parts
  PROVE  /\ IsFiniteSet(Passed(u, n)) /\ Cardinality(Passed(u, n)) \in Nat
         /\ Cardinality(Passed(u, n)) <= MaxAttempts
  <1>1. Passed(u, n) \subseteq Attempts
    BY DEF Passed
  <1> QED
    BY <1>1, UploadNumbers, FS_Subset, FS_CardinalityType

LEMMA UploadsInitInv == UploadsInit => UploadsInv
  <1> SUFFICES ASSUME UploadsInit PROVE UploadsInv
    OBVIOUS
  <1> USE UploadNumbers
  <1>1. Unused \in RunStates /\ Nothing \in KeptStates
    BY DEF Unused, Nothing, RunStates, KeptStates, DocumentKinds
  <1>2. UploadsTypeOK
    BY <1>1, UploadsAssumption DEF UploadsInit, UploadsTypeOK
  <1>3. RunsPaired /\ KeptPaired
    BY DEF UploadsInit, RunsPaired, KeptPaired, Unused, Nothing
  <1>4. BytesPaired
    BY DEF UploadsInit, BytesPaired
  <1>5. AckedOncePerRun
    <2> SUFFICES ASSUME NEW u \in Attempts, NEW n \in Parts
                 PROVE  acked[u][n] <= Cardinality(Passed(u, n))
      BY DEF AckedOncePerRun
    <2>1. acked[u][n] = 0
      BY DEF UploadsInit
    <2> QED
      BY <2>1, PassedFinite, 0 <= Cardinality(Passed(u, n))
  <1> QED
    BY <1>2, <1>3, <1>4, <1>5 DEF UploadsInv

\* An attempt takes on the state s.
RunTakes(a, s) == run' = [run EXCEPT ![a] = s]

\* Uploads that have begun go on to exist, and keep their file.
FilesStay == \A u \in Attempts :
  Begun(u) => Begun(u)' /\ run'[u].file = run[u].file

\* A state that keeps its attempt paired.
LEMMA RunPairs ==
  ASSUME UploadsInv, NEW a \in Attempts, NEW s \in RunStates, RunTakes(a, s),
         Begun(a) => s.pc \notin {"unused", "create"},
         run[a].pc # "unused" => s.file = run[a].file,
         s.pc # "unused" => s.file # None,
         s.pc \in {"unused", "create"} => s.up = None,
         s.pc \in {"part", "confirm"} => s.up # None,
         s.up # None => s.up = a \/ (Begun(s.up) /\ s.file = run[s.up].file)
  PROVE  /\ run' \in [Attempts -> RunStates] /\ run'[a] = s
         /\ \A b \in Attempts \ {a} : run'[b] = run[b]
         /\ FilesStay /\ RunsPaired'
  <1>1. /\ run' \in [Attempts -> RunStates] /\ run'[a] = s
        /\ \A b \in Attempts \ {a} : run'[b] = run[b]
    BY DEF UploadsInv, UploadsTypeOK, RunTakes
  <1>2. FilesStay
    BY <1>1 DEF FilesStay, Begun
  <1>3. s.up \in {None} \cup Attempts
    BY DEF RunStates
  <1>4. \A b \in Attempts : run[b] \in RunStates
    BY DEF UploadsInv, UploadsTypeOK
  <1>5. ASSUME NEW b \in Attempts, run'[b].up # None
        PROVE  /\ run'[run'[b].up].pc \notin {"unused", "create"}
               /\ run'[b].file = run'[run'[b].up].file
    <2>1. CASE b # a
      <3>1. run'[b] = run[b]
        BY <1>1, <2>1
      <3>2. Begun(run[b].up) /\ run[b].file = run[run[b].up].file
        BY <3>1, <1>5 DEF UploadsInv, RunsPaired
      <3>3. run[b].up \in Attempts
        BY <3>1, <1>4, <1>5 DEF RunStates
      <3> QED
        BY <3>1, <3>2, <3>3, <1>2 DEF FilesStay, Begun
    <2>2. CASE b = a
      <3>1. run'[b] = s /\ s.up # None
        BY <1>1, <1>5, <2>2
      <3>2. CASE s.up = a
        BY <3>1, <3>2, <1>1 DEF Begun
      <3>3. CASE Begun(s.up) /\ s.file = run[s.up].file
        BY <3>1, <3>3, <1>2, <1>3 DEF FilesStay, Begun
      <3> QED
        BY <3>1, <3>2, <3>3
    <2> QED
      BY <2>1, <2>2
  <1>6. \A b \in Attempts :
          /\ run'[b].pc # "unused" => run'[b].file # None
          /\ run'[b].pc \in {"unused", "create"} => run'[b].up = None
          /\ run'[b].pc \in {"part", "confirm"} => run'[b].up # None
    BY <1>1 DEF UploadsInv, RunsPaired
  <1> QED
    BY <1>1, <1>2, <1>5, <1>6 DEF RunsPaired, Begun

LEMMA KeptStays ==
  ASSUME UploadsInv, FilesStay, UNCHANGED kept
  PROVE  KeptPaired'
  BY DEF UploadsInv, UploadsTypeOK, KeptStates, KeptPaired, FilesStay

\* What a kind keeps is paired when the attempt it comes from is.
LEMMA KeptPairs ==
  ASSUME UploadsInv, FilesStay, NEW k \in DocumentKinds, NEW e \in KeptStates,
         kept' = [kept EXCEPT ![k] = e],
         e.file = None => e.up = None,
         e.up # None => Begun(e.up) /\ e.file = run[e.up].file
  PROVE  KeptPaired' /\ kept' \in [DocumentKinds -> KeptStates]
  <1>1. /\ kept' \in [DocumentKinds -> KeptStates] /\ kept'[k] = e
        /\ \A j \in DocumentKinds \ {k} : kept'[j] = kept[j]
    BY DEF UploadsInv, UploadsTypeOK
  <1>2. ASSUME NEW j \in DocumentKinds
        PROVE  /\ kept'[j].file = None => kept'[j].up = None
               /\ kept'[j].up # None =>
                    Begun(kept'[j].up) /\ kept'[j].file = run[kept'[j].up].file
    BY <1>1 DEF UploadsInv, KeptPaired
  <1>3. \A j \in DocumentKinds : kept'[j].up \in {None} \cup Attempts
    BY <1>1 DEF KeptStates
  <1> QED
    BY <1>1, <1>2, <1>3 DEF KeptPaired, FilesStay

LEMMA BytesStay ==
  ASSUME UploadsInv, FilesStay, UNCHANGED <<part, acked, object>>
  PROVE  BytesPaired'
  <1> SUFFICES ASSUME NEW u \in Attempts
               PROVE  /\ ~ Begun(u)' => object[u] = "none"
                      /\ \A n \in Parts :
                           /\ part[u][n] \in {None, run'[u].file}
                           /\ ~ Begun(u)' => part[u][n] = None /\ acked[u][n] = 0
                           /\ acked[u][n] > 0 => part[u][n] = run'[u].file
                      /\ object[u] \in {"pending", "promoted"}
                           => \A n \in Parts : part[u][n] = run'[u].file
    BY DEF BytesPaired
  <1>1. CASE Begun(u)
    BY <1>1 DEF UploadsInv, BytesPaired, FilesStay
  <1>2. CASE ~ Begun(u)
    <2>1. object[u] = "none" /\ \A n \in Parts : part[u][n] = None /\ acked[u][n] = 0
      BY <1>2 DEF UploadsInv, BytesPaired
    <2> QED
      BY <2>1
  <1> QED
    BY <1>1, <1>2

\* No attempt goes back over a part.
LEMMA PassedGrows ==
  ASSUME UploadsInv, run' \in [Attempts -> RunStates],
         \A b \in Attempts : run[b].up # None =>
            run'[b].up = run[b].up /\ run'[b].at >= run[b].at,
         NEW u \in Attempts, NEW n \in Parts
  PROVE  /\ Passed(u, n) \subseteq Passed(u, n)' /\ IsFiniteSet(Passed(u, n)')
         /\ Cardinality(Passed(u, n)') \in 0..MaxAttempts
         /\ Cardinality(Passed(u, n)) <= Cardinality(Passed(u, n)')
  <1>1. \A b \in Attempts : run[b].at \in Nat /\ run'[b].at \in Nat
    BY UploadNumbers DEF UploadsInv, UploadsTypeOK, RunStates
  <1>2. Passed(u, n) \subseteq Passed(u, n)'
    <2> SUFFICES ASSUME NEW b \in Passed(u, n) PROVE b \in Passed(u, n)'
      OBVIOUS
    <2>1. b \in Attempts /\ run[b].up = u /\ run[b].at > n
      BY DEF Passed
    <2>2. run'[b].up = u /\ run'[b].at >= run[b].at
      BY <2>1, UploadNumbers
    <2>3. n \in Nat
      BY UploadNumbers DEF Parts
    <2> QED
      BY <1>1, <2>1, <2>2, <2>3 DEF Passed
  <1>3. Passed(u, n)' \subseteq Attempts
    BY DEF Passed
  <1>4. IsFiniteSet(Passed(u, n)') /\ Cardinality(Passed(u, n)') <= MaxAttempts
    BY <1>3, UploadNumbers, FS_Subset
  <1>5. Cardinality(Passed(u, n)) <= Cardinality(Passed(u, n)')
    BY <1>2, <1>4, FS_Subset
  <1>6. Cardinality(Passed(u, n)') \in Nat
    BY <1>4, FS_CardinalityType
  <1> QED
    BY <1>2, <1>4, <1>5, <1>6, UploadNumbers

LEMMA AckedStays ==
  ASSUME UploadsInv, UNCHANGED acked,
         \A b \in Attempts : run[b].up # None =>
            run'[b].up = run[b].up /\ run'[b].at >= run[b].at,
         run' \in [Attempts -> RunStates]
  PROVE  AckedOncePerRun'
  <1> SUFFICES ASSUME NEW u \in Attempts, NEW n \in Parts
               PROVE  acked[u][n] <= Cardinality(Passed(u, n)')
    BY DEF AckedOncePerRun
  <1>1. /\ Cardinality(Passed(u, n)') \in 0..MaxAttempts
        /\ Cardinality(Passed(u, n)) <= Cardinality(Passed(u, n)')
    BY PassedGrows
  <1>2. acked[u][n] \in Nat /\ acked[u][n] <= Cardinality(Passed(u, n))
    BY DEF UploadsInv, UploadsTypeOK, AckedOncePerRun
  <1> QED
    BY <1>1, <1>2, PassedFinite, UploadNumbers

-----------------------------------------------------------------------------
\* Steps that leave the tab and the parts alone.
LEMMA TabStays ==
  ASSUME UploadsInv, UNCHANGED tab
  PROVE  FilesStay /\ RunsPaired' /\ KeptPaired'
  BY DEF UploadsInv, FilesStay, tab, Begun, RunsPaired, KeptPaired

LEMMA AckedStaysWithTab ==
  ASSUME UploadsInv, UNCHANGED tab
  PROVE  AckedOncePerRun'
  BY DEF UploadsInv, tab, AckedOncePerRun, Passed

\* An attempt that starts: it is paired when what it resumes is.
LEMMA PerformPairs ==
  ASSUME UploadsInv, NEW a \in Attempts, NEW k \in DocumentKinds,
         NEW f \in Attempts, NEW u \in {None} \cup Attempts,
         NextRun(a), Perform(a, k, f, u),
         u # None => Begun(u) /\ f = run[u].file
  PROVE  /\ run' \in [Attempts -> RunStates] /\ FilesStay /\ RunsPaired'
         /\ \A b \in Attempts : run[b].up # None =>
              run'[b].up = run[b].up /\ run'[b].at >= run[b].at
         /\ busy' \in DocumentKinds \cup {"none"} /\ error' \subseteq DocumentKinds
  <1>1. PICK s : s = [kind |-> k, file |-> f, up |-> u, at |-> 1,
                      pc |-> IF u = None THEN "create" ELSE "part",
                      skip |-> IF u = None THEN {} ELSE Parted(u)]
    OBVIOUS
  <1>2. s \in RunStates
    BY <1>1, UploadNumbers DEF RunStates, Parted
  <1>3. RunTakes(a, s)
    BY <1>1 DEF Perform, RunTakes
  <1>4. run[a].pc = "unused" /\ run[a].up = None
    BY DEF NextRun, Unstarted, UploadsInv, RunsPaired
  <1>5. /\ s.file = f /\ s.up = u /\ s.pc # "unused" /\ f # None
        /\ u = None => s.pc = "create"
        /\ u # None => s.pc = "part"
    BY <1>1, UploadNumbers
  <1>6. /\ run' \in [Attempts -> RunStates] /\ run'[a] = s
        /\ \A b \in Attempts \ {a} : run'[b] = run[b]
        /\ FilesStay /\ RunsPaired'
    <2>1. ~ Begun(a)
      BY <1>4 DEF Begun
    <2>2. s.pc \in {"unused", "create"} => s.up = None
      BY <1>5
    <2>3. s.pc \in {"part", "confirm"} => s.up # None
      BY <1>5
    <2>4. s.up # None => s.up = a \/ (Begun(s.up) /\ s.file = run[s.up].file)
      BY <1>5
    <2> QED
      BY <1>2, <1>3, <1>4, <1>5, <2>1, <2>2, <2>3, <2>4, RunPairs
  <1>7. \A b \in Attempts : run[b].at \in Nat
    BY UploadNumbers DEF UploadsInv, UploadsTypeOK, RunStates
  <1>8. busy' \in DocumentKinds \cup {"none"} /\ error' \subseteq DocumentKinds
    BY DEF Perform, UploadsInv, UploadsTypeOK
  <1> QED
    BY <1>4, <1>6, <1>7, <1>8

LEMMA PickInv ==
  ASSUME UploadsInv, NEW a \in Attempts, NEW k \in DocumentKinds, Pick(a, k)
  PROVE  UploadsInv'
  <1>1. NextRun(a) /\ Perform(a, k, a, None)
    BY DEF Pick
  <1>2. /\ run' \in [Attempts -> RunStates] /\ FilesStay /\ RunsPaired'
        /\ \A b \in Attempts : run[b].up # None =>
             run'[b].up = run[b].up /\ run'[b].at >= run[b].at
        /\ busy' \in DocumentKinds \cup {"none"} /\ error' \subseteq DocumentKinds
    BY <1>1, PerformPairs
  <1>3. KeptPaired' /\ kept' \in [DocumentKinds -> KeptStates]
    <2>1. PICK e : e = [file |-> a, up |-> None]
      OBVIOUS
    <2>2. e \in KeptStates /\ e.up = None /\ kept' = [kept EXCEPT ![k] = e]
      BY <2>1 DEF KeptStates, Pick
    <2> QED
      BY <1>2, <2>2, KeptPairs
  <1>4. UNCHANGED <<acked, part, object, confirm, photo, others, requested, requests>>
    BY DEF Pick, s3, app
  <1>5. BytesPaired' /\ AckedOncePerRun'
    BY <1>2, <1>4, BytesStay, AckedStays
  <1>6. UploadsTypeOK'
    BY <1>2, <1>3, <1>4 DEF UploadsInv, UploadsTypeOK
  <1> QED
    BY <1>2, <1>3, <1>5, <1>6 DEF UploadsInv

LEMMA RetryInv ==
  ASSUME UploadsInv, NEW a \in Attempts, NEW k \in DocumentKinds, Retry(a, k)
  PROVE  UploadsInv'
  <1>1. NextRun(a) /\ kept[k] # Nothing /\ Perform(a, k, kept[k].file, kept[k].up)
    BY DEF Retry
  <1>2. kept[k] \in KeptStates
    BY DEF UploadsInv, UploadsTypeOK
  <1>3. kept[k].file \in Attempts /\ kept[k].up \in {None} \cup Attempts
    <2>1. kept[k].file = None => kept[k] = Nothing
      BY <1>2 DEF UploadsInv, KeptPaired, KeptStates, Nothing
    <2> QED
      BY <1>1, <1>2, <2>1 DEF KeptStates
  <1>4. kept[k].up # None => Begun(kept[k].up) /\ kept[k].file = run[kept[k].up].file
    BY DEF UploadsInv, KeptPaired
  <1>5. /\ run' \in [Attempts -> RunStates] /\ FilesStay /\ RunsPaired'
        /\ \A b \in Attempts : run[b].up # None =>
             run'[b].up = run[b].up /\ run'[b].at >= run[b].at
        /\ busy' \in DocumentKinds \cup {"none"} /\ error' \subseteq DocumentKinds
    BY <1>1, <1>3, <1>4, PerformPairs
  <1>6. UNCHANGED <<kept, acked, part, object, confirm, photo, others, requested, requests>>
    BY DEF Retry, s3, app
  <1>7. KeptPaired' /\ BytesPaired' /\ AckedOncePerRun'
    BY <1>5, <1>6, KeptStays, BytesStay, AckedStays
  <1>8. UploadsTypeOK'
    BY <1>5, <1>6 DEF UploadsInv, UploadsTypeOK
  <1> QED
    BY <1>5, <1>7, <1>8 DEF UploadsInv

LEMMA PickBadFileInv ==
  ASSUME UploadsInv, NEW k \in DocumentKinds, PickBadFile(k)
  PROVE  UploadsInv'
  <1>1. /\ UNCHANGED <<run, busy, kept, acked, part, object, confirm, photo, others>>
        /\ UNCHANGED <<requested, requests>> /\ error' \subseteq DocumentKinds
    BY DEF PickBadFile, s3, app, UploadsInv, UploadsTypeOK
  <1>2. RunsPaired' /\ KeptPaired' /\ BytesPaired' /\ AckedOncePerRun'
    BY <1>1 DEF UploadsInv, RunsPaired, KeptPaired, BytesPaired, AckedOncePerRun,
                Begun, Passed
  <1>3. UploadsTypeOK'
    BY <1>1 DEF UploadsInv, UploadsTypeOK
  <1> QED
    BY <1>2, <1>3 DEF UploadsInv

LEMMA CreateUploadInv ==
  ASSUME UploadsInv, NEW a \in Attempts, CreateUpload(a)
  PROVE  UploadsInv'
  <1>1. PICK s : s = [run[a] EXCEPT !.pc = "part", !.up = a]
    OBVIOUS
  <1>2. /\ run[a] \in RunStates /\ run[a].pc = "create" /\ run[a].up = None
        /\ run[a].file # None /\ a # None
    BY UploadNumbers DEF CreateUpload, UploadsInv, UploadsTypeOK, RunsPaired
  <1>3. s \in RunStates /\ s.file = run[a].file /\ s.pc = "part" /\ s.up = a
    BY <1>1, <1>2 DEF RunStates
  <1>4. RunTakes(a, s)
    BY <1>1 DEF CreateUpload, RunTakes
  <1>5. ~ Begun(a)
    BY <1>2 DEF Begun
  <1>6. /\ run' \in [Attempts -> RunStates] /\ run'[a] = s
        /\ \A b \in Attempts \ {a} : run'[b] = run[b]
        /\ FilesStay /\ RunsPaired'
    BY <1>2, <1>3, <1>4, <1>5, RunPairs
  <1>7. /\ UNCHANGED <<busy, kept, error, acked, part, confirm, photo, others>>
        /\ UNCHANGED <<requested, requests>>
        /\ object' = [object EXCEPT ![a] = "open"]
    BY DEF CreateUpload, OpenUpload, app
  <1>8. object[a] = "none"
    BY <1>5 DEF UploadsInv, BytesPaired
  <1>9. /\ object' \in [Attempts -> {"none", "open", "pending", "promoted"}]
        /\ object'[a] = "open" /\ \A u \in Attempts \ {a} : object'[u] = object[u]
    BY <1>7 DEF UploadsInv, UploadsTypeOK
  <1>10. BytesPaired'
    <2> SUFFICES ASSUME NEW u \in Attempts
                 PROVE  /\ ~ Begun(u)' => object'[u] = "none"
                        /\ \A n \in Parts :
                             /\ part[u][n] \in {None, run'[u].file}
                             /\ ~ Begun(u)' => part[u][n] = None /\ acked[u][n] = 0
                             /\ acked[u][n] > 0 => part[u][n] = run'[u].file
                        /\ object'[u] \in {"pending", "promoted"}
                             => \A n \in Parts : part[u][n] = run'[u].file
      BY <1>7 DEF BytesPaired
    <2>1. CASE u = a
      BY <1>3, <1>5, <1>6, <1>9, <2>1 DEF UploadsInv, BytesPaired, Begun
    <2>2. CASE u # a
      BY <1>6, <1>9, <2>2 DEF UploadsInv, BytesPaired, Begun
    <2> QED
      BY <2>1, <2>2
  <1>12. \A b \in Attempts : run[b].up # None =>
            run'[b].up = run[b].up /\ run'[b].at >= run[b].at
    BY <1>2, <1>6, UploadNumbers DEF UploadsInv, UploadsTypeOK, RunStates
  <1>13. KeptPaired' /\ AckedOncePerRun'
    BY <1>6, <1>7, <1>12, KeptStays, AckedStays
  <1>14. UploadsTypeOK'
    BY <1>6, <1>7, <1>9 DEF UploadsInv, UploadsTypeOK
  <1> QED
    BY <1>6, <1>10, <1>13, <1>14 DEF UploadsInv

LEMMA SkipInv ==
  ASSUME UploadsInv, NEW a \in Attempts, Skip(a)
  PROVE  UploadsInv'
  <1>1. PICK s : s = [run[a] EXCEPT !.at = run[a].at + 1]
    OBVIOUS
  <1>2. /\ run[a] \in RunStates /\ run[a].pc = "part" /\ run[a].at \in Parts
    BY DEF Skip, UploadsInv, UploadsTypeOK, RunStates
  <1>3. /\ s \in RunStates /\ s.file = run[a].file /\ s.pc = "part"
        /\ s.up = run[a].up /\ s.at = run[a].at + 1
    BY <1>1, <1>2, UploadsAssumption DEF RunStates, Parts
  <1>4. RunTakes(a, s)
    BY <1>1 DEF Skip, RunTakes
  <1>5. s.file # None /\ s.up # None /\ Begun(s.up) /\ s.file = run[s.up].file
    BY <1>2, <1>3 DEF UploadsInv, RunsPaired
  <1>6. /\ run' \in [Attempts -> RunStates] /\ run'[a] = s
        /\ \A b \in Attempts \ {a} : run'[b] = run[b]
        /\ FilesStay /\ RunsPaired'
    BY <1>2, <1>3, <1>4, <1>5, RunPairs
  <1>7. /\ UNCHANGED <<busy, kept, error, acked, part, object, confirm, photo, others>>
        /\ UNCHANGED <<requested, requests>>
    BY DEF Skip, s3, app
  <1>8. \A b \in Attempts : run[b].up # None =>
            run'[b].up = run[b].up /\ run'[b].at >= run[b].at
    BY <1>2, <1>3, <1>6, UploadNumbers DEF UploadsInv, UploadsTypeOK, RunStates
  <1>9. KeptPaired' /\ BytesPaired' /\ AckedOncePerRun'
    BY <1>6, <1>7, <1>8, KeptStays, BytesStay, AckedStays
  <1>10. UploadsTypeOK'
    BY <1>6, <1>7 DEF UploadsInv, UploadsTypeOK
  <1> QED
    BY <1>6, <1>9, <1>10 DEF UploadsInv

-----------------------------------------------------------------------------
\* performUpload fails: what it keeps is its own upload with its own file.
LEMMA FailedPairs ==
  ASSUME UploadsInv, NEW a \in Attempts, Failed(a),
         run[a].pc \in {"create", "part", "confirm"}
  PROVE  /\ run' \in [Attempts -> RunStates] /\ FilesStay /\ RunsPaired'
         /\ \A b \in Attempts : run[b].up # None =>
              run'[b].up = run[b].up /\ run'[b].at >= run[b].at
         /\ KeptPaired' /\ kept' \in [DocumentKinds -> KeptStates]
         /\ busy' \in DocumentKinds \cup {"none"} /\ error' \subseteq DocumentKinds
  <1>1. PICK s : s = [run[a] EXCEPT !.pc = "failed"]
    OBVIOUS
  <1>2. /\ run[a] \in RunStates /\ run[a].pc # "unused" /\ run[a].file # None
        /\ run[a].up # None => Begun(run[a].up) /\ run[a].file = run[run[a].up].file
    BY DEF UploadsInv, UploadsTypeOK, RunsPaired
  <1>3. /\ s \in RunStates /\ s.file = run[a].file /\ s.pc = "failed"
        /\ s.up = run[a].up /\ s.at = run[a].at
    BY <1>1, <1>2 DEF RunStates
  <1>4. RunTakes(a, s)
    BY <1>1 DEF Failed, RunTakes
  <1>5. s.up # None => Begun(s.up) /\ s.file = run[s.up].file
    BY <1>2, <1>3
  <1>6. /\ run' \in [Attempts -> RunStates] /\ run'[a] = s
        /\ \A b \in Attempts \ {a} : run'[b] = run[b]
        /\ FilesStay /\ RunsPaired'
    BY <1>2, <1>3, <1>4, <1>5, RunPairs
  <1>7. KeptPaired' /\ kept' \in [DocumentKinds -> KeptStates]
    <2>1. PICK k : k = run[a].kind
      OBVIOUS
    <2>2. PICK e : e = [file |-> run[a].file,
                        up |-> IF run[a].pc = "part" THEN run[a].up ELSE None]
      OBVIOUS
    <2>3. k \in DocumentKinds /\ e \in KeptStates /\ e.file # None
      BY <1>2, <2>1, <2>2 DEF RunStates, KeptStates
    <2>4. kept' = [kept EXCEPT ![k] = e]
      BY <2>1, <2>2 DEF Failed
    <2>5. e.up # None => Begun(e.up) /\ e.file = run[e.up].file
      BY <1>2, <2>2
    <2> QED
      BY <1>6, <2>3, <2>4, <2>5, KeptPairs
  <1>8. \A b \in Attempts : run[b].up # None =>
          run'[b].up = run[b].up /\ run'[b].at >= run[b].at
    BY <1>3, <1>6, UploadNumbers DEF UploadsInv, UploadsTypeOK, RunStates
  <1>9. busy' \in DocumentKinds \cup {"none"} /\ error' \subseteq DocumentKinds
    BY <1>2 DEF Failed, RunStates, UploadsInv, UploadsTypeOK
  <1> QED
    BY <1>6, <1>7, <1>8, <1>9

LEMMA FailInv ==
  ASSUME UploadsInv, NEW a \in Attempts, Fail(a)
  PROVE  UploadsInv'
  <1>1. /\ run' \in [Attempts -> RunStates] /\ FilesStay /\ RunsPaired'
        /\ \A b \in Attempts : run[b].up # None =>
             run'[b].up = run[b].up /\ run'[b].at >= run[b].at
        /\ KeptPaired' /\ kept' \in [DocumentKinds -> KeptStates]
        /\ busy' \in DocumentKinds \cup {"none"} /\ error' \subseteq DocumentKinds
    BY FailedPairs DEF Fail
  <1>2. UNCHANGED <<acked, part, object, confirm, photo, others, requested, requests>>
    BY DEF Fail, s3, app
  <1>3. BytesPaired' /\ AckedOncePerRun'
    BY <1>1, <1>2, BytesStay, AckedStays
  <1>4. UploadsTypeOK'
    BY <1>1, <1>2 DEF UploadsInv, UploadsTypeOK
  <1> QED
    BY <1>1, <1>3, <1>4 DEF UploadsInv

\* A part that is stored anew is a part of the upload's own file.
LEMMA StoredPairs ==
  ASSUME UploadsInv, NEW a \in Attempts, NextPart(a),
         StorePart(run[a].up, run[a].at, run[a].file)
  PROVE  /\ run[a].up \in Attempts /\ run[a].at \in Parts /\ Begun(run[a].up)
         /\ part' \in [Attempts -> [Parts -> {None} \cup Attempts]]
         /\ \A u \in Attempts : \A n \in Parts :
              /\ part'[u][n] \in {None, run[u].file}
              /\ ~ Begun(u) => part'[u][n] = None
              /\ part[u][n] = run[u].file => part'[u][n] = run[u].file
              /\ u = run[a].up /\ n = run[a].at => part'[u][n] = run[u].file
  <1>1. PICK v : v = run[a].up
    OBVIOUS
  <1>2. PICK m : m = run[a].at
    OBVIOUS
  <1>3. PICK f : f = run[a].file
    OBVIOUS
  <1>4. run[a] \in RunStates
    BY DEF UploadsInv, UploadsTypeOK
  <1>5. /\ v \in Attempts /\ m \in Parts /\ f \in Attempts
        /\ Begun(v) /\ f = run[v].file
    BY <1>1, <1>2, <1>3, <1>4 DEF NextPart, RunStates, UploadsInv, RunsPaired
  <1>6. part' = [part EXCEPT ![v][m] = f]
    BY <1>1, <1>2, <1>3 DEF StorePart
  <1>7. part \in [Attempts -> [Parts -> {None} \cup Attempts]]
    BY DEF UploadsInv, UploadsTypeOK
  <1>8. part' \in [Attempts -> [Parts -> {None} \cup Attempts]]
    BY <1>5, <1>6, <1>7
  <1>9. \A u \in Attempts : \A n \in Parts :
          part'[u][n] = IF u = v /\ n = m THEN f ELSE part[u][n]
    BY <1>5, <1>6, <1>7
  <1>10. ASSUME NEW u \in Attempts, NEW n \in Parts
         PROVE  /\ part'[u][n] \in {None, run[u].file}
                /\ ~ Begun(u) => part'[u][n] = None
                /\ part[u][n] = run[u].file => part'[u][n] = run[u].file
                /\ u = v /\ n = m => part'[u][n] = run[u].file
    BY <1>5, <1>9 DEF UploadsInv, BytesPaired
  <1> QED
    BY <1>1, <1>2, <1>5, <1>8, <1>10

LEMMA PutPartInv ==
  ASSUME UploadsInv, NEW a \in Attempts, PutPart(a)
  PROVE  UploadsInv'
  <1>1. PICK v : v = run[a].up
    OBVIOUS
  <1>2. PICK m : m = run[a].at
    OBVIOUS
  <1>3. NextPart(a) /\ StorePart(run[a].up, run[a].at, run[a].file)
    BY DEF PutPart
  <1>4. /\ v \in Attempts /\ m \in Parts /\ Begun(v)
        /\ part' \in [Attempts -> [Parts -> {None} \cup Attempts]]
        /\ \A u \in Attempts : \A n \in Parts :
             /\ part'[u][n] \in {None, run[u].file}
             /\ ~ Begun(u) => part'[u][n] = None
             /\ part[u][n] = run[u].file => part'[u][n] = run[u].file
             /\ u = v /\ n = m => part'[u][n] = run[u].file
    BY <1>1, <1>2, <1>3, StoredPairs
  <1>5. UNCHANGED <<object, confirm, photo, others, requested, requests>>
    BY DEF PutPart, app
  <1>7. run[a].pc = "part" /\ run[a] \in RunStates /\ run[a].at \in Parts
    BY <1>3 DEF NextPart, UploadsInv, UploadsTypeOK
  <1>8. acked \in [Attempts -> [Parts -> 0..MaxAttempts]]
    BY DEF UploadsInv, UploadsTypeOK
  <1>9. ASSUME FilesStay,
               \A u \in Attempts : \A n \in Parts :
                 /\ acked'[u][n] > 0 => acked[u][n] > 0 \/ (u = v /\ n = m)
                 /\ ~ Begun(u) => acked'[u][n] = acked[u][n]
        PROVE  BytesPaired'
    <2> SUFFICES ASSUME NEW u \in Attempts
                 PROVE  /\ ~ Begun(u)' => object'[u] = "none"
                        /\ \A n \in Parts :
                             /\ part'[u][n] \in {None, run'[u].file}
                             /\ ~ Begun(u)' => part'[u][n] = None /\ acked'[u][n] = 0
                             /\ acked'[u][n] > 0 => part'[u][n] = run'[u].file
                        /\ object'[u] \in {"pending", "promoted"}
                             => \A n \in Parts : part'[u][n] = run'[u].file
      BY DEF BytesPaired
    <2>1. CASE Begun(u)
      <3>1. Begun(u)' /\ run'[u].file = run[u].file
        BY <1>9, <2>1 DEF FilesStay
      <3>2. \A n \in Parts : acked'[u][n] > 0 => part'[u][n] = run[u].file
        BY <1>4, <1>9 DEF UploadsInv, BytesPaired
      <3>3. object[u] \in {"pending", "promoted"}
              => \A n \in Parts : part'[u][n] = run[u].file
        BY <1>4 DEF UploadsInv, BytesPaired
      <3> QED
        BY <3>1, <3>2, <3>3, <1>4, <1>5
    <2>2. CASE ~ Begun(u)
      <3>1. /\ object[u] = "none"
            /\ \A n \in Parts : part'[u][n] = None /\ acked'[u][n] = 0
        BY <1>4, <1>9, <2>2 DEF UploadsInv, BytesPaired
      <3> QED
        BY <3>1, <1>5
    <2> QED
      BY <2>1, <2>2
  <1>10. CASE Failed(a) /\ UNCHANGED acked
    <2>1. /\ run' \in [Attempts -> RunStates] /\ FilesStay /\ RunsPaired'
          /\ \A b \in Attempts : run[b].up # None =>
               run'[b].up = run[b].up /\ run'[b].at >= run[b].at
          /\ KeptPaired' /\ kept' \in [DocumentKinds -> KeptStates]
          /\ busy' \in DocumentKinds \cup {"none"} /\ error' \subseteq DocumentKinds
      BY <1>7, <1>10, FailedPairs
    <2>2. BytesPaired'
      BY <1>9, <1>10, <2>1
    <2>3. AckedOncePerRun'
      BY <1>10, <2>1, AckedStays
    <2>4. UploadsTypeOK'
      BY <1>4, <1>5, <1>10, <2>1 DEF UploadsInv, UploadsTypeOK
    <2> QED
      BY <2>1, <2>2, <2>3, <2>4 DEF UploadsInv
  <1>11. CASE /\ run' = [run EXCEPT ![a].at = m + 1]
              /\ acked' = [acked EXCEPT ![v][m] = @ + 1]
              /\ UNCHANGED <<busy, kept, error>>
    <2>1. PICK s : s = [run[a] EXCEPT !.at = m + 1]
      OBVIOUS
    <2>2. /\ s \in RunStates /\ s.file = run[a].file /\ s.pc = "part"
          /\ s.up = v /\ s.at = m + 1
      BY <1>1, <1>2, <1>7, <2>1, UploadsAssumption DEF RunStates, Parts
    <2>3. RunTakes(a, s)
      BY <1>11, <2>1 DEF RunTakes
    <2>4. s.file # None /\ s.up # None /\ Begun(s.up) /\ s.file = run[s.up].file
      BY <1>1, <1>4, <1>7, <2>2, UploadNumbers DEF UploadsInv, RunsPaired
    <2>5. /\ run' \in [Attempts -> RunStates] /\ run'[a] = s
          /\ \A b \in Attempts \ {a} : run'[b] = run[b]
          /\ FilesStay /\ RunsPaired'
      BY <1>7, <2>2, <2>3, <2>4, RunPairs
    <2>6. \A b \in Attempts : run[b].up # None =>
            run'[b].up = run[b].up /\ run'[b].at >= run[b].at
      BY <1>1, <1>2, <1>7, <2>2, <2>5, UploadNumbers
         DEF UploadsInv, UploadsTypeOK, RunStates
    <2>7. acked' \in [Attempts -> [Parts -> Nat]]
      BY <1>4, <1>8, <1>11, UploadNumbers
    <2>8. /\ acked'[v][m] = acked[v][m] + 1
          /\ \A u \in Attempts : \A n \in Parts :
               u # v \/ n # m => acked'[u][n] = acked[u][n]
      BY <1>4, <1>8, <1>11
    <2>9. BytesPaired'
      <3>1. \A u \in Attempts : \A n \in Parts :
              acked'[u][n] > 0 => acked[u][n] > 0 \/ (u = v /\ n = m)
        BY <2>8
      <3>2. \A u \in Attempts : \A n \in Parts :
              ~ Begun(u) => acked'[u][n] = acked[u][n]
        BY <1>4, <2>8
      <3> QED
        BY <1>9, <2>5, <3>1, <3>2
    <2>10. AckedOncePerRun'
      <3> SUFFICES ASSUME NEW u \in Attempts, NEW n \in Parts
                   PROVE  acked'[u][n] <= Cardinality(Passed(u, n)')
        BY DEF AckedOncePerRun
      <3>1. /\ Passed(u, n) \subseteq Passed(u, n)' /\ IsFiniteSet(Passed(u, n)')
            /\ Cardinality(Passed(u, n)') \in 0..MaxAttempts
            /\ Cardinality(Passed(u, n)) <= Cardinality(Passed(u, n)')
        BY <2>5, <2>6, PassedGrows
      <3>2. /\ acked[u][n] \in Nat /\ acked[u][n] <= Cardinality(Passed(u, n))
            /\ IsFiniteSet(Passed(u, n)) /\ Cardinality(Passed(u, n)) \in Nat
        BY <1>8, PassedFinite DEF UploadsInv, AckedOncePerRun
      <3>3. CASE u # v \/ n # m
        BY <2>8, <3>1, <3>2, <3>3, UploadNumbers
      <3>4. CASE u = v /\ n = m
        <4>1. a \notin Passed(u, n)
          BY <1>2, <3>4, UploadNumbers DEF Passed, Parts
        <4>2. a \in Passed(u, n)'
          BY <2>2, <2>5, <3>4, UploadNumbers DEF Passed, Parts
        <4>3. Cardinality(Passed(u, n) \cup {a}) = Cardinality(Passed(u, n)) + 1
          BY <3>2, <4>1, FS_AddElement
        <4>4. Cardinality(Passed(u, n) \cup {a}) <= Cardinality(Passed(u, n)')
          <5>1. Passed(u, n) \cup {a} \subseteq Passed(u, n)'
            BY <3>1, <4>2
          <5> QED
            BY <3>1, <5>1, FS_Subset
        <4>5. acked'[u][n] = acked[u][n] + 1
          BY <2>8, <3>4
        <4> QED
          BY <3>1, <3>2, <4>3, <4>4, <4>5, UploadNumbers
      <3> QED
        BY <3>3, <3>4
    <2>11. acked' \in [Attempts -> [Parts -> 0..MaxAttempts]]
      <3>1. ASSUME NEW u \in Attempts, NEW n \in Parts
            PROVE  acked'[u][n] \in 0..MaxAttempts
        <4>1. acked'[u][n] <= Cardinality(Passed(u, n)')
          BY <2>10 DEF AckedOncePerRun
        <4>2. Cardinality(Passed(u, n)') \in 0..MaxAttempts
          BY <2>5, <2>6, PassedGrows
        <4> QED
          BY <2>7, <4>1, <4>2, UploadNumbers
      <3> QED
        BY <2>7, <3>1
    <2>12. KeptPaired'
      BY <1>11, <2>5, KeptStays
    <2>13. UploadsTypeOK'
      BY <1>4, <1>5, <1>11, <2>5, <2>11 DEF UploadsInv, UploadsTypeOK
    <2> QED
      BY <2>5, <2>9, <2>10, <2>12, <2>13 DEF UploadsInv
  <1> QED
    BY <1>1, <1>2, <1>10, <1>11 DEF PutPart

-----------------------------------------------------------------------------
LEMMA CompleteInv ==
  ASSUME UploadsInv, NEW a \in Attempts, Complete(a)
  PROVE  UploadsInv'
  <1>1. PICK v : v = run[a].up
    OBVIOUS
  <1>2. /\ run[a] \in RunStates /\ run[a].pc = "part"
        /\ run[a].kind \in DocumentKinds
    BY DEF Complete, AllSent, UploadsInv, UploadsTypeOK, RunStates
  <1>3. /\ v \in Attempts /\ Begun(v) /\ run[a].file = run[v].file
        /\ run[a].file # None
    BY <1>1, <1>2 DEF RunStates, UploadsInv, RunsPaired
  <1>4. /\ object[v] = "open" /\ \A n \in Parts : acked[v][n] = 1
        /\ object' = [object EXCEPT ![v] = "pending"]
    BY <1>1 DEF Complete, Assemble
  <1>5. /\ object' \in [Attempts -> {"none", "open", "pending", "promoted"}]
        /\ object'[v] = "pending" /\ \A u \in Attempts \ {v} : object'[u] = object[u]
    BY <1>3, <1>4 DEF UploadsInv, UploadsTypeOK
  <1>6. UNCHANGED <<acked, part, photo, others, requested, requests>>
    BY DEF Complete, app
  <1>7. \A n \in Parts : part[v][n] = run[v].file
    BY <1>3, <1>4 DEF UploadsInv, BytesPaired
  <1>8. ASSUME FilesStay
        PROVE  BytesPaired'
    <2> SUFFICES ASSUME NEW u \in Attempts
                 PROVE  /\ ~ Begun(u)' => object'[u] = "none"
                        /\ \A n \in Parts :
                             /\ part[u][n] \in {None, run'[u].file}
                             /\ ~ Begun(u)' => part[u][n] = None /\ acked[u][n] = 0
                             /\ acked[u][n] > 0 => part[u][n] = run'[u].file
                        /\ object'[u] \in {"pending", "promoted"}
                             => \A n \in Parts : part[u][n] = run'[u].file
      BY <1>6 DEF BytesPaired
    <2>1. CASE u = v
      <3>1. Begun(u)' /\ run'[u].file = run[u].file
        BY <1>3, <1>8, <2>1 DEF FilesStay
      <3> QED
        BY <3>1, <1>7, <2>1
    <2>2. CASE u # v
      <3>1. object'[u] = object[u]
        BY <1>5, <2>2
      <3>2. CASE Begun(u)
        <4>1. Begun(u)' /\ run'[u].file = run[u].file
          BY <1>8, <3>2 DEF FilesStay
        <4> QED
          BY <3>1, <4>1 DEF UploadsInv, BytesPaired
      <3>3. CASE ~ Begun(u)
        <4>1. object[u] = "none" /\ \A n \in Parts : part[u][n] = None /\ acked[u][n] = 0
          BY <3>3 DEF UploadsInv, BytesPaired
        <4> QED
          BY <3>1, <4>1
      <3> QED
        BY <3>2, <3>3
    <2> QED
      BY <2>1, <2>2
  <1>10. CASE Failed(a) /\ UNCHANGED confirm
    <2>1. /\ run' \in [Attempts -> RunStates] /\ FilesStay /\ RunsPaired'
          /\ \A b \in Attempts : run[b].up # None =>
               run'[b].up = run[b].up /\ run'[b].at >= run[b].at
          /\ KeptPaired' /\ kept' \in [DocumentKinds -> KeptStates]
          /\ busy' \in DocumentKinds \cup {"none"} /\ error' \subseteq DocumentKinds
      BY <1>2, <1>10, FailedPairs
    <2>2. BytesPaired'
      BY <1>8, <1>10, <2>1
    <2>3. AckedOncePerRun'
      BY <1>6, <2>1, AckedStays
    <2>4. UploadsTypeOK'
      BY <1>5, <1>6, <1>10, <2>1 DEF UploadsInv, UploadsTypeOK
    <2> QED
      BY <2>1, <2>2, <2>3, <2>4 DEF UploadsInv
  <1>11. CASE /\ run' = [run EXCEPT ![a].pc = "confirm"]
              /\ kept' = [kept EXCEPT ![run[a].kind] = Nothing]
              /\ confirm' = [confirm EXCEPT ![v] = "asked"]
              /\ UNCHANGED <<busy, error>>
    <2>1. PICK s : s = [run[a] EXCEPT !.pc = "confirm"]
      OBVIOUS
    <2>2. /\ s \in RunStates /\ s.file = run[a].file /\ s.pc = "confirm"
          /\ s.up = v /\ s.at = run[a].at
      BY <1>1, <1>2, <2>1 DEF RunStates
    <2>3. RunTakes(a, s)
      BY <1>11, <2>1 DEF RunTakes
    <2>4. s.file # None /\ s.up # None /\ Begun(s.up) /\ s.file = run[s.up].file
      BY <1>3, <2>2, UploadNumbers
    <2>5. /\ run' \in [Attempts -> RunStates] /\ run'[a] = s
          /\ \A b \in Attempts \ {a} : run'[b] = run[b]
          /\ FilesStay /\ RunsPaired'
      BY <1>2, <2>2, <2>3, <2>4, RunPairs
    <2>6. \A b \in Attempts : run[b].up # None =>
            run'[b].up = run[b].up /\ run'[b].at >= run[b].at
      BY <1>1, <2>2, <2>5, UploadNumbers DEF UploadsInv, UploadsTypeOK, RunStates
    <2>7. KeptPaired' /\ kept' \in [DocumentKinds -> KeptStates]
      <3>1. PICK k : k = run[a].kind
        OBVIOUS
      <3>2. Nothing \in KeptStates /\ Nothing.up = None
        BY DEF Nothing, KeptStates
      <3>3. k \in DocumentKinds /\ kept' = [kept EXCEPT ![k] = Nothing]
        BY <1>2, <1>11, <3>1
      <3> QED
        BY <2>5, <3>2, <3>3, KeptPairs
    <2>8. /\ confirm' \in [Attempts -> {"none", "asked", "saved", "refused"}]
          /\ \A u \in Attempts \ {v} : confirm'[u] = confirm[u]
      BY <1>3, <1>11 DEF UploadsInv, UploadsTypeOK
    <2>9. BytesPaired' /\ AckedOncePerRun'
      BY <1>6, <1>8, <2>5, <2>6, <2>8, AckedStays
    <2>10. UploadsTypeOK'
      BY <1>5, <1>6, <1>11, <2>5, <2>7, <2>8 DEF UploadsInv, UploadsTypeOK
    <2> QED
      BY <2>5, <2>7, <2>9, <2>10 DEF UploadsInv
  <1> QED
    BY <1>1, <1>10, <1>11 DEF Complete

LEMMA FinishUploadInv ==
  ASSUME UploadsInv, NEW a \in Attempts, FinishUpload(a)
  PROVE  UploadsInv'
  <1>1. PICK s : s = [run[a] EXCEPT !.pc = "done"]
    OBVIOUS
  <1>2. run[a] \in RunStates /\ run[a].pc = "confirm"
    BY DEF FinishUpload, UploadsInv, UploadsTypeOK
  <1>3. /\ s \in RunStates /\ s.file = run[a].file /\ s.pc = "done"
        /\ s.up = run[a].up /\ s.at = run[a].at
    BY <1>1, <1>2 DEF RunStates
  <1>4. RunTakes(a, s)
    BY <1>1 DEF FinishUpload, RunTakes
  <1>5. s.file # None /\ s.up # None /\ Begun(s.up) /\ s.file = run[s.up].file
    BY <1>2, <1>3 DEF UploadsInv, RunsPaired
  <1>6. /\ run' \in [Attempts -> RunStates] /\ run'[a] = s
        /\ \A b \in Attempts \ {a} : run'[b] = run[b]
        /\ FilesStay /\ RunsPaired'
    BY <1>2, <1>3, <1>4, <1>5, RunPairs
  <1>7. /\ UNCHANGED <<kept, error, acked, part, object, confirm, photo, others>>
        /\ UNCHANGED <<requested, requests>> /\ busy' = "none"
    BY DEF FinishUpload, s3, app
  <1>8. \A b \in Attempts : run[b].up # None =>
            run'[b].up = run[b].up /\ run'[b].at >= run[b].at
    BY <1>3, <1>6, UploadNumbers DEF UploadsInv, UploadsTypeOK, RunStates
  <1>9. KeptPaired' /\ BytesPaired' /\ AckedOncePerRun'
    BY <1>6, <1>7, <1>8, KeptStays, BytesStay, AckedStays
  <1>10. UploadsTypeOK'
    BY <1>6, <1>7 DEF UploadsInv, UploadsTypeOK
  <1> QED
    BY <1>6, <1>9, <1>10 DEF UploadsInv

LEMMA PromoteInv ==
  ASSUME UploadsInv, NEW u \in Attempts, Promote(u)
  PROVE  UploadsInv'
  <1>1. /\ UNCHANGED <<tab, part, photo, others, requested, requests>>
        /\ UNCHANGED <<run, busy, kept, error, acked>>
    BY DEF Promote, app, tab
  <1>2. FilesStay /\ RunsPaired' /\ KeptPaired' /\ AckedOncePerRun'
    BY <1>1, TabStays, AckedStaysWithTab
  <1>3. /\ confirm[u] = "asked" /\ object[u] = "pending"
        /\ object' \in [Attempts -> {"none", "open", "pending", "promoted"}]
        /\ object'[u] \in {"none", "promoted"}
        /\ confirm' \in [Attempts -> {"none", "asked", "saved", "refused"}]
        /\ \A v \in Attempts \ {u} : object'[v] = object[v] /\ confirm'[v] = confirm[v]
    BY DEF Promote, UploadsInv, UploadsTypeOK
  <1>5. BytesPaired'
    BY <1>1, <1>3 DEF UploadsInv, BytesPaired, Begun
  <1>6. UploadsTypeOK'
    BY <1>1, <1>3 DEF UploadsInv, UploadsTypeOK
  <1> QED
    BY <1>2, <1>5, <1>6 DEF UploadsInv

LEMMA SaveInv ==
  ASSUME UploadsInv, NEW u \in Attempts, Save(u)
  PROVE  UploadsInv'
  <1>1. UNCHANGED <<tab, run, busy, kept, error, acked, part, object, requests>>
    BY DEF Save, Record, tab, s3
  <1>2. FilesStay /\ RunsPaired' /\ KeptPaired' /\ AckedOncePerRun'
    BY <1>1, TabStays, AckedStaysWithTab
  <1>3. /\ object[u] = "promoted" /\ confirm'[u] = "saved"
        /\ confirm' \in [Attempts -> {"none", "asked", "saved", "refused"}]
        /\ \A v \in Attempts \ {u} : confirm'[v] = confirm[v]
    BY DEF Save, Record, UploadsInv, UploadsTypeOK
  <1>4. photo' \in {photo, u} /\ others' \subseteq others \cup {u}
    BY DEF Save, Record
  <1>6. BytesPaired'
    BY <1>1, <1>2, BytesStay
  <1>7. requested' \in [flag : {"no", "yes"}, since : 0..MaxAttempts]
    BY DEF Save, Record, UploadsInv, UploadsTypeOK
  <1>8. UploadsTypeOK'
    BY <1>1, <1>3, <1>4, <1>7 DEF UploadsInv, UploadsTypeOK
  <1> QED
    BY <1>2, <1>6, <1>8 DEF UploadsInv

LEMMA DropInv ==
  ASSUME UploadsInv, NEW u \in Attempts, Drop(u)
  PROVE  UploadsInv'
  <1>1. /\ UNCHANGED <<tab, run, busy, kept, error, acked, part, object>>
        /\ UNCHANGED <<photo, others, requested, requests>>
    BY DEF Drop, tab, s3, app
  <1>2. FilesStay /\ RunsPaired' /\ KeptPaired' /\ AckedOncePerRun'
    BY <1>1, TabStays, AckedStaysWithTab
  <1>3. /\ confirm[u] = "asked"
        /\ confirm' \in [Attempts -> {"none", "asked", "saved", "refused"}]
        /\ \A v \in Attempts \ {u} : confirm'[v] = confirm[v]
    BY DEF Drop, UploadsInv, UploadsTypeOK
  <1>5. BytesPaired'
    BY <1>1, <1>2, BytesStay
  <1>6. UploadsTypeOK'
    BY <1>1, <1>3 DEF UploadsInv, UploadsTypeOK
  <1> QED
    BY <1>2, <1>5, <1>6 DEF UploadsInv

LEMMA RequestDocumentsInv ==
  ASSUME UploadsInv, RequestDocuments
  PROVE  UploadsInv'
  <1>1. /\ UNCHANGED <<tab, run, busy, kept, error, acked, part, object>>
        /\ UNCHANGED <<confirm, photo, others>>
    BY DEF RequestDocuments, tab, s3
  <1>2. FilesStay /\ RunsPaired' /\ KeptPaired' /\ AckedOncePerRun'
    BY <1>1, TabStays, AckedStaysWithTab
  <1>3. BytesPaired'
    BY <1>1, <1>2, BytesStay
  <1>4. requested' \in [flag : {"no", "yes"}, since : 0..MaxAttempts]
    <2>1. Started \subseteq Attempts
      BY DEF Started
    <2>2. Cardinality(Started) \in Nat /\ Cardinality(Started) <= MaxAttempts
      BY <2>1, UploadNumbers, FS_Subset, FS_CardinalityType
    <2>3. Cardinality(Started) \in 0..MaxAttempts
      BY <2>2, UploadNumbers
    <2> QED
      BY <2>3 DEF RequestDocuments
  <1>5. requests' \in 0..MaxRequests
    BY UploadsAssumption DEF RequestDocuments, UploadsInv, UploadsTypeOK
  <1>6. UploadsTypeOK'
    BY <1>1, <1>4, <1>5 DEF UploadsInv, UploadsTypeOK
  <1> QED
    BY <1>2, <1>3, <1>6 DEF UploadsInv

LEMMA UploadsStep == UploadsInv /\ [UploadsNext]_uploadsVars => UploadsInv'
  <1> SUFFICES ASSUME UploadsInv, [UploadsNext]_uploadsVars
               PROVE  UploadsInv'
    OBVIOUS
  <1>1. CASE UploadsNext
    <2>1. ASSUME NEW a \in Attempts, NEW k \in DocumentKinds, Pick(a, k) \/ Retry(a, k)
          PROVE  UploadsInv'
      BY <2>1, PickInv, RetryInv
    <2>2. ASSUME NEW a \in Attempts,
                 CreateUpload(a) \/ Skip(a) \/ PutPart(a) \/ Complete(a) \/ Fail(a)
                   \/ FinishUpload(a)
          PROVE  UploadsInv'
      BY <2>2, CreateUploadInv, SkipInv, PutPartInv, CompleteInv, FailInv,
         FinishUploadInv
    <2>3. ASSUME NEW a \in Attempts, Promote(a) \/ Save(a) \/ Drop(a)
          PROVE  UploadsInv'
      BY <2>3, PromoteInv, SaveInv, DropInv
    <2>4. ASSUME NEW k \in DocumentKinds, PickBadFile(k)
          PROVE  UploadsInv'
      BY <2>4, PickBadFileInv
    <2>5. CASE RequestDocuments
      BY <2>5, RequestDocumentsInv
    <2> QED
      BY <1>1, <2>1, <2>2, <2>3, <2>4, <2>5 DEF UploadsNext
  <1>2. CASE UNCHANGED uploadsVars
    <2>1. /\ UNCHANGED <<tab, run, busy, kept, error, acked, part, object>>
          /\ UNCHANGED <<confirm, photo, others, requested, requests>>
      BY <1>2 DEF uploadsVars, tab, s3, app
    <2>2. FilesStay /\ RunsPaired' /\ KeptPaired' /\ AckedOncePerRun'
      BY <2>1, TabStays, AckedStaysWithTab
    <2>3. BytesPaired'
      BY <2>1, <2>2, BytesStay
    <2>4. UploadsTypeOK'
      BY <2>1 DEF UploadsInv, UploadsTypeOK
    <2> QED
      BY <2>2, <2>3, <2>4 DEF UploadsInv
  <1> QED
    BY <1>1, <1>2

LEMMA UploadsInvariant == UploadsSpec => []UploadsInv
  BY UploadsInitInv, UploadsStep, PTL DEF UploadsSpec

\* performUpload, S3 and the confirmation keep their types, for any number of
\* attempts, parts and requests; no attempt reports a part twice.
THEOREM UploadsTypeCorrect == UploadsSpec => []UploadsTypeOK
  <1>1. UploadsInv => UploadsTypeOK
    BY DEF UploadsInv
  <1> QED
    BY <1>1, UploadsInvariant, PTL

\* However attempts fail, overlap and are resumed, an assembled object is the
\* parts of one file (resumableUpload.ts, CandidateDashboard's pendingUploads).
THEOREM ObjectsAreWholeFiles == UploadsSpec => []WholeFile
  <1>1. ASSUME UploadsInv PROVE WholeFile
    <2> SUFFICES ASSUME NEW u \in Attempts, object[u] \in {"pending", "promoted"}
                 PROVE  \E f \in Attempts : \A n \in Parts : part[u][n] = f
      BY DEF WholeFile
    <2>1. Begun(u) /\ \A n \in Parts : part[u][n] = run[u].file
      BY <1>1 DEF UploadsInv, BytesPaired
    <2>2. run[u].file \in Attempts
      BY <1>1, <2>1 DEF UploadsInv, UploadsTypeOK, RunStates, RunsPaired, Begun
    <2> QED
      BY <2>1, <2>2
  <1> QED
    BY <1>1, UploadsInvariant, PTL
=============================================================================
