-------------------------- MODULE CandidateUploads --------------------------
(***************************************************************************)
(* A candidate uploads documents from the dashboard: chunked uploads that   *)
(* are resumed after a failure (CandidateDashboard.tsx, resumableUpload.ts, *)
(* uploads.controller.ts), confirmed and promoted by the server             *)
(* (me.controller.ts), while an admin may ask for documents                 *)
(* (candidates.controller.ts).                                             *)
(*                                                                         *)
(* Each run of performUpload is an attempt, numbered from 1.  A file is     *)
(* named by the attempt that picked it and an S3 upload by the attempt that *)
(* created it.  Any call can fail, also after it has taken effect, and the  *)
(* server goes on with a confirmation whose caller has given up.            *)
(*                                                                         *)
(* ObjectStoreProofs EXTENDS this module and Catalogue: a name that both    *)
(* would define carries this module's.                                     *)
(***************************************************************************)
EXTENDS Naturals, FiniteSets

CONSTANTS
  MaxAttempts,  \* how many times performUpload runs (a bound)
  NumParts,     \* how many parts a file is uploaded in
  MaxRequests   \* how often the admin asks for documents (a bound)
ASSUME UploadsAssumption ==
  MaxAttempts \in Nat /\ MaxRequests \in Nat /\ NumParts \in Nat /\ NumParts > 0

Attempts == 1..MaxAttempts
None == 0
DocumentKinds == {"photo", "other"}   \* a slot that is replaced, a list that grows
Parts == 1..NumParts

VARIABLES
  run,      \* Attempts -> [kind, file, up, pc, at, skip]: performUpload's calls
  busy,     \* uploadingKind
  kept,     \* pendingUploads: Kinds -> [file, up]
  error,    \* uploadError: the kinds that show an error and its Retry
  acked,    \* per upload, how often each part is in state.completed
  part,     \* S3: per upload, the file whose bytes each part holds
  object,   \* S3: per upload, "none", "open", "pending" or "promoted"
  confirm,  \* the server's handling of the confirmation of an upload
  photo,    \* idPhotoS3Key
  others,   \* the CandidateDocument rows
  requested, \* [flag, since]: documentsRequested, and the last attempt before it
  requests  \* how often the admin has asked
tab == <<run, busy, kept, error, acked>>
s3 == <<part, object>>
app == <<photo, others, requested>>
uploadsVars == <<tab, s3, confirm, app, requests>>

Nothing == [file |-> None, up |-> None]
Unused == [kind |-> "photo", file |-> None, up |-> None, pc |-> "unused",
           at |-> 1, skip |-> {}]

RunStates ==
  [kind : DocumentKinds, file : {None} \cup Attempts, up : {None} \cup Attempts,
   at : 1..(NumParts + 1), skip : SUBSET Parts,
   pc : {"unused", "create", "part", "confirm", "done", "failed"}]
KeptStates == [file : {None} \cup Attempts, up : {None} \cup Attempts]

UploadsTypeOK ==
  /\ run \in [Attempts -> RunStates]
  /\ busy \in DocumentKinds \cup {"none"}
  /\ kept \in [DocumentKinds -> KeptStates]
  /\ error \subseteq DocumentKinds
  /\ acked \in [Attempts -> [Parts -> 0..MaxAttempts]]
  /\ part \in [Attempts -> [Parts -> {None} \cup Attempts]]
  /\ object \in [Attempts -> {"none", "open", "pending", "promoted"}]
  /\ confirm \in [Attempts -> {"none", "asked", "saved", "refused"}]
  /\ photo \in {None} \cup Attempts
  /\ others \subseteq Attempts
  /\ requested \in [flag : {"no", "yes"}, since : 0..MaxAttempts]
  /\ requests \in 0..MaxRequests

UploadsInit ==
  /\ run = [a \in Attempts |-> Unused]
  /\ busy = "none" /\ error = {}
  /\ kept = [k \in DocumentKinds |-> Nothing]
  /\ acked = [a \in Attempts |-> [n \in Parts |-> 0]]
  /\ part = [a \in Attempts |-> [n \in Parts |-> None]]
  /\ object = [a \in Attempts |-> "none"]
  /\ confirm = [a \in Attempts |-> "none"]
  /\ photo = None /\ others = {}
  /\ requested = [flag |-> "no", since |-> 0] /\ requests = 0

Unstarted == {a \in Attempts : run[a].pc = "unused"}
Started == Attempts \ Unstarted
NextRun(a) == a \in Unstarted /\ \A b \in Unstarted : a <= b
Parted(u) == {n \in Parts : acked[u][n] > 0}

-----------------------------------------------------------------------------
(* S3. *)

OpenUpload(u) == object' = [object EXCEPT ![u] = "open"]

\* A presigned part can be PUT while its upload is open, and again.
StorePart(u, n, f) ==
  /\ object[u] = "open"
  /\ part' = [part EXCEPT ![u][n] = f]

\* CompleteMultipartUpload needs every part listed once.
Assemble(u) ==
  /\ object[u] = "open" /\ \A n \in Parts : acked[u][n] = 1
  /\ object' = [object EXCEPT ![u] = "pending"]

-----------------------------------------------------------------------------
(* The tab. *)

\* performUpload from its start to its first call.
Perform(a, k, f, u) ==
  /\ run' = [run EXCEPT ![a] = [kind |-> k, file |-> f, up |-> u, at |-> 1,
               pc |-> IF u = None THEN "create" ELSE "part",
               skip |-> IF u = None THEN {} ELSE Parted(u)]]
  /\ busy' = k /\ error' = error \ {k}

\* The file input of a slot opens unless uploadingKind names the slot.
MayPick(k) == busy # k

\* A bug the checks catch: a new pick resumes what is kept for the kind.
PickResumes(a, k) ==
  /\ NextRun(a) /\ MayPick(k)
  /\ kept' = [kept EXCEPT ![k].file = a]
  /\ Perform(a, k, a, kept[k].up)
  /\ UNCHANGED <<acked, s3, confirm, app, requests>>

\* startUpload: the kind's earlier file and state are forgotten.
Pick(a, k) ==
  /\ NextRun(a) /\ MayPick(k)
  /\ kept' = [kept EXCEPT ![k] = [file |-> a, up |-> None]]
  /\ Perform(a, k, a, None)
  /\ UNCHANGED <<acked, s3, confirm, app, requests>>

\* validateFile refuses a file: an error, and nothing else changes.
PickBadFile(k) ==
  /\ MayPick(k) /\ Unstarted # {}
  /\ error' = error \cup {k}
  /\ UNCHANGED <<run, busy, kept, acked, s3, confirm, app, requests>>

\* The Retry beside an error resumes what is kept for that kind.
Retry(a, k) ==
  /\ NextRun(a) /\ k \in error /\ kept[k] # Nothing
  /\ Perform(a, k, kept[k].file, kept[k].up)
  /\ UNCHANGED <<kept, acked, s3, confirm, app, requests>>

\* The catch and the finally of performUpload.  The upload's state survives
\* only an error of runResumableUpload.
Failed(a) ==
  /\ run' = [run EXCEPT ![a].pc = "failed"]
  /\ kept' = [kept EXCEPT ![run[a].kind] =
                [file |-> run[a].file,
                 up |-> IF run[a].pc = "part" THEN run[a].up ELSE None]]
  /\ error' = error \cup {run[a].kind}
  /\ busy' = "none"

CreateUpload(a) ==
  /\ run[a].pc = "create"
  /\ run' = [run EXCEPT ![a].pc = "part", ![a].up = a]
  /\ OpenUpload(a)
  /\ UNCHANGED <<busy, kept, error, acked, part, confirm, app, requests>>

\* The loop passes over the parts that were complete when the run began.
Skip(a) ==
  /\ run[a].pc = "part" /\ run[a].at \in run[a].skip
  /\ run' = [run EXCEPT ![a].at = @ + 1]
  /\ UNCHANGED <<busy, kept, error, acked, s3, confirm, app, requests>>

\* The loop's next part, and its end.
NextPart(a) == run[a].pc = "part" /\ run[a].at \in Parts \ run[a].skip
AllSent(a) == run[a].pc = "part" /\ run[a].at = NumParts + 1

\* S3 takes the part; its ETag comes back, or is lost and the run fails.
PutPart(a) ==
  LET u == run[a].up
      n == run[a].at
  IN  /\ NextPart(a)
      /\ StorePart(u, n, run[a].file)
      /\ \/ /\ run' = [run EXCEPT ![a].at = n + 1]
            /\ acked' = [acked EXCEPT ![u][n] = @ + 1]
            /\ UNCHANGED <<busy, kept, error>>
         \/ Failed(a) /\ UNCHANGED acked
      /\ UNCHANGED <<object, confirm, app, requests>>

\* The answer makes the tab forget what it kept for the kind and ask for
\* the confirmation.
Complete(a) ==
  LET u == run[a].up
  IN  /\ AllSent(a)
      /\ Assemble(u)
      /\ \/ /\ run' = [run EXCEPT ![a].pc = "confirm"]
            /\ kept' = [kept EXCEPT ![run[a].kind] = Nothing]
            /\ confirm' = [confirm EXCEPT ![u] = "asked"]
            /\ UNCHANGED <<busy, error>>
         \/ Failed(a) /\ UNCHANGED confirm
      /\ UNCHANGED <<acked, part, app, requests>>

\* A call fails, is refused by S3, or gets no answer.
Fail(a) ==
  /\ run[a].pc \in {"create", "part", "confirm"}
  /\ Failed(a)
  /\ UNCHANGED <<acked, s3, confirm, app, requests>>

FinishUpload(a) ==
  /\ run[a].pc = "confirm" /\ confirm[run[a].up] = "saved"
  /\ run' = [run EXCEPT ![a].pc = "done"]
  /\ busy' = "none"
  /\ UNCHANGED <<kept, error, acked, s3, confirm, app, requests>>

-----------------------------------------------------------------------------
(* The server. *)

\* promoteValidatedCandidateUpload: the object is deleted or moved.
Promote(u) ==
  /\ confirm[u] = "asked" /\ object[u] = "pending"
  /\ \/ /\ object' = [object EXCEPT ![u] = "none"]
        /\ confirm' = [confirm EXCEPT ![u] = "refused"]
     \/ /\ object' = [object EXCEPT ![u] = "promoted"]
        /\ UNCHANGED confirm
  /\ UNCHANGED <<tab, part, app, requests>>

Record(u) ==
  /\ \/ run[u].kind = "photo" /\ photo' = u /\ UNCHANGED others
     \/ run[u].kind = "other" /\ others' = others \cup {u} /\ UNCHANGED photo
  /\ requested' = [requested EXCEPT !.flag = "no"]
  /\ confirm' = [confirm EXCEPT ![u] = "saved"]
  /\ UNCHANGED <<tab, s3, requests>>

\* uploadDocuments and uploadOtherDocument save the key and clear the flag.
Save(u) == confirm[u] = "asked" /\ object[u] = "promoted" /\ Record(u)

\* The confirmation is dropped before or after the promotion.
Drop(u) ==
  /\ confirm[u] = "asked" /\ confirm' = [confirm EXCEPT ![u] = "refused"]
  /\ UNCHANGED <<tab, s3, app, requests>>

RequestDocuments ==
  /\ requests < MaxRequests /\ requests' = requests + 1
  /\ requested' = [flag |-> "yes", since |-> Cardinality(Started)]
  /\ UNCHANGED <<tab, s3, confirm, photo, others>>

UploadsNext ==
  \/ \E a \in Attempts :
       \/ \E k \in DocumentKinds : Pick(a, k) \/ Retry(a, k)
       \/ CreateUpload(a) \/ Skip(a) \/ PutPart(a) \/ Complete(a) \/ Fail(a) \/ FinishUpload(a)
       \/ Promote(a) \/ Save(a) \/ Drop(a)
  \/ \E k \in DocumentKinds : PickBadFile(k)
  \/ RequestDocuments
UploadsSpec == UploadsInit /\ [][UploadsNext]_uploadsVars

-----------------------------------------------------------------------------
(* However attempts fail, overlap and are resumed, an assembled object is    *)
(* the parts of one file: a retry never continues one file's upload with     *)
(* another file (pendingUploads pairs the file with its state).              *)
WholeFile ==
  \A u \in Attempts :
    object[u] \in {"pending", "promoted"} =>
      \E f \in Attempts : \A n \in Parts : part[u][n] = f

-----------------------------------------------------------------------------
(* What the sources say or suggest and the code does not do (README).        *)

\* uploadingKind keeps a second upload of a kind from starting.
OneUploadPerKind ==
  \A a, b \in Started :
    (run[a].kind = run[b].kind /\ {run[a].pc, run[b].pc} \cap {"done", "failed"} = {})
      => a = b

\* The photo on file is never an earlier pick than one that was on file.
LatestPickWins == [][photo' # photo => run[photo'].file >= photo]_uploadsVars

\* "Uploading anything clears the request, since that's what it was asking
\* for": only an upload begun after the request clears it.
RequestIsAnswered ==
  [][(requested.flag = "yes" /\ requested'.flag = "no")
      => \E a \in Started : a > requested.since /\ confirm'[a] # confirm[a]]_uploadsVars

\* A retry can succeed: what is kept resumes an upload that is open.
RetryCanSucceed ==
  \A k \in DocumentKinds : kept[k].up # None => object[kept[k].up] = "open"

\* A file picked once is at most one document.
OneDocumentPerFile ==
  \A u, v \in others : run[u].file = run[v].file => u = v
=============================================================================
