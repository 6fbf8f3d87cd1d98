--------------------------- MODULE UploadService ---------------------------
(***************************************************************************)
(* UploadController over AwsS3Service: one picture, or a batch whose puts  *)
(* are all started before one is waited for. A put goes on after its       *)
(* request was answered.                                                   *)
(***************************************************************************)
EXTENDS Integers, FiniteSets

CONSTANTS
  Requests,   \* slots of the server for uploads in flight
  Files,      \* keys in the bucket: a folder and a fresh uuid, one per file
  None

MaxFiles == 5   \* FilesInterceptor

Statuses == {200, 400, 500}

VARIABLES
  req,      \* pc and keys of each upload in flight
  object,   \* what became of each key
  urls,     \* keys whose URL was answered to somebody
  sent      \* the answer that goes out in this step, if one does

vars == <<req, object, urls, sent>>

Idle == [pc |-> "idle", files |-> {}]

Init ==
  /\ req = [r \in Requests |-> Idle]
  /\ object = [f \in Files |-> "none"]
  /\ urls = {}
  /\ sent = None

\* generateFileName: a key that no other file has.
Fresh ==
  {f \in Files : object[f] = "none" /\ \A r \in Requests : f \notin req[r].files}

\* Multer has read the files of the request into memory. fs is what
\* uploadImage (one file) or uploadMultipleImages (an array) is called with.
Receive(r, fs) ==
  /\ req[r] = Idle
  /\ fs \subseteq Fresh
  /\ Cardinality(fs) <= MaxFiles
  /\ req' = [req EXCEPT ![r] = [pc |-> "received", files |-> fs]]
  /\ sent' = None
  /\ UNCHANGED <<object, urls>>

Respond(r, status) ==
  /\ req' = [req EXCEPT ![r] = Idle]
  /\ sent' = [to |-> r, status |-> status]

\* ParseFilePipe refuses a file for its size or type, or the lack of one;
\* the handler refuses an unknown folder and an empty array.
Refuse(r) ==
  /\ req[r].pc = "received"
  /\ Respond(r, 400)
  /\ UNCHANGED <<object, urls>>

UploadImages(r) ==
  /\ req[r].pc = "received"
  /\ req[r].files # {}
  /\ req' = [req EXCEPT ![r].pc = "uploading"]
  /\ object' = [f \in Files |-> IF f \in req[r].files THEN "sending" ELSE object[f]]
  /\ sent' = None
  /\ UNCHANGED urls

\* upload.done() of one file resolves or rejects.
Put(f, outcome) ==
  /\ object[f] = "sending"
  /\ object' = [object EXCEPT ![f] = outcome]
  /\ sent' = None
  /\ UNCHANGED <<req, urls>>

\* Faulty variant: the first URL settles the batch (race in place of all).
UploadedOne(r) == \E f \in req[r].files : object[f] = "stored"

UploadedAll(r) == \A f \in req[r].files : object[f] = "stored"

Return(r) ==
  /\ req[r].pc = "uploading"
  /\ UploadedAll(r)
  /\ Respond(r, 200)
  /\ urls' = urls \cup req[r].files
  /\ UNCHANGED object

\* Faulty variant: only a batch that failed as a whole is answered.
FailedAll(r) == \A f \in req[r].files : object[f] = "failed"

FailedOne(r) == \E f \in req[r].files : object[f] = "failed"

\* Promise.all rejects with the first put that failed.
Throw(r) ==
  /\ req[r].pc = "uploading"
  /\ FailedOne(r)
  /\ Respond(r, 500)
  /\ UNCHANGED <<object, urls>>

\* The server goes down with the puts of this upload, or only the caller's
\* connection does.
Crash(r) ==
  /\ req[r].pc # "idle"
  /\ req' = [req EXCEPT ![r] = Idle]
  /\ sent' = None
  /\ UNCHANGED <<object, urls>>

Handle(r) == Refuse(r) \/ UploadImages(r) \/ Return(r) \/ Throw(r)

Next ==
  \/ \E r \in Requests :
       \/ \E fs \in SUBSET Fresh : Receive(r, fs)
       \/ Handle(r)
       \/ Crash(r)
  \/ \E f \in Files, outcome \in {"stored", "failed"} : Put(f, outcome)

Spec == Init /\ [][Next]_vars

\* The handlers go on, and every put to S3 ends.
Fairness ==
  /\ \A r \in Requests : WF_vars(Handle(r))
  /\ \A f \in Files : WF_vars(\E outcome \in {"stored", "failed"} : Put(f, outcome))

FairSpec == Spec /\ Fairness

-----------------------------------------------------------------------------
\* Properties

TypeOK ==
  /\ req \in [Requests ->
       [pc : {"idle", "received", "uploading"}, files : SUBSET Files]]
  /\ object \in [Files -> {"none", "sending", "stored", "failed"}]
  /\ urls \subseteq Files
  /\ sent \in [to : Requests, status : Statuses] \cup {None}

\* A URL that an upload has answered is the URL of an object that is there
\* and stays as it is, though the puts of a batch end in any order, others of
\* them fail, and those of failed batches go on after the answer.
AnswerNamesStored == \A f \in urls : object[f] = "stored"

\* A request has files while it is served, and puts them in the bucket only
\* once the handler runs.
FilesOnTheirWay == \A r \in Requests :
  /\ req[r].pc = "idle" => req[r].files = {}
  /\ req[r].pc = "received" => \A f \in req[r].files : object[f] = "none"
  /\ req[r].pc = "uploading" =>
       req[r].files # {} /\ \A f \in req[r].files : object[f] # "none"

\* A key belongs to one request, and to none once its URL is answered.
KeysApart == \A r \in Requests :
  /\ req[r].files \cap urls = {}
  /\ \A q \in Requests \ {r} : req[r].files \cap req[q].files = {}

\* The inductive invariant.
IInv ==
  /\ TypeOK
  /\ FilesOnTheirWay
  /\ KeysApart
  /\ AnswerNamesStored

\* Every upload ends, a batch of which one put fails included.
EveryUploadAnswered ==
  \A r \in Requests : (req[r].pc # "idle") ~> (req[r].pc = "idle")

=============================================================================
