------------------------ MODULE UploadServiceProofs ------------------------
(***************************************************************************)
(* Proofs about UploadService, for any number of uploads at a time and of  *)
(* files: a URL that was answered names an object that is there, and no    *)
(* other upload ever gets its key.                                         *)
(*                                                                         *)
(* A put goes on after its request is gone, so the argument is about keys: *)
(* uploadImage takes keys no other request has (KeysApart) and starts a    *)
(* put only for a key of its own, which has none yet (FilesOnTheirWay).    *)
(***************************************************************************)
EXTENDS UploadService, TLAPS

Outcomes == {"stored", "failed"}

\* The start.
LEMMA InitCorrect == Init => IInv
BY DEF Init, IInv, TypeOK, FilesOnTheirWay, KeysApart, AnswerNamesStored, Idle

\* Multer took the files of a request in: their keys are new.
LEMMA ReceiveStep ==
  ASSUME IInv, NEW r \in Requests, NEW fs \in SUBSET Fresh, Receive(r, fs)
  PROVE  IInv'
<1> USE DEF Receive
<1>0. TypeOK /\ FilesOnTheirWay /\ KeysApart /\ AnswerNamesStored
  BY DEF IInv
<1>1. fs \subseteq Files /\ \A f \in fs : object[f] = "none"
  BY DEF Fresh
<1>2. fs \cap urls = {}
  BY <1>0, <1>1 DEF AnswerNamesStored
<1>3. \A q \in Requests : fs \cap req[q].files = {}
  BY DEF Fresh
<1>4. TypeOK'
  BY <1>0, <1>1 DEF TypeOK
<1>5. FilesOnTheirWay'
  BY <1>0, <1>1 DEF TypeOK, FilesOnTheirWay
<1>6. KeysApart'
  BY <1>0, <1>2, <1>3 DEF TypeOK, KeysApart
<1> QED
  BY <1>0, <1>4, <1>5, <1>6 DEF IInv, AnswerNamesStored

\* The request is gone and nothing else changes: Refuse, Throw and Crash.
LEMMA RequestEnds ==
  ASSUME IInv, NEW r \in Requests,
         req' = [req EXCEPT ![r] = Idle],
         sent' \in [to : Requests, status : Statuses] \cup {None},
         UNCHANGED <<object, urls>>
  PROVE  IInv'
<1>0. TypeOK /\ FilesOnTheirWay /\ KeysApart /\ AnswerNamesStored
  BY DEF IInv
<1>1. TypeOK'
  BY <1>0 DEF TypeOK, Idle
<1>2. FilesOnTheirWay'
  BY <1>0 DEF TypeOK, FilesOnTheirWay, Idle
<1>3. KeysApart'
  BY <1>0 DEF TypeOK, KeysApart, Idle
<1> QED
  BY <1>0, <1>1, <1>2, <1>3 DEF IInv, AnswerNamesStored

\* The handler starts the puts: no URL that was answered is one of these keys.
LEMMA UploadImagesStep ==
  ASSUME IInv, NEW r \in Requests, UploadImages(r)
  PROVE  IInv'
<1> USE DEF UploadImages
<1>0. TypeOK /\ FilesOnTheirWay /\ KeysApart /\ AnswerNamesStored
  BY DEF IInv
<1>1. /\ \A q \in Requests : req'[q].files = req[q].files
      /\ \A q \in Requests \ {r} : req'[q] = req[q]
      /\ req'[r].pc = "uploading"
  BY <1>0 DEF TypeOK
<1>2. /\ \A f \in req[r].files : object'[f] = "sending"
      /\ \A f \in Files \ req[r].files : object'[f] = object[f]
  BY <1>0 DEF TypeOK
<1>3. TypeOK'
  BY <1>0 DEF TypeOK
<1>4. FilesOnTheirWay'
  <2> SUFFICES ASSUME NEW q \in Requests PROVE
        /\ req'[q].pc = "idle" => req'[q].files = {}
        /\ req'[q].pc = "received" =>
             \A f \in req'[q].files : object'[f] = "none"
        /\ req'[q].pc = "uploading" =>
             req'[q].files # {} /\ \A f \in req'[q].files : object'[f] # "none"
    BY DEF FilesOnTheirWay
  <2>1. CASE q = r
    BY <1>1, <1>2, <2>1
  <2>2. CASE q # r
    <3>1. req[q].files \cap req[r].files = {} /\ req[q].files \subseteq Files
      BY <1>0, <2>2 DEF KeysApart, TypeOK
    <3> QED
      BY <1>0, <1>1, <1>2, <2>2, <3>1 DEF FilesOnTheirWay
  <2> QED
    BY <2>1, <2>2
<1>5. KeysApart'
  BY <1>0, <1>1 DEF KeysApart
<1>6. AnswerNamesStored'
  <2>1. urls \subseteq Files \ req[r].files
    BY <1>0 DEF KeysApart, TypeOK
  <2> QED
    BY <1>0, <1>2, <2>1 DEF AnswerNamesStored
<1> QED
  BY <1>3, <1>4, <1>5, <1>6 DEF IInv

\* A put ends, whether anybody still waits for it or not.
LEMMA PutStep ==
  ASSUME IInv, NEW f \in Files, NEW outcome \in Outcomes, Put(f, outcome)
  PROVE  IInv'
<1> USE DEF Put, Outcomes
<1>0. TypeOK /\ FilesOnTheirWay /\ KeysApart /\ AnswerNamesStored
  BY DEF IInv
<1>1. /\ object[f] = "sending" /\ object'[f] \in Outcomes
      /\ \A g \in Files \ {f} : object'[g] = object[g]
  BY <1>0 DEF TypeOK
<1>2. TypeOK'
  BY <1>0 DEF TypeOK
<1>3. FilesOnTheirWay'
  BY <1>0, <1>1 DEF TypeOK, FilesOnTheirWay
<1>4. AnswerNamesStored'
  BY <1>0, <1>1 DEF TypeOK, AnswerNamesStored
<1> QED
  BY <1>0, <1>2, <1>3, <1>4 DEF IInv, KeysApart

\* All puts of the batch are there: their URLs are answered.
LEMMA ReturnStep ==
  ASSUME IInv, NEW r \in Requests, Return(r)
  PROVE  IInv'
<1> USE DEF Return, Respond
<1>0. TypeOK /\ FilesOnTheirWay /\ KeysApart /\ AnswerNamesStored
  BY DEF IInv
<1>1. TypeOK'
  BY <1>0 DEF TypeOK, Idle, Statuses
<1>2. FilesOnTheirWay'
  BY <1>0 DEF TypeOK, FilesOnTheirWay, Idle
<1>3. KeysApart'
  BY <1>0 DEF TypeOK, KeysApart, Idle
<1>4. AnswerNamesStored'
  BY <1>0 DEF UploadedAll, AnswerNamesStored
<1> QED
  BY <1>1, <1>2, <1>3, <1>4 DEF IInv

\* Every step of a request.
LEMMA RequestStep ==
  ASSUME IInv, NEW r \in Requests, Handle(r) \/ Crash(r)
  PROVE  IInv'
<1>1. CASE Refuse(r) \/ Throw(r) \/ Crash(r)
  BY <1>1, RequestEnds DEF Refuse, Throw, Crash, Respond, Statuses
<1> QED
  BY <1>1, UploadImagesStep, ReturnStep DEF Handle

-----------------------------------------------------------------------------
\* Theorems

\* The inductive invariant of the uploads in flight and their objects.
THEOREM Invariant == Spec => []IInv
<1>1. ASSUME IInv, [Next]_vars PROVE IInv'
  <2>1. CASE UNCHANGED vars
    BY <1>1, <2>1 DEF vars, IInv, TypeOK, FilesOnTheirWay, KeysApart,
         AnswerNamesStored
  <2>2. CASE Next
    BY <1>1, <2>2, ReceiveStep, RequestStep, PutStep DEF Next, Outcomes
  <2> QED
    BY <1>1, <2>1, <2>2
<1> QED
  BY <1>1, InitCorrect, PTL DEF Spec

\* uploadImage and uploadMultipleImages: every URL that was answered is the URL
\* of an object in the bucket.
THEOREM AnswersCorrect == Spec => []AnswerNamesStored
<1>1. IInv => AnswerNamesStored
  BY DEF IInv
<1> QED
  BY <1>1, Invariant, PTL

\* The key of an answered URL is settled: the URL stays answered, its object
\* stays what it is, and no other upload has the key or gets it.
AnswerStands == \A f \in urls :
  /\ f \in urls' /\ object'[f] = object[f]
  /\ \A r \in Requests : f \notin req'[r].files

\* Whatever puts, batches and failures come later, an answered URL stands.
THEOREM AnswersStand == Spec => [][AnswerStands]_vars
<1>1. ASSUME IInv, IInv', [Next]_vars PROVE AnswerStands
  <2> SUFFICES ASSUME NEW f \in urls
               PROVE  /\ f \in urls' /\ object'[f] = object[f]
                      /\ \A r \in Requests : f \notin req'[r].files
    BY DEF AnswerStands
  <2>1. f \in urls'
    BY <1>1 DEF Next, Receive, Handle, Refuse, UploadImages, Return, Throw,
         Crash, Put, vars
  <2> QED
    BY <1>1, <2>1 DEF IInv, AnswerNamesStored, KeysApart
<1> QED
  BY <1>1, Invariant, PTL DEF Spec

=============================================================================
