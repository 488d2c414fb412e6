----------------------------- MODULE ApiProofs -----------------------------
(***************************************************************************)
(* The API is an environment that Worker allows, so that everything proved *)
(* of the workers holds next to it; and what clients are told and given    *)
(* stays true.  Inductive invariant: IInv and ApiInv together; with        *)
(* FileInv added, downloads of succeeded jobs work.                        *)
(***************************************************************************)
EXTENDS ApiProperties, TimelyProofs

USE RepositoryAssumption, NullAssumption, WorkerAssumption, ApiAssumption
  DEF Id

\* A job that exists goes on existing, and a finished one keeps its end.
LEMMA RowsMoveOn ==
  ASSUME IInv, [Next]_vars, NEW j \in Job
  PROVE  /\ row[j].status # "absent" => row'[j].status # "absent"
         /\ row[j].status \in {"succeeded", "failed"} =>
              row'[j].status = row[j].status /\ row'[j].pdf = row[j].pdf
         /\ row[j].pdf # NULL => row'[j].pdf = row[j].pdf
<1>1. RowStep(row[j], row'[j])
  BY EveryStepIsRowStep
<1>2. RowOK(row[j])
  BY RowsAreOK DEF IInv
<1>3. row[j].pdf # NULL => row[j].status = "succeeded"
  BY <1>2 DEF RowOK
<1>4. CASE Untouched(row[j], row'[j])
  BY <1>4 DEF Untouched
<1>5. CASE Inserted(row[j], row'[j])
  BY <1>5 DEF Inserted
<1>6. CASE Taken(row[j], row'[j])
  BY <1>3, <1>6 DEF Taken
<1>7. CASE Delivered(row[j], row'[j])
  BY <1>3, <1>7 DEF Delivered
<1>8. CASE Dropped(row[j], row'[j])
  BY <1>3, <1>8 DEF Dropped
<1> QED
  BY <1>1, <1>4, <1>5, <1>6, <1>7, <1>8 DEF RowStep

\* Workers change the rows of submitted jobs only.
LEMMA WorkersInsertNothing ==
  ASSUME IInv, NEW w \in Worker, MainStep(w) \/ RenewerStep(w),
         NEW j \in Job, row[j].status = "absent"
  PROVE  row'[j].status = "absent"
<1>1. /\ row \in [Job -> Row] /\ job \in [Worker -> Job \cup {NULL}]
      /\ RowOK(row[j])
  BY RowsAreOK DEF IInv, TypeOK
<1>2. ASSUME NEW now PROVE ~ Exhausted(row[j], now) /\ ~ Eligible(row[j], now)
                           /\ \A v \in Worker : ~ Holds(row[j], v, now)
  BY DEF Exhausted, Eligible, Expired, Holds
<1>3. ASSUME NEW now PROVE AfterReap(now)[j] = row[j]
  BY <1>2 DEF AfterReap
<1>4. CASE Claim(w)
  <2>1. PICK k \in Job : ClaimNextJob(k, w, sampled[w])
    BY <1>4 DEF Claim
  <2>2. k # j
    BY <1>2, <2>1 DEF ClaimNextJob, Oldest
  <2>3. row'[j] = AfterReap(sampled[w])[j]
    BY <2>1, <2>2 DEF ClaimNextJob, AfterReap
  <2> QED
    BY <1>3, <2>3
<1>5. CASE ClaimNone(w)
  BY <1>3, <1>5 DEF ClaimNone, ClaimNothing
<1>6. CASE Record(w)
  <2>1. CASE job[w] = j
    BY <1>2, <1>6, <2>1 DEF Record, RecordFailure
  <2>2. CASE job[w] # j
    BY <1>1, <1>6, <2>2 DEF Record, RecordFailure
  <2> QED
    BY <2>1, <2>2
<1>7. CASE Commit(w)
  <2>1. row[job[w]].owner = w /\ pc[w] = "moved"
    BY <1>7 DEF Commit, IInv, ProcessOK, GateKeepsOwner, HoldsWriteLock
  <2>2. row[j].owner # w
    BY <1>1 DEF RowOK, NoRow
  <2>3. job[w] # j
    BY <2>1, <2>2
  <2> QED
    BY <1>1, <1>7, <2>3 DEF Commit, PublishSuccess
<1>8. CASE RenewHeld(w)
  <2>1. job[w] # j
    BY <1>2, <1>8 DEF RenewHeld, RenewLease
  <2> QED
    BY <1>1, <1>8, <2>1 DEF RenewHeld, RenewLease
<1>9. CASE LateRenew(w)
  <2>1. PICK call \in late : \/ RenewLease(call.job, w, call.at)
                             \/ UNCHANGED row
    BY <1>9 DEF LateRenew
  <2>2. CASE RenewLease(call.job, w, call.at)
    BY <1>1, <1>2, <2>2 DEF RenewLease
  <2>3. CASE UNCHANGED row
    BY <2>3
  <2> QED
    BY <2>1, <2>2, <2>3
<1>10. CASE ~ (Claim(w) \/ ClaimNone(w) \/ Record(w) \/ Commit(w)
               \/ RenewHeld(w) \/ LateRenew(w))
  <2>1. UNCHANGED row
    BY <1>10 DEF MainStep, RenewerStep, Start, Poll, LoadJob, Stop,
       SweepOrphan, Rest, SweepTmp, SweepOfficial, Stage, ConvertOk,
       StageLost, ConvertFail, DropFailure, AcceptFailure, DropResult,
       KeepResult, Fingerprint, FingerprintFails, GateRefuses, GateHolds,
       Move, MoveFails, CommitFails, Undo, Raise, Unwind, Crash, RenewWake,
       RenewLost, RenewRaises
  <2> QED
    BY <2>1
<1> QED
  BY <1>4, <1>5, <1>6, <1>7, <1>8, <1>9, <1>10

-----------------------------------------------------------------------------
(* Frames. *)

\* What RowsMoveOn says, of every row.
RowsGoOn ==
  \A j \in Job :
    /\ row[j].status # "absent" => row'[j].status # "absent"
    /\ row[j].status \in {"succeeded", "failed"} =>
         row'[j].status = row[j].status /\ row'[j].pdf = row[j].pdf
    /\ row[j].pdf # NULL => row'[j].pdf = row[j].pdf

LEMMA RowsAreFinal ==
  ASSUME IInv, [Next]_vars
  PROVE  RowsGoOn
BY RowsMoveOn DEF RowsGoOn

LEMMA SameRowsGoOn ==
  ASSUME UNCHANGED row
  PROVE  RowsGoOn
BY DEF RowsGoOn

\* What a client was told and given stays true while rows go on.
LEMMA ClientFrame ==
  ASSUME ApiInv, RowsGoOn, UNCHANGED clientVars
  PROVE  DeliveredIsRegistered' /\ NewsStaysTrue'
<1> USE DEF clientVars
<1>1. DeliveredIsRegistered'
  <2>1. SUFFICES ASSUME NEW c \in Client, NEW i \in Id, cached[c][i] # NULL
                 PROVE  IF i \in Job
                        THEN /\ row'[i].status = "succeeded"
                             /\ cached[c][i] = [pdf |-> row'[i].pdf,
                                                form |-> "sound"]
                        ELSE cached[c][i].form # "headless"
    BY DEF DeliveredIsRegistered
  <2> QED
    BY <2>1 DEF ApiInv, DeliveredIsRegistered, RowsGoOn
<1>2. NewsStaysTrue'
  BY DEF ApiInv, NewsStaysTrue, RowsGoOn
<1> QED
  BY <1>1, <1>2

\* A request that a step does not touch.
SameRequest(d) ==
  /\ at'[d] = at[d] /\ target'[d] = target[d] /\ stamp'[d] = stamp[d]
  /\ digest'[d] = digest[d] /\ content'[d] = content[d]

LEMMA RequestFrame ==
  ASSUME ApiInv, RowsGoOn, source \subseteq source',
         clock \in Nat, clock' \in Nat, clock <= clock',
         NEW d \in Client, SameRequest(d)
  PROVE  UploadOK(d)' /\ DownloadOK(d)'
<1> USE DEF SameRequest
<1>1. UploadOK(d) /\ DownloadOK(d) /\ stamp[d] \in Nat
  BY DEF ApiInv, ApiTypeOK, Time
<1>2. UploadOK(d)'
  BY <1>1 DEF UploadOK, RowsGoOn
<1>3. DownloadOK(d)'
  BY <1>1 DEF DownloadOK, StatusOf, DigestOf, RowsGoOn
<1> QED
  BY <1>2, <1>3

\* A step of one client: the types of the requests, and the other clients.
LEMMA ContinueFrame ==
  ASSUME ApiInv, NEW c \in Client, NEW label \in Place,
         NEW i \in Id \cup {NULL}, NEW time \in Time,
         NEW pdf \in Bytes \cup {NULL}, NEW bytes \in Content \cup {NULL},
         Continue(c, label, i, time, pdf, bytes)
  PROVE  /\ at' \in [Client -> Place]
         /\ target' \in [Client -> Id \cup {NULL}]
         /\ stamp' \in [Client -> Time]
         /\ digest' \in [Client -> Bytes \cup {NULL}]
         /\ content' \in [Client -> Content \cup {NULL}]
         /\ at'[c] = label /\ target'[c] = i /\ stamp'[c] = time
         /\ digest'[c] = pdf /\ content'[c] = bytes
         /\ \A d \in Client : d # c => SameRequest(d)
BY DEF ApiInv, ApiTypeOK, Continue, SameRequest

\* A step in which client c goes on, the tables stay, and c is still in order.
LEMMA RequestKeeps ==
  ASSUME IInv, ApiInv, UNCHANGED vars, NEW c \in Client,
         NEW label \in Place, NEW i \in Id \cup {NULL}, NEW time \in Time,
         NEW pdf \in Bytes \cup {NULL}, NEW bytes \in Content \cup {NULL},
         Continue(c, label, i, time, pdf, bytes),
         source \subseteq source', source' \subseteq Job, UNCHANGED form,
         UNCHANGED clientVars,
         UploadOK(c)' /\ DownloadOK(c)'
  PROVE  ApiInv'
<1> USE DEF vars
<1>1. /\ at' \in [Client -> Place]
      /\ target' \in [Client -> Id \cup {NULL}]
      /\ stamp' \in [Client -> Time]
      /\ digest' \in [Client -> Bytes \cup {NULL}]
      /\ content' \in [Client -> Content \cup {NULL}]
      /\ \A d \in Client : d # c => SameRequest(d)
  BY ContinueFrame
<1>2. ApiTypeOK'
  BY <1>1 DEF ApiInv, ApiTypeOK, clientVars
<1>3. RowsGoOn
  BY SameRowsGoOn
<1>4. SourcePrecedesRow'
  BY DEF ApiInv, SourcePrecedesRow
<1>5. DeliveredIsRegistered' /\ NewsStaysTrue'
  BY <1>3, ClientFrame
<1>6. clock \in Nat /\ clock' \in Nat /\ clock <= clock'
  BY DEF IInv, TypeOK, Time
<1>7. \A d \in Client : UploadOK(d)' /\ DownloadOK(d)'
  <2>1. SUFFICES ASSUME NEW d \in Client PROVE UploadOK(d)' /\ DownloadOK(d)'
    OBVIOUS
  <2>2. CASE d = c
    BY <2>2
  <2>3. CASE d # c
    BY <1>1, <1>3, <1>6, <2>3, RequestFrame
  <2> QED
    BY <2>2, <2>3
<1> QED
  BY <1>2, <1>4, <1>5, <1>7 DEF ApiInv

-----------------------------------------------------------------------------
(* The steps of a request. *)

\* A request that is over: 404, 304, an error, or a refused file.
LEMMA FinishKeeps ==
  ASSUME IInv, ApiInv, NEW c \in Client, Finish(c),
         UNCHANGED <<vars, source, form, clientVars>>
  PROVE  ApiInv'
<1>1. Continue(c, "idle", NULL, 0, NULL, NULL)
  BY DEF Finish
<1>2. "idle" \in Place /\ 0 \in Time /\ source \subseteq Job
  BY DEF Place, Time, ApiInv, ApiTypeOK
<1>3. at'[c] = "idle"
  BY <1>1 DEF Continue, ApiInv, ApiTypeOK
<1>4. UploadOK(c)' /\ DownloadOK(c)'
  BY <1>3 DEF UploadOK, DownloadOK
<1> QED
  BY <1>1, <1>2, <1>4, RequestKeeps

LEMMA WriteSourceKeeps ==
  ASSUME IInv, ApiInv, NEW c \in Client, WriteSource(c)
  PROVE  ApiInv'
<1>1. PICK j \in Job \ source :
        /\ source' = source \cup {j}
        /\ Continue(c, "insert", j, clock, NULL, NULL)
  BY DEF WriteSource
<1>2. "insert" \in Place /\ clock \in Time /\ source \subseteq Job
  BY DEF Place, IInv, TypeOK, ApiInv, ApiTypeOK
<1>3. UNCHANGED <<vars, form, clientVars>> /\ clock' = clock /\ clock \in Nat
  BY DEF WriteSource, vars, IInv, TypeOK, Time
<1>4. at'[c] = "insert" /\ target'[c] = j /\ stamp'[c] = clock
  BY <1>1 DEF Continue, ApiInv, ApiTypeOK
<1>5. UploadOK(c)' /\ DownloadOK(c)'
  BY <1>1, <1>3, <1>4 DEF UploadOK, DownloadOK
<1> QED
  BY <1>1, <1>2, <1>3, <1>5, RequestKeeps

\* The row is inserted with its source in place.
LEMMA InsertKeeps ==
  ASSUME IInv, ApiInv, NEW c \in Client, Insert(c), [Next]_vars
  PROVE  ApiInv'
<1> DEFINE j == target[c]
<1>1. /\ at[c] = "insert" /\ CreateJob(j, stamp[c])
      /\ Continue(c, "inserted", j, 0, NULL, NULL)
      /\ UNCHANGED <<clock, source, form, clientVars>>
  BY DEF Insert
<1>2. j \in source /\ j \in Job
  BY <1>1 DEF ApiInv, ApiTypeOK, UploadOK
<1>3. "inserted" \in Place /\ 0 \in Time /\ clock \in Nat
  BY DEF Place, Time, IInv, TypeOK
<1>4. /\ at' \in [Client -> Place]
      /\ target' \in [Client -> Id \cup {NULL}]
      /\ stamp' \in [Client -> Time]
      /\ digest' \in [Client -> Bytes \cup {NULL}]
      /\ content' \in [Client -> Content \cup {NULL}]
      /\ at'[c] = "inserted" /\ target'[c] = j
      /\ \A d \in Client : d # c => SameRequest(d)
  BY <1>1, <1>2, <1>3, ContinueFrame
<1>5. ApiTypeOK'
  BY <1>1, <1>4 DEF ApiInv, ApiTypeOK, clientVars
<1>6. RowsGoOn
  BY RowsAreFinal
<1>7. row \in [Job -> Row]
      /\ row' = [row EXCEPT ![j] = [NoRow EXCEPT !.status = "pending",
                                                 !.created = stamp[c]]]
  BY <1>1 DEF CreateJob, IInv, TypeOK
<1>8. SourcePrecedesRow'
  BY <1>1, <1>2, <1>7 DEF ApiInv, SourcePrecedesRow
<1>9. DeliveredIsRegistered' /\ NewsStaysTrue'
  BY <1>1, <1>6, ClientFrame
<1>10. UploadOK(c)' /\ DownloadOK(c)'
  <2>1. row'[j].status = "pending"
    BY <1>2, <1>7 DEF NoRow
  <2> QED
    BY <1>2, <1>4, <2>1 DEF UploadOK, DownloadOK
<1>11. \A d \in Client : UploadOK(d)' /\ DownloadOK(d)'
  <2>1. SUFFICES ASSUME NEW d \in Client PROVE UploadOK(d)' /\ DownloadOK(d)'
    OBVIOUS
  <2>2. CASE d = c
    BY <1>10, <2>2
  <2>3. CASE d # c
    BY <1>1, <1>3, <1>4, <1>6, <2>3, RequestFrame
  <2> QED
    BY <2>2, <2>3
<1> QED
  BY <1>5, <1>8, <1>9, <1>11 DEF ApiInv

\* A client hears the status of an existing job, with its digest or without.
LEMMA TellKeeps ==
  ASSUME IInv, ApiInv, NEW c \in Client, NEW i \in Id,
         NEW pdf \in {NULL, DigestOf(i)}, Tell(c, i, pdf),
         StatusOf(i) # "absent", UNCHANGED <<vars, cached>>
  PROVE  /\ heard' \in [Client -> [Id -> [status : Status \cup {"unknown"},
                                          digest : Bytes \cup {NULL}]]]
         /\ NewsStaysTrue' /\ DeliveredIsRegistered'
<1>1. /\ UNCHANGED <<row, cached>>
      /\ \A j \in Job : row[j] \in Row
  BY DEF vars, IInv, TypeOK
<1>2. StatusOf(i) \in Status /\ pdf \in Bytes \cup {NULL}
  BY <1>1 DEF StatusOf, DigestOf, Row, Status
<1>3. heard \in [Client -> [Id -> [status : Status \cup {"unknown"},
                                   digest : Bytes \cup {NULL}]]]
  BY DEF ApiInv, ApiTypeOK
<1> DEFINE news == [status |-> StatusOf(i), digest |-> pdf]
<1>4. heard' = [heard EXCEPT ![c] = [heard[c] EXCEPT ![i] = news]]
  BY DEF Tell
<1>5. news \in [status : Status \cup {"unknown"}, digest : Bytes \cup {NULL}]
  BY <1>2
<1>6. heard[c] \in [Id -> [status : Status \cup {"unknown"},
                           digest : Bytes \cup {NULL}]]
  BY <1>3
<1> HIDE DEF news
<1>7. heard' \in [Client -> [Id -> [status : Status \cup {"unknown"},
                                    digest : Bytes \cup {NULL}]]]
  BY <1>3, <1>4, <1>5, <1>6
<1>8. NewsStaysTrue'
  <2>1. SUFFICES ASSUME NEW d \in Client, NEW j \in Job
        PROVE  /\ heard'[d][j].status # "unknown" => row[j].status # "absent"
               /\ heard'[d][j].status \in {"succeeded", "failed"} =>
                    row[j].status = heard'[d][j].status
               /\ heard'[d][j].digest # NULL =>
                    row[j].pdf = heard'[d][j].digest
    BY <1>1 DEF NewsStaysTrue
  <2>2. CASE d = c /\ j = i
    <3>1. heard'[d][j] = news
      BY <1>3, <1>4, <2>2
    <3> QED
      BY <2>2, <3>1 DEF news, StatusOf, DigestOf
  <2>3. CASE ~ (d = c /\ j = i)
    <3>1. heard'[d][j] = heard[d][j]
      BY <1>3, <1>4, <1>6, <2>3
    <3> QED
      BY <3>1 DEF ApiInv, NewsStaysTrue
  <2> QED
    BY <2>2, <2>3
<1>9. DeliveredIsRegistered'
  BY <1>1 DEF ApiInv, DeliveredIsRegistered
<1> QED
  BY <1>7, <1>8, <1>9

\* The other requests do not notice that one client's request is over.
LEMMA FinishFrame ==
  ASSUME IInv, ApiInv, NEW c \in Client, Finish(c), UNCHANGED <<vars, source>>
  PROVE  /\ at' \in [Client -> Place]
         /\ target' \in [Client -> Id \cup {NULL}]
         /\ stamp' \in [Client -> Time]
         /\ digest' \in [Client -> Bytes \cup {NULL}]
         /\ content' \in [Client -> Content \cup {NULL}]
         /\ \A d \in Client : UploadOK(d)' /\ DownloadOK(d)'
         /\ SourcePrecedesRow'
<1>1. /\ Continue(c, "idle", NULL, 0, NULL, NULL)
      /\ "idle" \in Place /\ 0 \in Time
  BY DEF Finish, Place, Time
<1>2. /\ at' \in [Client -> Place]
      /\ target' \in [Client -> Id \cup {NULL}]
      /\ stamp' \in [Client -> Time]
      /\ digest' \in [Client -> Bytes \cup {NULL}]
      /\ content' \in [Client -> Content \cup {NULL}]
      /\ at'[c] = "idle"
      /\ \A d \in Client : d # c => SameRequest(d)
  BY <1>1, ContinueFrame
<1>3. /\ UNCHANGED <<row, clock, source>>
      /\ clock \in Nat
  BY DEF vars, IInv, TypeOK, Time
<1>4. RowsGoOn
  BY <1>3, SameRowsGoOn
<1>5. ASSUME NEW d \in Client PROVE UploadOK(d)' /\ DownloadOK(d)'
  <2>1. CASE d = c
    BY <1>2, <2>1 DEF UploadOK, DownloadOK
  <2>2. CASE d # c
    BY <1>2, <1>3, <1>4, <2>2, RequestFrame
  <2> QED
    BY <2>1, <2>2
<1>6. SourcePrecedesRow'
  BY <1>3 DEF ApiInv, SourcePrecedesRow
<1> QED
  BY <1>2, <1>5, <1>6

LEMMA CreatedKeeps ==
  ASSUME IInv, ApiInv, NEW c \in Client, Created(c)
  PROVE  ApiInv'
<1>1. /\ Tell(c, target[c], NULL) /\ Finish(c)
      /\ UNCHANGED <<vars, source, form, cached>>
  BY DEF Created
<1>2. target[c] \in Job /\ StatusOf(target[c]) # "absent"
  BY DEF Created, ApiInv, UploadOK, StatusOf
<1>3. /\ heard' \in [Client -> [Id -> [status : Status \cup {"unknown"},
                                       digest : Bytes \cup {NULL}]]]
      /\ NewsStaysTrue' /\ DeliveredIsRegistered'
  BY <1>1, <1>2, TellKeeps
<1> QED
  BY <1>1, <1>3, FinishFrame DEF ApiInv, ApiTypeOK

LEMMA GetJobKeeps ==
  ASSUME IInv, ApiInv, NEW c \in Client, NEW i \in Id, GetJob(c, i)
  PROVE  ApiInv'
<1>1. /\ Tell(c, i, DigestOf(i)) /\ StatusOf(i) # "absent"
      /\ UNCHANGED <<vars, source, form, requestVars, cached>>
  BY DEF GetJob
<1>2. /\ heard' \in [Client -> [Id -> [status : Status \cup {"unknown"},
                                       digest : Bytes \cup {NULL}]]]
      /\ NewsStaysTrue' /\ DeliveredIsRegistered'
  BY <1>1, TellKeeps
<1>3. /\ RowsGoOn /\ UNCHANGED <<row, clock, source>> /\ clock \in Nat
      /\ \A d \in Client : SameRequest(d)
  BY <1>1, SameRowsGoOn DEF vars, requestVars, SameRequest, IInv, TypeOK, Time
<1>4. \A d \in Client : UploadOK(d)' /\ DownloadOK(d)'
  BY <1>3, RequestFrame
<1>5. ApiTypeOK' /\ SourcePrecedesRow'
  BY <1>1, <1>2, <1>3 DEF ApiInv, ApiTypeOK, SourcePrecedesRow, requestVars
<1> QED
  BY <1>2, <1>4, <1>5 DEF ApiInv

LEMMA LookupKeeps ==
  ASSUME IInv, ApiInv, NEW c \in Client, NEW i \in Id, Lookup(c, i)
  PROVE  ApiInv'
<1>1. /\ StatusOf(i) = "succeeded"
      /\ Continue(c, "found", i, 0, DigestOf(i), NULL)
      /\ UNCHANGED <<vars, source, form, clientVars>>
  BY DEF Lookup
<1>2. DigestOf(i) \in Bytes \cup {NULL}
  BY DEF DigestOf, IInv, TypeOK, Row
<1>3. "found" \in Place /\ 0 \in Time /\ source \subseteq Job
  BY DEF Place, Time, ApiInv, ApiTypeOK
<1>4. /\ at'[c] = "found" /\ target'[c] = i /\ digest'[c] = DigestOf(i)
      /\ row' = row
  BY <1>1 DEF Continue, vars, ApiInv, ApiTypeOK
<1>5. UploadOK(c)' /\ DownloadOK(c)'
  BY <1>1, <1>4 DEF UploadOK, DownloadOK, StatusOf, DigestOf
<1> QED
  BY <1>1, <1>2, <1>3, <1>5, RequestKeeps

\* The file was seen, or read: the request knows what it knew of the row.
LEMMA FileKeeps ==
  ASSUME IInv, ApiInv, NEW c \in Client, FileExists(c) \/ ReadFile(c)
  PROVE  ApiInv'
<1>1. PICK label \in {"present", "read"}, bytes \in {NULL, Stored(target[c])} :
        /\ Continue(c, label, target[c], 0, digest[c], bytes)
        /\ label = "read" => bytes # NULL
  BY DEF FileExists, ReadFile
<1>2. /\ at[c] \in {"found", "present"}
      /\ UNCHANGED <<vars, source, form, clientVars>>
  BY DEF FileExists, ReadFile
<1>3. /\ target[c] \in Id /\ StatusOf(target[c]) = "succeeded"
      /\ digest[c] = DigestOf(target[c]) /\ digest[c] \in Bytes \cup {NULL}
  BY <1>2 DEF ApiInv, ApiTypeOK, DownloadOK
<1>4. bytes \in Content \cup {NULL}
  BY <1>3 DEF Stored, Content, ApiInv, ApiTypeOK, IInv, TypeOK
<1>5. label \in Place /\ 0 \in Time /\ source \subseteq Job
  BY DEF Place, Time, ApiInv, ApiTypeOK
<1>6. /\ at'[c] = label /\ target'[c] = target[c] /\ digest'[c] = digest[c]
      /\ content'[c] = bytes /\ row' = row
  BY <1>1, <1>2 DEF Continue, vars, ApiInv, ApiTypeOK
<1>7. UploadOK(c)' /\ DownloadOK(c)'
  BY <1>1, <1>3, <1>6 DEF UploadOK, DownloadOK, StatusOf, DigestOf
<1> QED
  BY <1>1, <1>2, <1>3, <1>4, <1>5, <1>7, RequestKeeps

\* What is delivered passed the test against the digest of a final row.
LEMMA DeliverKeeps ==
  ASSUME IInv, ApiInv, NEW c \in Client, Deliver(c)
  PROVE  ApiInv'
<1> DEFINE i == target[c]
<1>1. /\ at[c] = "read" /\ Acceptable(content[c], digest[c]) /\ Finish(c)
      /\ cached' = [cached EXCEPT ![c] = [cached[c] EXCEPT ![i] = content[c]]]
      /\ UNCHANGED <<vars, source, form, heard>>
  BY DEF Deliver
<1>2. /\ i \in Id /\ StatusOf(i) = "succeeded" /\ digest[c] = DigestOf(i)
      /\ content[c] \in Content
  BY <1>1 DEF ApiInv, ApiTypeOK, DownloadOK
<1>3. cached \in [Client -> [Id -> Content \cup {NULL}]] /\ row' = row
  BY <1>1 DEF ApiInv, ApiTypeOK, vars
<1>4. cached' \in [Client -> [Id -> Content \cup {NULL}]]
  BY <1>1, <1>2, <1>3
<1>5. NewsStaysTrue'
  BY <1>1, <1>3 DEF ApiInv, NewsStaysTrue
<1>6. IF i \in Job
      THEN /\ row[i].status = "succeeded"
           /\ content[c] = [pdf |-> row[i].pdf, form |-> "sound"]
      ELSE content[c].form # "headless"
  <2>1. CASE i \in Job
    <3>1. row[i].pdf # NULL
      BY <1>2, <2>1, RowsAreOK DEF StatusOf, IInv, RowOK
    <3> QED
      BY <1>1, <1>2, <2>1, <3>1 DEF Acceptable, StatusOf, DigestOf, Content
  <2>2. CASE i \notin Job
    BY <1>1, <1>2, <2>2 DEF Acceptable, DigestOf
  <2> QED
    BY <2>1, <2>2
<1>7. DeliveredIsRegistered'
  <2>1. SUFFICES ASSUME NEW d \in Client, NEW k \in Id, cached'[d][k] # NULL
                 PROVE  IF k \in Job
                        THEN /\ row[k].status = "succeeded"
                             /\ cached'[d][k] = [pdf |-> row[k].pdf,
                                                 form |-> "sound"]
                        ELSE cached'[d][k].form # "headless"
    BY <1>3 DEF DeliveredIsRegistered
  <2>2. CASE d = c /\ k = i
    <3>1. cached'[d][k] = content[c]
      BY <1>1, <1>2, <1>3, <2>2
    <3> QED
      BY <1>6, <2>2, <3>1
  <2>3. CASE ~ (d = c /\ k = i)
    <3>1. cached'[d][k] = cached[d][k]
      BY <1>1, <1>2, <1>3, <2>3
    <3> QED
      BY <2>1, <3>1 DEF ApiInv, DeliveredIsRegistered
  <2> QED
    BY <2>2, <2>3
<1> QED
  BY <1>1, <1>4, <1>5, <1>7, FinishFrame DEF ApiInv, ApiTypeOK

LEMMA RequestStepKeeps ==
  ASSUME IInv, ApiInv, NEW c \in Client, RequestStep(c), [Next]_vars
  PROVE  ApiInv'
<1>1. CASE WriteSource(c)
  BY <1>1, WriteSourceKeeps
<1>2. CASE Insert(c)
  BY <1>2, InsertKeeps
<1>3. CASE Created(c)
  BY <1>3, CreatedKeeps
<1>4. ASSUME NEW i \in Id, GetJob(c, i) PROVE ApiInv'
  BY <1>4, GetJobKeeps
<1>5. ASSUME NEW i \in Id, Lookup(c, i) PROVE ApiInv'
  BY <1>5, LookupKeeps
<1>6. CASE FileExists(c) \/ ReadFile(c)
  BY <1>6, FileKeeps
<1>7. CASE Deliver(c)
  BY <1>7, DeliverKeeps
<1>8. CASE FileMissing(c) \/ OpenFails(c) \/ Refuse(c) \/ NotModified(c)
           \/ RequestFails(c)
  <2>1. Finish(c) /\ UNCHANGED <<vars, source, form, clientVars>>
    BY <1>8 DEF FileMissing, OpenFails, Refuse, NotModified, RequestFails
  <2> QED
    BY <2>1, FinishKeeps
<1> QED
  BY <1>1, <1>2, <1>3, <1>4, <1>5, <1>6, <1>7, <1>8 DEF RequestStep

-----------------------------------------------------------------------------
(* The other steps. *)

LEMMA ApiCrashKeeps ==
  ASSUME IInv, ApiInv, ApiCrash
  PROVE  ApiInv'
<1>1. UNCHANGED <<row, clock, source, form, heard, cached>>
  BY DEF ApiCrash, vars, clientVars
<1>2. ApiTypeOK'
  <2>1. 0 \in Time /\ "idle" \in Place
    BY DEF Time, Place
  <2>2. /\ at' \in [Client -> Place]
        /\ target' \in [Client -> Id \cup {NULL}]
        /\ stamp' \in [Client -> Time]
        /\ digest' \in [Client -> Bytes \cup {NULL}]
        /\ content' \in [Client -> Content \cup {NULL}]
    BY <2>1 DEF ApiCrash
  <2> QED
    BY <1>1, <2>2 DEF ApiInv, ApiTypeOK
<1>3. SourcePrecedesRow'
  BY <1>1 DEF ApiInv, SourcePrecedesRow
<1>4. DeliveredIsRegistered' /\ NewsStaysTrue'
  BY <1>1, SameRowsGoOn, ClientFrame DEF clientVars
<1>5. \A d \in Client : UploadOK(d)' /\ DownloadOK(d)'
  BY DEF ApiCrash, UploadOK, DownloadOK
<1> QED
  BY <1>2, <1>3, <1>4, <1>5 DEF ApiInv

LEMMA DamageKeeps ==
  ASSUME IInv, ApiInv, NEW i \in Id, Damage(i)
  PROVE  ApiInv'
<1>1. /\ UNCHANGED <<vars, source, requestVars, clientVars>>
      /\ UNCHANGED <<row, clock>> /\ clock \in Nat
  BY DEF Damage, vars, IInv, TypeOK, Time
<1>2. form' \in [Id -> Form]
  BY DEF Damage, ApiInv, ApiTypeOK
<1>3. ApiTypeOK'
  BY <1>1, <1>2 DEF ApiInv, ApiTypeOK, requestVars, clientVars
<1>4. SourcePrecedesRow'
  BY <1>1 DEF ApiInv, SourcePrecedesRow
<1>5. RowsGoOn
  BY <1>1, SameRowsGoOn
<1>6. DeliveredIsRegistered' /\ NewsStaysTrue'
  BY <1>1, <1>5, ClientFrame
<1>7. \A d \in Client : SameRequest(d)
  BY <1>1 DEF requestVars, SameRequest
<1>8. \A d \in Client : UploadOK(d)' /\ DownloadOK(d)'
  BY <1>1, <1>5, <1>7, RequestFrame
<1> QED
  BY <1>3, <1>4, <1>6, <1>8 DEF ApiInv

LEMMA WorkerStepKeeps ==
  ASSUME IInv, IInv', ApiInv, WorkerStep, [Next]_vars
  PROVE  ApiInv'
<1>1. UNCHANGED <<source, requestVars, clientVars>>
  BY DEF WorkerStep
<1>2. form' \in [Id -> Form]
  BY DEF WorkerStep, FormFollows, ApiInv, ApiTypeOK, Form
<1>3. ApiTypeOK'
  BY <1>1, <1>2 DEF ApiInv, ApiTypeOK, requestVars, clientVars
<1>4. RowsGoOn
  BY RowsAreFinal
<1>5. SourcePrecedesRow'
  <2>1. SUFFICES ASSUME NEW j \in Job, row'[j].status # "absent"
                 PROVE  row[j].status # "absent"
    BY <1>1 DEF ApiInv, SourcePrecedesRow
  <2>2. CASE Tick
    BY <2>1, <2>2 DEF Tick
  <2>3. ASSUME NEW w \in Worker, MainStep(w) \/ RenewerStep(w)
        PROVE  row[j].status # "absent"
    BY <2>1, <2>3, WorkersInsertNothing
  <2> QED
    BY <2>2, <2>3 DEF WorkerStep
<1>6. DeliveredIsRegistered' /\ NewsStaysTrue'
  BY <1>1, <1>4, ClientFrame
<1>7. clock \in Nat /\ clock' \in Nat /\ clock <= clock'
  <2>1. clock \in Nat /\ clock' \in Nat
    BY DEF IInv, TypeOK, Time
  <2>2. CASE Tick
    BY <2>1, <2>2 DEF Tick
  <2>3. ASSUME NEW w \in Worker, MainStep(w) \/ RenewerStep(w)
        PROVE  clock' = clock
    BY <2>3 DEF MainStep, RenewerStep, Start, Poll, Claim, ClaimNone,
       LoadJob, Stop, SweepOrphan, Rest, SweepTmp, SweepOfficial, Stage,
       ConvertOk, StageLost, ConvertFail, DropFailure, AcceptFailure, Record,
       DropResult, KeepResult, Fingerprint, FingerprintFails, GateRefuses,
       GateHolds, Move, MoveFails, Commit, CommitFails, Undo, Raise, Unwind,
       Crash, RenewWake, RenewHeld, RenewLost, RenewRaises, LateRenew
  <2> QED
    BY <2>1, <2>2, <2>3 DEF WorkerStep
<1>8. \A d \in Client : SameRequest(d)
  BY <1>1 DEF requestVars, SameRequest
<1>9. \A d \in Client : UploadOK(d)' /\ DownloadOK(d)'
  BY <1>1, <1>4, <1>7, <1>8, RequestFrame
<1> QED
  BY <1>3, <1>5, <1>6, <1>9 DEF ApiInv

-----------------------------------------------------------------------------
\* A step of the API is, for the workers, the insert of a row or no step.
LEMMA ApiStepIsWorkerStep ==
  ASSUME IInv, ApiInv, [ApiNext]_<<vars, apiVars>>
  PROVE  [Next]_vars
<1>1. ASSUME NEW c \in Client, Insert(c) PROVE Submit(target[c])
                                               /\ target[c] \in Job
  <2>1. target[c] \in Job /\ stamp[c] \in 0 .. clock
    BY <1>1 DEF Insert, ApiInv, ApiTypeOK, UploadOK, IInv, TypeOK, Time
  <2> QED
    BY <1>1, <2>1 DEF Insert, Submit
<1>2. ASSUME NEW c \in Client, RequestStep(c), ~ Insert(c)
      PROVE  UNCHANGED vars
  BY <1>2 DEF RequestStep, WriteSource, Created, GetJob, Lookup, FileExists,
     FileMissing, ReadFile, OpenFails, Refuse, Deliver, NotModified,
     RequestFails
<1>3. CASE WorkerStep
  BY <1>3 DEF WorkerStep, Next
<1>4. CASE ApiCrash \/ \E i \in Id : Damage(i)
  BY <1>4 DEF ApiCrash, Damage
<1>5. CASE UNCHANGED <<vars, apiVars>>
  BY <1>5
<1> QED
  BY <1>1, <1>2, <1>3, <1>4, <1>5 DEF ApiNext, Next

\* At the start nothing is uploaded, asked or told.
LEMMA ApiInitHolds == ApiInit => IInv /\ ApiInv
<1> SUFFICES ASSUME ApiInit PROVE IInv /\ ApiInv
  OBVIOUS
<1>1. IInv
  BY InitHolds DEF ApiInit
<1>2. \A j \in Job : row[j].status = "absent"
  BY DEF ApiInit, Init, RowInit, NoRow
<1>3. ApiTypeOK
  BY DEF ApiInit, RequestInit, ApiTypeOK, Form, Place, Time, Silence
<1>4. SourcePrecedesRow /\ DeliveredIsRegistered /\ NewsStaysTrue
  BY <1>2 DEF ApiInit, RequestInit, SourcePrecedesRow,
     DeliveredIsRegistered, NewsStaysTrue, Silence
<1>5. \A c \in Client : UploadOK(c) /\ DownloadOK(c)
  BY DEF ApiInit, RequestInit, UploadOK, DownloadOK
<1> QED
  BY <1>1, <1>3, <1>4, <1>5 DEF ApiInv

\* The facts about clients and those about workers are preserved together.
THEOREM ApiStepKeeps ==
  IInv /\ ApiInv /\ [ApiNext]_<<vars, apiVars>> => (IInv /\ ApiInv)'
<1> SUFFICES ASSUME IInv, ApiInv, [ApiNext]_<<vars, apiVars>>
             PROVE  IInv' /\ ApiInv'
  OBVIOUS
<1>1. [Next]_vars
  BY ApiStepIsWorkerStep
<1>2. IInv'
  BY <1>1, StepKeepsIInv
<1>3. ASSUME NEW c \in Client, RequestStep(c) PROVE ApiInv'
  BY <1>1, <1>3, RequestStepKeeps
<1>4. CASE WorkerStep
  BY <1>1, <1>2, <1>4, WorkerStepKeeps
<1>5. CASE ApiCrash
  BY <1>2, <1>5, ApiCrashKeeps
<1>6. ASSUME NEW i \in Id, Damage(i) PROVE ApiInv'
  BY <1>6, DamageKeeps
<1>7. CASE UNCHANGED <<vars, apiVars>>
  <2>1. /\ UNCHANGED <<row, clock, source, form, requestVars, clientVars>>
        /\ clock \in Nat
    BY <1>7 DEF vars, apiVars, IInv, TypeOK, Time
  <2>2. ApiTypeOK' /\ SourcePrecedesRow'
    BY <2>1 DEF ApiInv, ApiTypeOK, SourcePrecedesRow, requestVars, clientVars
  <2>3. DeliveredIsRegistered' /\ NewsStaysTrue'
    BY <2>1, SameRowsGoOn, ClientFrame
  <2>4. \A d \in Client : UploadOK(d)' /\ DownloadOK(d)'
    BY <2>1, SameRowsGoOn, RequestFrame DEF requestVars, SameRequest
  <2> QED
    BY <1>2, <2>2, <2>3, <2>4 DEF ApiInv
<1> QED
  BY <1>2, <1>3, <1>4, <1>5, <1>6, <1>7 DEF ApiNext

\* In every behaviour of clients, workers and faults both hold.
THEOREM ApiInvariantHolds == ApiSpec => [](IInv /\ ApiInv)
BY ApiInitHolds, ApiStepKeeps, PTL DEF ApiSpec

\* Next to the API the workers behave as Worker says, so that every theorem
\* about Spec holds of the whole system.
THEOREM ApiImplementsWorker == ApiSpec => Spec
<1>1. ApiInit => Init
  BY DEF ApiInit
<1>2. IInv /\ ApiInv /\ [ApiNext]_<<vars, apiVars>> => [Next]_vars
  BY ApiStepIsWorkerStep
<1> QED
  BY <1>1, <1>2, ApiInvariantHolds, PTL DEF ApiSpec, Spec

\* No row is ever without its source file, whatever fails or is killed.
THEOREM SourcesPrecedeRows == ApiSpec => []SourcePrecedesRow
<1>1. IInv /\ ApiInv => SourcePrecedesRow
  BY DEF ApiInv
<1> QED
  BY <1>1, ApiInvariantHolds, PTL

\* What was delivered stays what the row has the fingerprint of, although the
\* row, the file's existence and its content are read one after the other.
THEOREM DeliveriesAreRegistered == ApiSpec => []DeliveredIsRegistered
<1>1. IInv /\ ApiInv => DeliveredIsRegistered
  BY DEF ApiInv
<1> QED
  BY <1>1, ApiInvariantHolds, PTL

\* What a client was told of a job is never taken back.
THEOREM NewsStayTrue == ApiSpec => []NewsStaysTrue
<1>1. IInv /\ ApiInv => NewsStaysTrue
  BY DEF ApiInv
<1> QED
  BY <1>1, ApiInvariantHolds, PTL

-----------------------------------------------------------------------------
(* A download of an undamaged PDF works, under the conditions under which a  *)
(* succeeded job has its file.  What is new beyond the two invariants:       *)
(* between its reads a download sees one file only.                          *)

\* Nobody makes a damaged file sound again under a reader: what was read of a
\* file that is sound now was read when it was sound, and is what is there.
ReadOK(c) ==
  at[c] = "read" /\ form[target[c]] = "sound" =>
    content[c] = [pdf |-> DigestOf(target[c]), form |-> "sound"]

DownloadInv == IInv /\ FileInv /\ ApiInv /\ \A c \in Client : ReadOK(c)

-----------------------------------------------------------------------------

\* The file of a job that has succeeded, as a reader sees it.
LEMMA SucceededStored ==
  ASSUME IInv, SucceededHasFile, ApiInv, NEW i \in Id,
         StatusOf(i) = "succeeded", form[i] = "sound"
  PROVE  /\ Stored(i) = [pdf |-> DigestOf(i), form |-> "sound"]
         /\ Stored(i) # NULL
<1>1. i \in Job => row[i].pdf # NULL /\ official[i] = row[i].pdf
                   /\ row[i].pdf \in Bytes
  <2>1. SUFFICES ASSUME i \in Job, row[i].status = "succeeded"
                 PROVE  row[i].pdf # NULL /\ official[i] = row[i].pdf
                        /\ row[i].pdf \in Bytes
    BY DEF StatusOf
  <2>2. RowOK(row[i]) /\ row[i] \in Row
    BY <2>1, RowsAreOK DEF IInv, TypeOK
  <2>3. row[i].pdf # NULL /\ official[i] = row[i].pdf
    BY <2>1, <2>2 DEF RowOK, SucceededHasFile
  <2> QED
    BY <2>2, <2>3, RowFields
<1>2. Stored(i) = [pdf |-> DigestOf(i), form |-> "sound"]
  BY <1>1 DEF Stored, DigestOf
<1>3. [pdf |-> DigestOf(i), form |-> "sound"] \in Content
  BY <1>1 DEF DigestOf, Content, Form
<1> QED
  BY <1>2, <1>3, ContentAssumption

\* A step of the workers changes no file of a succeeded job.
LEMMA WorkersLeaveForm ==
  ASSUME IInv, SucceededHasFile, SucceededHasFile', ApiInv, WorkerStep,
         [Next]_vars, NEW i \in Id, StatusOf(i) = "succeeded"
  PROVE  form'[i] = form[i] /\ DigestOf(i)' = DigestOf(i)
<1>1. CASE i \in Job
  <2>1. row[i].status = "succeeded"
    BY <1>1 DEF StatusOf
  <2>2. row'[i].status = "succeeded" /\ row'[i].pdf = row[i].pdf
    BY <1>1, <2>1, RowsMoveOn
  <2>3. official'[i] = official[i]
    BY <1>1, <2>1, <2>2 DEF SucceededHasFile
  <2> QED
    BY <1>1, <2>2, <2>3 DEF WorkerStep, FormFollows, DigestOf
<1>2. CASE i \notin Job
  BY <1>2 DEF WorkerStep, FormFollows, DigestOf
<1> QED
  BY <1>1, <1>2

LEMMA ReadOKFrame ==
  ASSUME NEW c \in Client, ReadOK(c), SameRequest(c),
         at[c] = "read" =>
           /\ form'[target[c]] = "sound" => form[target[c]] = "sound"
           /\ DigestOf(target[c])' = DigestOf(target[c])
  PROVE  ReadOK(c)'
BY DEF ReadOK, SameRequest, DigestOf

\* The steps of requests: only ReadFile reads.
LEMMA RequestKeepsReadOK ==
  ASSUME DownloadInv, NEW c \in Client, RequestStep(c), [Next]_vars,
         NEW d \in Client
  PROVE  ReadOK(d)'
<1>1. IInv /\ ApiInv /\ SucceededHasFile /\ ApiTypeOK /\ ReadOK(d)
      /\ DownloadOK(d)
  BY DEF DownloadInv, FileInv, FilesOK, ApiInv
<1>2. UNCHANGED form
  BY DEF RequestStep, WriteSource, Insert, Created, GetJob, Lookup,
     FileExists, FileMissing, ReadFile, OpenFails, Refuse, Deliver,
     NotModified, RequestFails
<1>3. CASE SameRequest(d)
  <2>1. SUFFICES ASSUME at[d] = "read"
                 PROVE  DigestOf(target[d])' = DigestOf(target[d])
    BY <1>1, <1>2, <1>3, ReadOKFrame
  <2>2. target'[d] = target[d] /\ StatusOf(target[d]) = "succeeded"
    BY <1>1, <1>3, <2>1 DEF SameRequest, DownloadOK
  <2>3. target[d] \in Job => row'[target[d]].pdf = row[target[d]].pdf
    BY <1>1, <2>2, RowsMoveOn DEF StatusOf
  <2> QED
    BY <2>2, <2>3 DEF DigestOf
<1>4. CASE ReadFile(c) /\ d = c
  <2>1. /\ target[c] \in Id /\ StatusOf(target[c]) = "succeeded"
        /\ UNCHANGED row
    BY <1>1, <1>4 DEF ReadFile, DownloadOK, vars
  <2>2. target'[c] = target[c] /\ content'[c] = Stored(target[c])
    BY <1>1, <1>4 DEF ReadFile, Continue, ApiTypeOK
  <2>3. DigestOf(target[c])' = DigestOf(target[c])
    BY <2>1, <2>2 DEF DigestOf
  <2> QED
    BY <1>1, <1>2, <1>4, <2>1, <2>2, <2>3, SucceededStored DEF ReadOK
<1>5. CASE ~ SameRequest(d) /\ ~ (ReadFile(c) /\ d = c)
  <2>1. at'[d] # "read"
    BY <1>1, <1>5
       DEF RequestStep, WriteSource, Insert, Created, GetJob, Lookup,
           FileExists, FileMissing, ReadFile, OpenFails, Refuse, Deliver,
           NotModified, RequestFails, Continue, Finish, ApiTypeOK,
           SameRequest, requestVars
  <2> QED
    BY <2>1 DEF ReadOK
<1> QED
  BY <1>3, <1>4, <1>5

LEMMA OutsideKeepsReadOK ==
  ASSUME DownloadInv, ApiCrash \/ \E i \in Id : Damage(i), NEW d \in Client
  PROVE  ReadOK(d)'
<1>1. /\ UNCHANGED row /\ ReadOK(d) /\ ApiTypeOK
  BY DEF DownloadInv, ApiInv, ApiCrash, Damage, vars
<1>2. CASE ApiCrash
  BY <1>2 DEF ApiCrash, ReadOK
<1>3. ASSUME NEW i \in Id, Damage(i) PROVE ReadOK(d)'
  <2>1. /\ SameRequest(d)
        /\ \A k \in Id : form'[k] = "sound" => form[k] = "sound"
    BY <1>1, <1>3 DEF Damage, ApiTypeOK, requestVars, SameRequest
  <2>2. at[d] = "read" => target[d] \in Id
    BY DEF DownloadInv, ApiInv, DownloadOK
  <2> QED
    BY <1>1, <2>1, <2>2, ReadOKFrame DEF DigestOf, SameRequest
<1> QED
  BY <1>2, <1>3

\* DownloadInv is inductive: the file that a download reads is the file of its
\* row, as no worker touches it once the job has succeeded.
THEOREM DownloadStep ==
  ASSUME Lossless
  PROVE  DownloadInv /\ [ApiNext]_<<vars, apiVars>> => DownloadInv'
<1> SUFFICES ASSUME DownloadInv, [ApiNext]_<<vars, apiVars>>
             PROVE  DownloadInv'
  OBVIOUS
<1>1. IInv /\ FileInv /\ ApiInv /\ SucceededHasFile
  BY DEF DownloadInv, FileInv, FilesOK
<1>2. [Next]_vars
  BY <1>1, ApiStepIsWorkerStep
<1>3. IInv' /\ FileInv' /\ ApiInv'
  BY <1>1, <1>2, ApiStepKeeps, FileStep
<1>4. ASSUME NEW d \in Client PROVE ReadOK(d)'
  <2>1. CASE \E c \in Client : RequestStep(c)
    BY <1>2, <2>1, RequestKeepsReadOK
  <2>2. CASE ApiCrash \/ \E i \in Id : Damage(i)
    BY <2>2, OutsideKeepsReadOK
  <2>3. CASE WorkerStep
    <3>1. SameRequest(d) /\ ReadOK(d)
      BY <2>3 DEF WorkerStep, requestVars, SameRequest, DownloadInv
    <3>2. at[d] = "read" => target[d] \in Id
                            /\ StatusOf(target[d]) = "succeeded"
      BY <1>1 DEF ApiInv, DownloadOK
    <3>3. SucceededHasFile'
      BY <1>3 DEF FileInv, FilesOK
    <3> QED
      BY <1>1, <1>2, <2>3, <3>1, <3>2, <3>3, WorkersLeaveForm, ReadOKFrame
         DEF SameRequest, DigestOf
  <2>4. CASE UNCHANGED <<vars, apiVars>>
    BY <2>4 DEF vars, apiVars, requestVars, DownloadInv, ReadOK, DigestOf
  <2> QED
    BY <2>1, <2>2, <2>3, <2>4 DEF ApiNext
<1> QED
  BY <1>3, <1>4 DEF DownloadInv

\* A download of a succeeded job whose file nobody damaged is answered with its
\* PDF, although the row, the existence of the file and its bytes are read one
\* after the other while workers are killed and jobs are retried.
THEOREM DownloadsWork ==
  ASSUME Lossless
  PROVE  ApiSpec => []DownloadWorks
<1>1. ApiInit => DownloadInv
  <2>1. ApiInit => Init /\ \A c \in Client : ReadOK(c)
    BY DEF ApiInit, RequestInit, ReadOK
  <2> QED
    BY <2>1, ApiInitHolds, InitFiles DEF DownloadInv
<1>2. DownloadInv => DownloadWorks
  <2> SUFFICES ASSUME DownloadInv, NEW c \in Client, target[c] # NULL,
                      form[target[c]] = "sound"
               PROVE  /\ at[c] \in {"found", "present"} =>
                           Stored(target[c]) # NULL
                      /\ at[c] = "read" => Acceptable(content[c], digest[c])
    BY DEF DownloadWorks
  <2>1. /\ IInv /\ ApiInv /\ SucceededHasFile
        /\ DownloadOK(c) /\ ReadOK(c)
    BY DEF DownloadInv, FileInv, FilesOK, ApiInv
  <2>2. CASE at[c] \in {"found", "present"}
    BY <2>1, <2>2, SucceededStored DEF DownloadOK
  <2>3. CASE at[c] = "read"
    BY <2>1, <2>3 DEF DownloadOK, ReadOK, Acceptable
  <2> QED
    BY <2>2, <2>3
<1>3. DownloadInv /\ [ApiNext]_<<vars, apiVars>> => DownloadInv'
  BY DownloadStep
<1> QED
  BY <1>1, <1>2, <1>3, PTL DEF ApiSpec
=============================================================================
