-------------------------- MODULE AcceptanceProofs --------------------------
(***************************************************************************)
(* The acceptance script: it is a client and a hand on the worker that     *)
(* Progress and Api allow, so that what is proved of them holds under it;  *)
(* and no check of it ever fails.                                          *)
(***************************************************************************)
EXTENDS Acceptance, ProgressProofs, ApiProofs

USE AcceptanceAssumption DEF Id

\* The row of a new job is inserted in the tick in which its source is written.
InsertsNow == at[Verifier] = "insert" => stamp[Verifier] = clock

SystemInv == IInv /\ GhostRests /\ ApiInv /\ ClockStands /\ InsertsNow

\* A step of worker w, by the API's account.
WorkerMoves(w) == (MainStep(w) \/ RenewerStep(w)) /\ WorkerStep

\* What a step of the script, or under it, is to the API and the workers.
SystemStep ==
  \/ RequestStep(Verifier)
  \/ UNCHANGED <<vars, apiVars>>
  \/ \E i \in Id, f \in Form : PutFile(i, f)
  \/ \E w \in Slot : WorkerMoves(w)
  \/ (\E w \in Slot : Restart(w)) /\ UNCHANGED apiVars
  \/ Age /\ UNCHANGED apiVars

LEMMA WorkMoves ==
  ASSUME SystemInv, NEW w \in Slot, Work(w) \/ KeepLease(w) \/ Kill(w)
  PROVE  WorkerMoves(w)
<1>1. w \in Worker
  BY DEF Slot
<1>2. CASE Work(w)
  BY <1>1, <1>2 DEF Work, Proceed, MainStep, WorkerMoves, WorkerStep
<1>3. ASSUME MainStep(w) \/ RenewerStep(w), UNCHANGED <<apiVars, official>>
      PROVE  WorkerMoves(w)
  <2>1. FormFollows
    BY <1>3 DEF apiVars, FormFollows, SystemInv, ApiInv, ApiTypeOK
  <2> QED
    BY <1>1, <1>3, <2>1 DEF apiVars, WorkerMoves, WorkerStep
<1>4. CASE KeepLease(w)
  <2>1. RenewerStep(w) /\ UNCHANGED official
    BY <1>4 DEF KeepLease, Renew, RenewerStep, RenewWake, RenewHeld,
       RenewLost, LateRenew, fileVars
  <2> QED
    BY <1>3, <1>4, <2>1 DEF KeepLease
<1>5. CASE Kill(w)
  <2>1. MainStep(w) /\ UNCHANGED official
    BY <1>5 DEF Kill, MainStep, Crash, fileVars
  <2> QED
    BY <1>3, <1>5, <2>1 DEF Kill
<1> QED
  BY <1>2, <1>4, <1>5

LEMMA ScriptIsClient ==
  ASSUME Post \/ PollStatus \/ GetDownload \/ JudgeDownload \/ ListStorage
  PROVE  RequestStep(Verifier) \/ UNCHANGED <<vars, apiVars>>
<1>1. CASE Post
  BY <1>1 DEF Post, RequestStep
<1>2. CASE PollStatus
  <2>1. Waits[step].about \in Id
    BY <1>2 DEF PollStatus, Waits
  <2> QED
    BY <1>2, <2>1 DEF PollStatus, RequestStep
<1>3. CASE GetDownload
  <2>1. Downloads[step].about \in Id
    BY <1>3 DEF GetDownload, Downloads
  <2> QED
    BY <1>3, <2>1 DEF GetDownload, Answered, NotReady, RequestStep
<1>4. CASE JudgeDownload \/ ListStorage
  BY <1>4 DEF JudgeDownload, ListStorage
<1> QED
  BY <1>1, <1>2, <1>3, <1>4

LEMMA ScriptTurnsFiles ==
  ASSUME Tamper \/ Restore \/ Archive \/ Clean
  PROVE  \E i \in Id, f \in Form : PutFile(i, f)
BY DEF Tamper, Restore, Archive, Clean, Form

LEMMA AcceptanceSteps ==
  ASSUME SystemInv, [AcceptanceNext]_acceptanceVars
  PROVE  SystemStep
<1>1. CASE Post \/ PollStatus \/ GetDownload \/ JudgeDownload \/ ListStorage
  BY <1>1, ScriptIsClient DEF SystemStep
<1>2. CASE Tamper \/ Restore \/ Archive \/ Clean
  BY <1>2, ScriptTurnsFiles DEF SystemStep
<1>3. ASSUME NEW w \in Slot, Work(w) \/ KeepLease(w) \/ Kill(w)
      PROVE  SystemStep
  BY <1>3, WorkMoves DEF SystemStep
<1>4. ASSUME NEW w \in Slot, StartAgain(w) PROVE SystemStep
  BY <1>4 DEF StartAgain, SystemStep
<1>5. CASE PassTime
  BY <1>5 DEF PassTime, SystemStep
<1>6. CASE UNCHANGED acceptanceVars
  BY <1>6 DEF acceptanceVars, SystemStep
<1> QED
  BY <1>1, <1>2, <1>3, <1>4, <1>5, <1>6 DEF AcceptanceNext, Script

-----------------------------------------------------------------------------
(* The workers under the script are those of Progress.                       *)

LEMMA RequestIsProgress ==
  ASSUME SystemInv, RequestStep(Verifier)
  PROVE  [ProgressNext]_vars
<1>1. CASE Insert(Verifier)
  <2>1. target[Verifier] \in Job /\ stamp[Verifier] = clock
    BY <1>1 DEF Insert, SystemInv, ApiInv, ApiTypeOK, UploadOK, InsertsNow
  <2>2. Upload(target[Verifier])
    BY <1>1, <2>1 DEF Insert, Upload
  <2> QED
    BY <2>1, <2>2 DEF ProgressNext
<1>2. CASE ~ Insert(Verifier)
  BY <1>2 DEF RequestStep, WriteSource, Created, GetJob, Lookup, FileExists,
     FileMissing, ReadFile, OpenFails, Refuse, Deliver, NotModified,
     RequestFails
<1> QED
  BY <1>1, <1>2

LEMMA SystemIsProgress ==
  ASSUME SystemInv, SystemStep
  PROVE  [ProgressNext]_vars
<1>1. CASE RequestStep(Verifier)
  BY <1>1, RequestIsProgress
<1>2. CASE ~ RequestStep(Verifier)
  BY <1>2 DEF SystemStep, PutFile, WorkerMoves, ProgressNext
<1> QED
  BY <1>1, <1>2

-----------------------------------------------------------------------------
(* What clients were told and given stays true under the script.             *)

LEMMA PutFileKeeps ==
  ASSUME SystemInv, NEW i \in Id, NEW f \in Form, PutFile(i, f)
  PROVE  ApiInv'
<1>1. /\ UNCHANGED <<vars, source, requestVars, clientVars>>
      /\ UNCHANGED <<row, clock>> /\ clock \in Nat
  BY DEF PutFile, vars, SystemInv, IInv, TypeOK, Time
<1>2. form' \in [Id -> Form] /\ ApiInv
  BY DEF PutFile, SystemInv, ApiInv, ApiTypeOK
<1>3. ApiTypeOK' /\ SourcePrecedesRow'
  BY <1>1, <1>2 DEF ApiInv, ApiTypeOK, SourcePrecedesRow, requestVars,
     clientVars
<1>4. DeliveredIsRegistered' /\ NewsStaysTrue'
  BY <1>1, <1>2, SameRowsGoOn, ClientFrame
<1>5. \A d \in Client : UploadOK(d)' /\ DownloadOK(d)'
  BY <1>1, <1>2, SameRowsGoOn, RequestFrame DEF requestVars, SameRequest
<1> QED
  BY <1>3, <1>4, <1>5 DEF ApiInv

\* A step that leaves the API alone, and of the rows status and result.
LEMMA AloofKeeps ==
  ASSUME SystemInv, UNCHANGED <<apiVars, clock>>,
         \A j \in Job : row'[j].status = row[j].status
                        /\ row'[j].pdf = row[j].pdf
  PROVE  ApiInv'
<1>1. /\ UNCHANGED <<source, form, requestVars, clientVars>>
      /\ clock' = clock /\ clock \in Nat /\ ApiInv
  BY DEF apiVars, SystemInv, IInv, TypeOK, Time
<1>2. RowsGoOn
  BY DEF RowsGoOn
<1>3. ApiTypeOK' /\ SourcePrecedesRow'
  BY <1>1 DEF ApiInv, ApiTypeOK, SourcePrecedesRow, requestVars, clientVars
<1>4. DeliveredIsRegistered' /\ NewsStaysTrue'
  BY <1>1, <1>2, ClientFrame
<1>5. \A d \in Client : UploadOK(d)' /\ DownloadOK(d)'
  BY <1>1, <1>2, RequestFrame DEF requestVars, SameRequest
<1> QED
  BY <1>3, <1>4, <1>5 DEF ApiInv

LEMMA SystemKeepsApi ==
  ASSUME SystemInv, SystemStep
  PROVE  ApiInv'
<1>1. IInv /\ ApiInv /\ row \in [Job -> Row]
  BY DEF SystemInv, IInv, TypeOK
<1>2. CASE RequestStep(Verifier) \/ UNCHANGED <<vars, apiVars>>
  <2>1. [ApiNext]_<<vars, apiVars>>
    BY <1>2 DEF ApiNext
  <2> QED
    BY <1>1, <2>1, ApiStepKeeps
<1>3. CASE \E w \in Slot : WorkerMoves(w)
  <2>1. [ApiNext]_<<vars, apiVars>>
    BY <1>3 DEF ApiNext, WorkerMoves
  <2> QED
    BY <1>1, <2>1, ApiStepKeeps
<1>4. CASE \E i \in Id, f \in Form : PutFile(i, f)
  BY <1>4, PutFileKeeps
<1>5. ASSUME NEW w \in Slot, Restart(w), UNCHANGED apiVars PROVE ApiInv'
  <2>1. ASSUME NEW j \in Job
        PROVE  row'[j].status = row[j].status /\ row'[j].pdf = row[j].pdf
    BY <1>1, <1>5 DEF Restart, Row
  <2> QED
    BY <1>5, <2>1, AloofKeeps DEF Restart
<1>6. CASE Age /\ UNCHANGED apiVars
  BY <1>1, <1>6, AgedLeases, AloofKeeps DEF Age
<1> QED
  BY <1>2, <1>3, <1>4, <1>5, <1>6 DEF SystemStep

\* Only a request that writes a source comes to its insert.
LEMMA SystemInsertsNow ==
  ASSUME SystemInv, SystemStep
  PROVE  InsertsNow'
<1>1. clock' = clock
  <2>1. ClockStands /\ ClockStands'
    BY SystemIsProgress, ClockStandsStill DEF SystemInv
  <2> QED
    BY <2>1 DEF ClockStands
<1>2. CASE UNCHANGED requestVars
  BY <1>1, <1>2 DEF requestVars, SystemInv, InsertsNow
<1>3. CASE RequestStep(Verifier)
  <2>1. ApiTypeOK
    BY DEF SystemInv, ApiInv
  <2>2. CASE WriteSource(Verifier)
    BY <1>1, <2>1, <2>2 DEF WriteSource, Continue, ApiTypeOK, InsertsNow
  <2>3. CASE ~ WriteSource(Verifier) /\ ~ UNCHANGED requestVars
    <3>1. at'[Verifier] # "insert"
      BY <1>3, <2>1, <2>3 DEF RequestStep, Insert, Created, GetJob, Lookup,
         FileExists, FileMissing, ReadFile, OpenFails, Refuse, Deliver,
         NotModified, RequestFails, Continue, Finish, ApiTypeOK
    <3> QED
      BY <3>1 DEF InsertsNow
  <2> QED
    BY <1>2, <2>2, <2>3
<1> QED
  BY <1>2, <1>3 DEF SystemStep, PutFile, WorkerMoves, WorkerStep, apiVars

LEMMA AcceptanceInitHolds == AcceptanceInit => SystemInv
<1> SUFFICES ASSUME AcceptanceInit PROVE SystemInv
  OBVIOUS
<1>1. IInv /\ GhostRests /\ ClockStands
  BY ProgressInitHolds, ProgressInitFiles DEF AcceptanceInit
<1>2. \A j \in Job : row[j].status = "absent"
  BY DEF AcceptanceInit, ProgressInit, NoRow
<1>3. ApiTypeOK
  BY WorkerAssumption DEF AcceptanceInit, RequestInit, ApiTypeOK, Form, Place,
     Time, Silence
<1>4. SourcePrecedesRow /\ DeliveredIsRegistered /\ NewsStaysTrue
  BY <1>2 DEF AcceptanceInit, RequestInit, SourcePrecedesRow,
     DeliveredIsRegistered, NewsStaysTrue, Silence
<1>5. InsertsNow /\ \A c \in Client : UploadOK(c) /\ DownloadOK(c)
  BY DEF AcceptanceInit, RequestInit, UploadOK, DownloadOK, InsertsNow
<1> QED
  BY <1>1, <1>3, <1>4, <1>5 DEF ApiInv, SystemInv

LEMMA SystemInvStep ==
  SystemInv /\ [AcceptanceNext]_acceptanceVars
    => SystemInv' /\ [ProgressNext]_vars
<1> SUFFICES ASSUME SystemInv, [AcceptanceNext]_acceptanceVars
             PROVE  SystemInv' /\ [ProgressNext]_vars
  OBVIOUS
<1>1. SystemStep
  BY AcceptanceSteps
<1>2. [ProgressNext]_vars
  BY <1>1, SystemIsProgress
<1>3. IInv' /\ GhostRests' /\ ClockStands'
  BY <1>2, ProgressStepKeeps, ClockStandsStill DEF SystemInv
<1>4. ApiInv' /\ InsertsNow'
  BY <1>1, SystemKeepsApi, SystemInsertsNow
<1> QED
  BY <1>2, <1>3, <1>4 DEF SystemInv

\* Under the script rows, processes, files, requests and answers agree: with
\* damage to a published file, a killed worker and a row that comes and goes.
THEOREM ScriptKeepsOrder == AcceptanceSpec => [](IInv /\ ApiInv)
<1>1. SystemInv => IInv /\ ApiInv
  BY DEF SystemInv
<1> QED
  BY <1>1, AcceptanceInitHolds, SystemInvStep, PTL DEF AcceptanceSpec

\* The workers under the script are those of Progress, so that what no step of
\* theirs may do is not done under it either.
THEOREM ScriptRunsProgress ==
  AcceptanceSpec => ProgressInit /\ [][ProgressNext]_vars
<1>1. AcceptanceInit => ProgressInit
  BY DEF AcceptanceInit
<1> QED
  BY <1>1, AcceptanceInitHolds, SystemInvStep, PTL DEF AcceptanceSpec

-----------------------------------------------------------------------------
(* No check fails.  It takes the conditions of docker-compose.yml: one       *)
(* worker, a second attempt, and renewals in time.                           *)

AsComposed ==
  /\ Timely
  /\ MaxAttempts > 1
  /\ \E w \in Worker : Slot = {w}

UntilKill  == {"upload", "watch", "kill"}
UntilEarly == UntilKill \cup {"start", "early"}
UntilAwait == UntilEarly \cup {"await"}

Altering == {"tampered", "conditional", "unchanged", "restore"}
Archiving == {"archived", "legacy", "noMatch", "clean"}

\* The requests of the script are the ones its place asks for ...
RequestOK ==
  /\ at[Verifier] \in {"insert", "inserted"} =>
       step \in DOMAIN Uploads /\ target[Verifier] = Uploads[step].about
  /\ at[Verifier] \in {"found", "present", "read"} =>
       step \in DOMAIN Downloads /\ target[Verifier] = Downloads[step].about
  /\ at[Verifier] = "read" =>
       content[Verifier] = [pdf  |-> DigestOf(target[Verifier]),
                            form |-> form[target[Verifier]]]

\* ... and the answers the ones it accepts there.
ReplyOK ==
  reply # NULL =>
    /\ at[Verifier] = "idle"
    /\ step \in DOMAIN Downloads
    /\ LET ask == Downloads[step] IN
       /\ reply \in ask.accept
       /\ reply = "200" => cached[Verifier][ask.about].pdf =
                             heard[Verifier][ask.about].digest

FilesAsLeft ==
  /\ form[Heavy] = IF step \in Altering THEN "altered" ELSE "sound"
  /\ form[Legacy] = IF step \in Archiving THEN "sound" ELSE "gone"

\* A processing heavy document is in the hands of the worker, or its first
\* attempt is the one that was killed.
Finishing ==
  {"staged", "converted", "fingerprint", "publish", "gated", "moved"}
Attended ==
  \E w \in Slot : /\ row[Heavy].owner = w /\ job[w] = Heavy
                  /\ pc[w] \in Claiming \cup {"convert"} \cup Finishing
Orphaned == row[Heavy].attempts = 1 /\ \A w \in Slot : job[w] # Heavy

HeavyWaits ==
  row[Heavy].status \in {"absent", "pending"} =>
    row[Heavy].attempts = 0 /\ step \in {"upload", "watch"}
HeavyRuns ==
  row[Heavy].status = "processing" =>
    /\ step \in UntilAwait
    /\ step \in UntilKill => Attended /\ row[Heavy].attempts = 1
    /\ step \in {"start", "early"} => Orphaned /\ row[Heavy].expires >= clock
    /\ step = "await" => Orphaned \/ (Attended /\ row[Heavy].attempts > 1)
HeavyDone ==
  row[Heavy].status = "succeeded" =>
    step \notin UntilEarly /\ row[Heavy].attempts > 1
HeavyTold ==
  step \notin UntilAwait =>
    /\ row[Heavy].status = "succeeded"
    /\ heard[Verifier][Heavy] = [status |-> "succeeded",
                                 digest |-> row[Heavy].pdf]

HeavyOK ==
  /\ row[Heavy].status # "failed"
  /\ HeavyWaits /\ HeavyRuns /\ HeavyDone /\ HeavyTold

OthersOK ==
  /\ row[Broken].status # "succeeded"
  /\ step = "notReady" => row[Broken].status = "failed"
  /\ step \in {"legacy", "noMatch"} =>
       heard[Verifier][Legacy] = [status |-> "succeeded", digest |-> NULL]

\* Only the heavy document comes to a PDF, not before the kill, and the worker
\* has no temp file but the one it works on.
WorkOK(w) ==
  /\ pc[w] \in Finishing => job[w] = Heavy /\ step \notin UntilKill
  /\ pc[w] \in {"failed", "record"} => job[w] = Broken
  /\ pc[w] # "undo"
  /\ DOMAIN tmp =
       IF pc[w] = "staged" THEN {MyPart(w)}
       ELSE IF pc[w] \in {"converted", "fingerprint", "publish", "gated"}
       THEN {MyPath(w)} ELSE {}

ScriptInv ==
  /\ NoCheckFails
  /\ RequestOK /\ ReplyOK /\ FilesAsLeft
  /\ HeavyOK /\ OthersOK
  /\ \A w \in Slot : WorkOK(w)

AllInv == SystemInv /\ FileInv /\ ScriptInv

LEMMA Asks ==
  /\ DOMAIN Downloads =
       {"early", "download", "revalidate", "mismatch", "tampered",
        "conditional", "restored", "notReady", "legacy", "noMatch"}
  /\ \A s \in {"early", "download", "revalidate", "mismatch", "tampered",
               "conditional", "restored"} : Downloads[s].about = Heavy
  /\ Downloads["notReady"].about = Broken
  /\ \A s \in {"legacy", "noMatch"} : Downloads[s].about = Legacy
  /\ \A s \in {"download", "mismatch", "tampered", "restored", "legacy"} :
       ~ Downloads[s].match
  /\ \A s \in {"revalidate", "conditional", "noMatch"} : Downloads[s].match
  /\ \A s \in {"download", "mismatch", "restored", "legacy", "noMatch"} :
       Downloads[s].accept = {"200"}
  /\ Downloads["revalidate"].accept = {"304"}
  /\ \A s \in {"tampered", "conditional"} :
       Downloads[s].accept = {"ARTIFACT_CORRUPTED"}
  /\ \A s \in {"early", "notReady"} : "JOB_NOT_READY" \in Downloads[s].accept
BY DEF Downloads

LEMMA Places ==
  /\ DOMAIN Uploads = {"upload", "uploadBroken"}
  /\ Uploads["upload"] = [about |-> Heavy, then |-> "watch"]
  /\ Uploads["uploadBroken"] = [about |-> Broken, then |-> "awaitBroken"]
  /\ DOMAIN Waits = {"watch", "await", "unchanged", "awaitBroken", "archived"}
  /\ \A s \in {"watch", "await", "unchanged"} : Waits[s].about = Heavy
  /\ Waits["awaitBroken"].about = Broken /\ Waits["archived"].about = Legacy
  /\ Waits["watch"].for = {"processing"}
  /\ \A s \in {"await", "unchanged", "awaitBroken", "archived"} :
       Waits[s].for = Terminal
BY DEF Uploads, Waits

\* What the other invariants say of the rows, in one place.
LEMMA RowFacts ==
  ASSUME AllInv, NEW j \in Job
  PROVE  /\ row \in [Job -> Row] /\ row[j] \in Row /\ RowOK(row[j])
         /\ row[j].attempts \in Nat /\ clock \in Nat
         /\ row[j].status \in Status
         /\ row[j].status = "succeeded" =>
              /\ row[j].pdf # NULL /\ row[j].pdf \in Bytes
              /\ row[j].error = NULL
              /\ official[j] = row[j].pdf
         /\ row[j].status = "processing" => row[j].expires \in Nat
         /\ row[j].status = "failed" => row[j].error # NULL
<1>1. row \in [Job -> Row] /\ RowOK(row[j]) /\ SucceededHasFile
      /\ clock \in Nat
  BY RowsAreOK DEF AllInv, SystemInv, FileInv, FilesOK, IInv, TypeOK, Time
<1>2. row[j] \in Row
  BY <1>1
<1> QED
  BY <1>1, <1>2, RowFields DEF RowOK, SucceededHasFile, Row


\* The worker has the lease of what it works on, and nobody renews for it.
Tending == Claiming \cup {"convert"} \cup Finishing

LEMMA WorkerHasLease ==
  ASSUME AsComposed, AllInv, NEW w \in Slot,
         pc[w] \in Tending \cup {"failed", "record"}
  PROVE  /\ job[w] \in Job
         /\ row[job[w]].owner = w
         /\ row[job[w]].status = "processing"
         /\ row[job[w]].expires \in Nat /\ clock < row[job[w]].expires
         /\ row[job[w]].pdf = NULL
         /\ pc[w] \notin Claiming => renewer[w].state \in {"wait", "call"}
<1>1. w \in Worker /\ ClaimOK(w) /\ KeepsLease(w) /\ JobKnown(w)
  BY DEF Slot, AsComposed, AllInv, FileInv, ClaimInv, LeaseKept, SystemInv,
     IInv, ProcessOK
<1>2. job[w] \in Job
  BY <1>1 DEF JobKnown, Working, Tending, Claiming, Finishing
<1>3. CASE pc[w] \in Claiming
  <2>1. row[job[w]].owner = w /\ clock < row[job[w]].expires
    BY <1>1, <1>3 DEF ClaimOK, LeaseIsYoung, LeaseAsClaimed
  <2> QED
    BY <1>1, <1>2, <1>3, <2>1, RowFacts, RepositoryAssumption DEF RowOK
<1>4. CASE pc[w] \notin Claiming
  <2>1. Engaged(w)
    BY <1>4 DEF Engaged, Converting, Tending, Finishing
  <2>2. /\ row[job[w]].owner = w /\ row[job[w]].status = "processing"
        /\ row[job[w]].expires \in Nat /\ row[job[w]].pdf = NULL
    BY <1>1, <1>2, <2>1, RowFacts, RepositoryAssumption DEF KeepsLease, RowOK
  <2>3. renewer[w].at \in Nat /\ clock \in Nat
    BY <1>1 DEF AllInv, SystemInv, IInv, TypeOK, Thread, Time
  <2> QED
    BY <1>1, <1>2, <2>1, <2>2, <2>3 DEF KeepsLease
<1> QED
  BY <1>3, <1>4

\* With one worker, to attend to the heavy document is to be at work on it.
LEMMA WhoAttends ==
  ASSUME AsComposed, AllInv, NEW w \in Slot
  PROVE  /\ \A v \in Slot : v = w
         /\ Attended <=> pc[w] \in Tending /\ job[w] = Heavy
<1>1. \A v \in Slot : v = w
  BY DEF AsComposed
<1> QED
  BY <1>1, WorkerHasLease DEF Attended, Tending

\* The worker neither loses its lease nor its file.
LEMMA NothingIsLost ==
  ASSUME AsComposed, AllInv, NEW w \in Slot
  PROVE  /\ ~ StageLost(w) /\ ~ DropResult(w) /\ ~ FingerprintFails(w)
         /\ ~ GateRefuses(w) /\ ~ MoveFails(w) /\ ~ Undo(w)
         /\ ~ LateRenew(w) /\ ~ SweepOrphan(w)
<1>1. WorkOK(w) /\ late = {}
  BY DEF AllInv, ScriptInv, FileInv, ClaimInv
<1>2. ~ StageLost(w) /\ ~ FingerprintFails(w) /\ ~ MoveFails(w) /\ ~ Undo(w)
  BY <1>1 DEF WorkOK, StageLost, FingerprintFails, MoveFails, Undo
<1>3. ~ LateRenew(w) /\ ~ SweepOrphan(w)
  BY <1>1 DEF WorkOK, LateRenew, SweepOrphan
<1>4. ~ DropResult(w)
  BY WorkerHasLease DEF DropResult, Tending, Finishing, Claiming
<1>5. ~ GateRefuses(w)
  <2>1. SUFFICES ASSUME GateRefuses(w) PROVE FALSE
    OBVIOUS
  <2>2. /\ row[job[w]].owner = w /\ row[job[w]].status = "processing"
        /\ row[job[w]].expires \in Nat /\ clock < row[job[w]].expires
        /\ row[job[w]].pdf = NULL
    BY <2>1, WorkerHasLease DEF GateRefuses, Tending, Finishing
  <2>3. sampled[w] \in Nat /\ clock \in Nat /\ sampled[w] <= clock
    BY DEF AllInv, SystemInv, IInv, TypeOK, Time, ProcessOK, Slot
  <2>4. PublishGate(row[job[w]], w, sampled[w])
    BY <2>2, <2>3, RepositoryAssumption DEF PublishGate, Holds
  <2> QED
    BY <2>1, <2>4 DEF GateRefuses
<1> QED
  BY <1>2, <1>3, <1>4, <1>5

\* A step after which the heavy document is where it was.
LEMMA HeavyFrame ==
  ASSUME AllInv, UNCHANGED <<step, heard, clock>>,
         /\ row'[Heavy].status = row[Heavy].status
         /\ row'[Heavy].attempts = row[Heavy].attempts
         /\ row'[Heavy].pdf = row[Heavy].pdf,
         row[Heavy].status = "processing" =>
           /\ Attended => Attended'
           /\ Orphaned => Orphaned'
           /\ step \in {"start", "early"} =>
                row'[Heavy].expires >= clock
  PROVE  HeavyOK'
<1>1. HeavyOK
  BY DEF AllInv, ScriptInv
<1>2. (row'[Heavy].status # "failed" /\ HeavyWaits' /\ HeavyDone' /\ HeavyTold')
  BY <1>1 DEF HeavyOK, HeavyWaits, HeavyDone, HeavyTold
<1>3. HeavyRuns'
  BY <1>1 DEF HeavyOK, HeavyRuns
<1> QED
  BY <1>2, <1>3 DEF HeavyOK


-----------------------------------------------------------------------------
(* The steps of the worker.                                                  *)

\* Steps that leave the table alone, and the job of the worker.
AtWork(w) ==
  \/ Start(w) \/ Poll(w) \/ LoadJob(w) \/ Rest(w)
  \/ SweepTmp(w) \/ SweepOfficial(w) \/ Stage(w) \/ ConvertOk(w)
  \/ ConvertFail(w) \/ DropFailure(w) \/ AcceptFailure(w) \/ KeepResult(w)
  \/ Fingerprint(w) \/ GateHolds(w) \/ Move(w)

LEMMA WorkSteps ==
  ASSUME AsComposed, AllInv, NEW w \in Slot, Work(w)
  PROVE  /\ \/ AtWork(w) \/ Unwind(w) \/ Record(w)
            \/ Claim(w) \/ ClaimNone(w) \/ Commit(w)
         /\ AsTheFixtures(w)
         /\ UNCHANGED <<clock, requestVars, clientVars, scriptVars>>
         /\ FormFollows
<1>1. UNCHANGED clock
  <2>1. Work(w) => WorkerMoves(w)
    BY WorkMoves DEF AllInv
  <2>2. ClockStands /\ ClockStands'
    BY <2>1, SystemIsProgress, ClockStandsStill
       DEF AllInv, SystemInv, SystemStep
  <2> QED
    BY <2>2 DEF ClockStands
<1> QED
  BY <1>1, NothingIsLost DEF Work, Proceed, AtWork

LEMMA AtWorkStays ==
  ASSUME AsComposed, AllInv, NEW w \in Slot, AtWork(w), AsTheFixtures(w)
  PROVE  /\ UNCHANGED <<row, job>>
         /\ pc[w] \in Tending =>
              pc'[w] \in Tending \/ (pc[w] = "convert" /\ pc'[w] = "failed")
         /\ pc[w] \notin Tending => pc'[w] \notin Tending
         /\ pc'[w] \in Finishing =>
              pc[w] \in Finishing \/ (pc[w] = "convert" /\ pc'[w] = "staged")
         /\ pc'[w] \in {"failed", "record"} =>
              pc[w] = "failed" \/ (pc[w] = "convert" /\ pc'[w] = "failed")
         /\ pc'[w] # "undo"
<1>1. pc \in [Worker -> PC] /\ w \in Worker
  BY DEF AllInv, SystemInv, IInv, TypeOK, Slot
<1>2. UNCHANGED <<row, job>>
  BY DEF AtWork, Start, Poll, LoadJob, Rest, SweepTmp, SweepOfficial, Stage,
     ConvertOk, ConvertFail, DropFailure, AcceptFailure, KeepResult,
     Fingerprint, GateHolds, Move
<1>3. CASE Start(w) \/ Poll(w) \/ LoadJob(w) \/ Rest(w) \/ SweepTmp(w)
           \/ SweepOfficial(w) \/ Stage(w) \/ ConvertOk(w)
  BY <1>1, <1>2, <1>3 DEF Start, Poll, LoadJob, Rest, SweepTmp, SweepOfficial,
     Stage, ConvertOk, Goto, Tending, Claiming, Finishing
<1>4. CASE ConvertFail(w) \/ DropFailure(w) \/ AcceptFailure(w)
           \/ KeepResult(w) \/ Fingerprint(w) \/ GateHolds(w) \/ Move(w)
  BY <1>1, <1>2, <1>4 DEF ConvertFail, DropFailure, AcceptFailure,
     KeepResult, Fingerprint, GateHolds, Move, Goto, Tending, Claiming,
     Finishing
<1> QED
  BY <1>3, <1>4 DEF AtWork

\* The worker leaves no file behind, and converts what it may.
LEMMA WorkKeepsTmp ==
  ASSUME AsComposed, AllInv, NEW w \in Slot, Work(w)
  PROVE  WorkOK(w)'
<1>1. /\ WorkOK(w) /\ UNCHANGED step /\ AsTheFixtures(w)
      /\ pc \in [Worker -> PC] /\ w \in Worker
  BY WorkSteps DEF AllInv, ScriptInv, SystemInv, IInv, TypeOK, Slot,
     scriptVars
<1> USE DEF WorkOK, Finishing, Goto
<1>2. CASE Start(w) \/ Poll(w) \/ Claim(w) \/ ClaimNone(w) \/ Rest(w)
           \/ LoadJob(w) \/ SweepOfficial(w) \/ ConvertFail(w)
  BY <1>1, <1>2 DEF AsTheFixtures, Start, Poll, Claim, ClaimNone, Rest, LoadJob,
     SweepOfficial, ConvertFail, fileVars
<1>3. CASE SweepTmp(w)
  BY <1>1, <1>3 DEF SweepTmp, Without
<1>4. CASE DropFailure(w) \/ Record(w)
  <2>1. DOMAIN tmp = {} /\ tmp' = Without({MyPath(w)}) /\ pc'[w] = "unwind"
    BY <1>1, <1>4 DEF DropFailure, Record
  <2> QED
    BY <2>1 DEF Without
<1>5. CASE Unwind(w)
  BY <1>1, <1>5 DEF Unwind, fileVars
<1>6. ASSUME UNCHANGED <<job, seen>>
      PROVE  MyPart(w)' = MyPart(w) /\ MyPath(w)' = MyPath(w)
  BY <1>6 DEF MyPart, MyPath, PartPath, TmpPath
<1>7. CASE Stage(w)
  <2>1. /\ job[w] = Heavy /\ step \notin UntilKill
        /\ DOMAIN tmp = {} /\ tmp' = With(MyPart(w), MyBytes(w))
        /\ pc'[w] = "staged" /\ UNCHANGED <<job, seen>>
    BY <1>1, <1>7 DEF Stage, AsTheFixtures, UntilKill
  <2>2. DOMAIN tmp' = {MyPart(w)}
    BY <2>1 DEF With
  <2> QED
    BY <1>1, <1>6, <2>1, <2>2
<1>8. CASE ConvertOk(w)
  <2>1. /\ DOMAIN tmp = {MyPart(w)} /\ pc[w] = "staged"
        /\ pc'[w] = "converted" /\ UNCHANGED <<job, seen>>
        /\ DOMAIN tmp' = (DOMAIN tmp \ {MyPart(w)}) \cup {MyPath(w)}
    BY <1>1, <1>8 DEF ConvertOk
  <2>2. DOMAIN tmp' = {MyPath(w)}
    BY <2>1
  <2> QED
    BY <1>1, <1>6, <2>1, <2>2
<1>9. CASE AcceptFailure(w) \/ KeepResult(w) \/ Fingerprint(w) \/ GateHolds(w)
  <2>1. UNCHANGED <<job, seen, tmp>>
    BY <1>9 DEF AcceptFailure, KeepResult, Fingerprint, GateHolds, fileVars
  <2> QED
    BY <1>1, <1>6, <1>9, <2>1 DEF AcceptFailure, KeepResult, Fingerprint,
       GateHolds
<1>10. CASE Move(w) \/ Commit(w)
  <2>1. /\ pc[w] \in {"gated", "moved"} /\ UNCHANGED <<job, seen>>
        /\ pc[w] = "gated" => pc'[w] = "moved" /\ tmp' = Without({MyPath(w)})
        /\ pc[w] = "moved" => pc'[w] = "unwind" /\ tmp' = tmp
    BY <1>1, <1>10 DEF Move, Commit, fileVars
  <2>2. DOMAIN tmp' = {}
    BY <1>1, <2>1 DEF Without
  <2> QED
    BY <1>1, <2>1, <2>2
<1> QED
  BY WorkSteps, <1>2, <1>3, <1>4, <1>5, <1>7, <1>8, <1>9, <1>10 DEF AtWork


\* The heavy document when the worker asks for a job.
LEMMA HeavyAtClaim ==
  ASSUME AsComposed, AllInv, NEW w \in Slot, pc[w] = "claim"
  PROVE  /\ ~ Exhausted(row[Heavy], sampled[w])
         /\ Eligible(row[Heavy], sampled[w]) =>
              \/ row[Heavy].attempts = 0 /\ step \in {"upload", "watch"}
              \/ row[Heavy].attempts = 1 /\ step = "await"
<1>1. /\ ~ Attended /\ HeavyOK
      /\ row[Heavy].status = "processing" => row[Heavy].expires \in Nat
      /\ clock \in Nat
  BY WhoAttends, RowFacts DEF Tending, Claiming, Finishing, AllInv, ScriptInv
<1>2. sampled[w] \in Nat /\ sampled[w] <= clock
  BY DEF AllInv, SystemInv, IInv, TypeOK, Time, ProcessOK, Slot
<1>3. row[Heavy].status = "processing" =>
        /\ row[Heavy].attempts = 1
        /\ step = "await" \/ row[Heavy].expires >= clock
  BY <1>1 DEF HeavyOK, HeavyRuns, UntilAwait, UntilEarly, Orphaned
<1>4. Expired(row[Heavy], sampled[w]) =>
        row[Heavy].attempts = 1 /\ step = "await"
  BY <1>1, <1>2, <1>3 DEF Expired
<1>5. MaxAttempts \in Nat /\ MaxAttempts > 1
  BY RepositoryAssumption DEF AsComposed
<1>6. ~ Exhausted(row[Heavy], sampled[w])
  BY <1>4, <1>5 DEF Exhausted
<1> QED
  BY <1>1, <1>4, <1>6 DEF Eligible, HeavyOK, HeavyWaits

LEMMA ClaimKeepsHeavy ==
  ASSUME AsComposed, AllInv, NEW w \in Slot, Claim(w),
         UNCHANGED <<step, heard, clock>>
  PROVE  HeavyOK'
<1>1. /\ pc[w] = "claim" /\ pc \in [Worker -> PC] /\ w \in Worker
      /\ job \in [Worker -> Job \cup {NULL}] /\ row[Heavy] \in Row
      /\ row \in [Job -> Row]
  BY RowFacts DEF Claim, AllInv, SystemInv, IInv, TypeOK, Slot
<1>2. PICK j \in Job : /\ ClaimNextJob(j, w, sampled[w])
                       /\ job' = [job EXCEPT ![w] = j]
  BY DEF Claim
<1>3. /\ pc'[w] = "claimed" /\ job'[w] = j /\ \A v \in Slot : v = w
      /\ ~ Attended
  BY <1>1, <1>2, WhoAttends DEF Claim, Goto, Tending, Claiming, Finishing
<1>4. CASE j = Heavy
  <2>1. row'[Heavy] = Claimed(row[Heavy], w, sampled[w])
    BY <1>1, <1>2, <1>4 DEF ClaimNextJob, AfterReap
  <2>2. /\ row'[Heavy].status = "processing" /\ row'[Heavy].owner = w
        /\ row'[Heavy].attempts = row[Heavy].attempts + 1
    BY <1>1, <2>1 DEF Claimed, Row
  <2>3. Attended'
    BY <1>3, <1>4, <2>2 DEF Attended, Claiming
  <2>4. \/ row[Heavy].attempts = 0 /\ step \in {"upload", "watch"}
        \/ row[Heavy].attempts = 1 /\ step = "await"
    BY <1>1, <1>2, <1>4, HeavyAtClaim DEF ClaimNextJob, Oldest
  <2> QED
    BY <2>2, <2>3, <2>4 DEF HeavyOK, HeavyWaits, HeavyRuns, HeavyDone,
       HeavyTold, UntilAwait, UntilEarly, UntilKill
<1>5. CASE j # Heavy
  <2>1. row'[Heavy] = row[Heavy]
    BY <1>1, <1>2, <1>5, HeavyAtClaim DEF ClaimNextJob, AfterReap
  <2>2. Orphaned => Orphaned'
    BY <1>3, <1>5, <2>1 DEF Orphaned
  <2>3. row[Heavy].status = "processing" /\ step \in {"start", "early"} =>
          row'[Heavy].expires >= clock
    BY <2>1 DEF AllInv, ScriptInv, HeavyOK, HeavyRuns
  <2> QED
    BY <1>3, <2>1, <2>2, <2>3, HeavyFrame
<1> QED
  BY <1>4, <1>5

\* The heavy document is published in its second attempt.
LEMMA CommitKeepsHeavy ==
  ASSUME AsComposed, AllInv, NEW w \in Slot, Commit(w),
         UNCHANGED <<step, heard>>
  PROVE  HeavyOK'
<1>1. /\ pc[w] = "moved" /\ job[w] = Heavy /\ step \notin UntilKill
      /\ HeavyOK
  BY DEF Commit, AllInv, ScriptInv, WorkOK, Finishing
<1>2. row[Heavy].status = "processing"
  BY <1>1, WorkerHasLease DEF Tending, Finishing
<1>3. step = "await" /\ row[Heavy].attempts > 1
  BY <1>1, <1>2 DEF HeavyOK, HeavyRuns, Orphaned, UntilAwait, UntilEarly
<1>4. row'[Heavy] = Published(row[Heavy], fp[w])
  BY <1>1, RowFacts DEF Commit, PublishSuccess
<1>5. /\ row'[Heavy].status = "succeeded"
      /\ row'[Heavy].attempts = row[Heavy].attempts
  BY <1>4, RowFacts DEF Published, Row
<1> QED
  BY <1>3, <1>5 DEF HeavyOK, HeavyWaits, HeavyRuns, HeavyDone, HeavyTold,
     UntilAwait, UntilEarly, UntilKill

LEMMA WorkKeepsHeavy ==
  ASSUME AsComposed, AllInv, NEW w \in Slot, Work(w)
  PROVE  HeavyOK'
<1>1. /\ UNCHANGED <<step, heard, clock>> /\ AsTheFixtures(w)
      /\ job \in [Worker -> Job \cup {NULL}] /\ w \in Worker
      /\ row \in [Job -> Row]
  BY WorkSteps DEF clientVars, scriptVars, AllInv, SystemInv, IInv, TypeOK,
     Slot
<1>2. row[Heavy].status = "processing" /\ step \in {"start", "early"} =>
        row[Heavy].expires >= clock
  BY DEF AllInv, ScriptInv, HeavyOK, HeavyRuns
<1>3. \A v \in Slot : v = w
  BY WhoAttends
<1>4. CASE AtWork(w)
  <2>1. UNCHANGED <<row, job>>
    BY <1>1, <1>4, AtWorkStays
  <2>2. ASSUME Attended PROVE Attended'
    <3>1. pc[w] \in Tending /\ job[w] = Heavy /\ row[Heavy].owner = w
      BY <1>3, <2>2, WhoAttends DEF Attended
    <3>2. pc'[w] \in Tending
      BY <1>1, <1>4, <3>1, AtWorkStays DEF AsTheFixtures
    <3> QED
      BY <2>1, <3>1, <3>2 DEF Attended, Tending
  <2> QED
    BY <1>1, <1>2, <2>1, <2>2, HeavyFrame DEF Orphaned
<1>5. CASE Unwind(w)
  <2>1. /\ UNCHANGED row /\ pc[w] = "unwind" /\ job'[w] = NULL
    BY <1>1, <1>5 DEF Unwind, Forget
  <2>2. ~ Attended /\ (Orphaned => Orphaned')
    BY <1>3, <2>1, WhoAttends, RepositoryAssumption
       DEF Tending, Claiming, Finishing, Orphaned
  <2> QED
    BY <1>1, <1>2, <2>1, <2>2, HeavyFrame
<1>6. CASE Record(w)
  <2>1. pc[w] = "record" /\ job[w] = Broken /\ UNCHANGED job
    BY <1>6 DEF Record, AllInv, ScriptInv, WorkOK
  <2>2. row'[Heavy] = row[Heavy]
    BY <1>1, <1>6, <2>1 DEF Record, RecordFailure
  <2>3. ~ Attended
    BY <2>1, WhoAttends
  <2> QED
    BY <1>1, <1>2, <2>1, <2>2, <2>3, HeavyFrame DEF Orphaned
<1>7. CASE ClaimNone(w)
  <2>1. pc[w] = "claim" /\ UNCHANGED job
    BY <1>7 DEF ClaimNone
  <2>2. row'[Heavy] = row[Heavy]
    BY <1>7, <2>1, HeavyAtClaim DEF ClaimNone, ClaimNothing, AfterReap
  <2>3. ~ Attended
    BY <2>1, WhoAttends DEF Tending, Claiming, Finishing
  <2> QED
    BY <1>1, <1>2, <2>1, <2>2, <2>3, HeavyFrame DEF Orphaned
<1> QED
  BY <1>1, <1>4, <1>5, <1>6, <1>7, WorkSteps, ClaimKeepsHeavy,
     CommitKeepsHeavy


\* The renewer and the passage of time change no more than the lease.
LEMMA RenewalKeepsWork ==
  ASSUME AsComposed, AllInv, NEW w \in Slot, KeepLease(w)
  PROVE  HeavyOK' /\ WorkOK(w)'
<1>1. /\ RenewWake(w) \/ RenewHeld(w) \/ RenewLost(w)
      /\ UNCHANGED <<apiVars, scriptVars>>
  BY NothingIsLost DEF KeepLease, Renew
<1>2. /\ UNCHANGED <<clock, pc, job, seen, tmp, step, heard>>
      /\ row \in [Job -> Row] /\ row[Heavy] \in Row
  BY <1>1, RowFacts DEF RenewWake, RenewHeld, RenewLost, procVars, fileVars,
     apiVars, clientVars, scriptVars
<1>3. /\ row'[Heavy].status = row[Heavy].status
      /\ row'[Heavy].attempts = row[Heavy].attempts
      /\ row'[Heavy].pdf = row[Heavy].pdf
      /\ row'[Heavy].owner = row[Heavy].owner
      /\ job[w] # Heavy => row'[Heavy] = row[Heavy]
  BY <1>1, <1>2 DEF RenewWake, RenewHeld, RenewLost, RenewLease, Row
<1>4. row[Heavy].status = "processing" /\ step \in {"start", "early"} =>
        row'[Heavy].expires >= clock
  BY <1>3 DEF AllInv, ScriptInv, HeavyOK, HeavyRuns, Orphaned
<1>5. HeavyOK'
  BY <1>2, <1>3, <1>4, HeavyFrame DEF Attended, Orphaned
<1>6. WorkOK(w)'
  BY <1>2 DEF AllInv, ScriptInv, WorkOK, MyPart, MyPath, PartPath, TmpPath
<1> QED
  BY <1>5, <1>6

LEMMA TimeKeepsWork ==
  ASSUME AsComposed, AllInv, NEW w \in Slot, PassTime
  PROVE  HeavyOK' /\ WorkOK(w)'
<1>1. /\ Age /\ IInv /\ w \in Worker /\ UNCHANGED <<step, heard>>
  BY DEF PassTime, AllInv, SystemInv, Slot, apiVars, clientVars, scriptVars
<1>2. /\ UNCHANGED <<clock, pc, job, tmp>>
      /\ row[Heavy] \in Row /\ Rank(Heavy) \in Nat /\ seen[w] \in Row
      /\ row'[Heavy] = Aged(row[Heavy], Rank(Heavy))
      /\ seen'[w] = Aged(seen[w], 0)
  BY <1>1, RowFacts, RankType DEF Age, fileVars, IInv, TypeOK
<1>3. /\ row'[Heavy].status = row[Heavy].status
      /\ row'[Heavy].attempts = row[Heavy].attempts
      /\ row'[Heavy].pdf = row[Heavy].pdf
      /\ row'[Heavy].owner = row[Heavy].owner
      /\ seen'[w].attempts = seen[w].attempts
  BY <1>2, AgedFields
<1>4. row[Heavy].status = "processing" /\ step \in {"start", "early"} =>
        row'[Heavy].expires >= clock
  <2>1. SUFFICES ASSUME row[Heavy].status = "processing",
                        step \in {"start", "early"}
                 PROVE  row'[Heavy].expires >= clock
    OBVIOUS
  <2>2. row[Heavy].expires \in Nat /\ clock \in Nat
        /\ row[Heavy].expires > clock
    BY <2>1, RowFacts DEF PassTime
  <2>3. row'[Heavy].expires = row[Heavy].expires - 1
    BY <1>1, <2>2, AgedLeases
  <2> QED
    BY <2>2, <2>3
<1>5. HeavyOK'
  BY <1>1, <1>2, <1>3, <1>4, HeavyFrame DEF Attended, Orphaned
<1>6. WorkOK(w)'
  BY <1>1, <1>2, <1>3 DEF AllInv, ScriptInv, WorkOK, MyPart, MyPath, PartPath,
     TmpPath
<1> QED
  BY <1>5, <1>6

\* The kill finds the worker in its first attempt at the heavy document, with
\* more than no time left of the lease.
LEMMA KillKeepsWork ==
  ASSUME AsComposed, AllInv, NEW w \in Slot, Kill(w)
  PROVE  HeavyOK' /\ WorkOK(w)'
<1>1. /\ step = "kill" /\ step' = "start" /\ UNCHANGED <<row, clock, tmp>>
      /\ pc'[w] = "dead" /\ job'[w] = NULL /\ w \in Worker
      /\ \A v \in Slot : v = w
  BY WhoAttends DEF Kill, Crash, Forget, Goto, fileVars, AllInv, SystemInv,
     IInv, TypeOK, Slot
<1>2. row[Heavy].status = "processing"
  BY <1>1, RowFacts DEF AllInv, ScriptInv, HeavyOK, HeavyWaits, HeavyDone,
     Status, UntilEarly, UntilKill
<1>3. pc[w] \in Tending /\ job[w] = Heavy /\ row[Heavy].attempts = 1
  BY <1>1, <1>2, WhoAttends DEF AllInv, ScriptInv, HeavyOK, HeavyRuns,
     UntilKill
<1>4. row[Heavy].expires \in Nat /\ clock < row[Heavy].expires
  BY <1>3, WorkerHasLease
<1>5. Orphaned' /\ row'[Heavy].expires >= clock'
  BY <1>1, <1>3, <1>4, RowFacts, RepositoryAssumption DEF Orphaned
<1>6. HeavyOK'
  BY <1>1, <1>2, <1>5 DEF HeavyOK, HeavyWaits, HeavyRuns, HeavyDone,
     HeavyTold, UntilAwait, UntilEarly, UntilKill
<1>7. DOMAIN tmp = {}
  <2>1. pc[w] \notin Finishing /\ WorkOK(w)
    BY <1>1 DEF AllInv, ScriptInv, WorkOK, UntilKill
  <2> QED
    BY <2>1 DEF WorkOK, Finishing
<1> QED
  BY <1>1, <1>6, <1>7 DEF WorkOK, Finishing

LEMMA StartKeepsWork ==
  ASSUME AsComposed, AllInv, NEW w \in Slot, StartAgain(w)
  PROVE  HeavyOK' /\ WorkOK(w)'
<1>1. /\ step = "start" /\ step' = "early" /\ UNCHANGED <<clock, tmp, job>>
      /\ pc[w] = "dead" /\ pc'[w] = "new" /\ w \in Worker
      /\ row' = [j \in Job |->
                   [row[j] EXCEPT !.owner = IF @ = w THEN Ghost ELSE @]]
  BY DEF StartAgain, Restart, Goto, fileVars, AllInv, SystemInv, IInv, TypeOK,
     Slot
<1>2. /\ row'[Heavy].status = row[Heavy].status
      /\ row'[Heavy].attempts = row[Heavy].attempts
      /\ row'[Heavy].expires = row[Heavy].expires
  BY <1>1, RowFacts DEF Row
<1>3. HeavyOK /\ WorkOK(w)
  BY DEF AllInv, ScriptInv
<1>4. HeavyOK'
  BY <1>1, <1>2, <1>3 DEF HeavyOK, HeavyWaits, HeavyRuns, HeavyDone,
     HeavyTold, UntilAwait, UntilEarly, UntilKill, Orphaned
<1> QED
  BY <1>1, <1>3, <1>4 DEF WorkOK, Finishing

\* Meanwhile the requests, answers and files of the script stay as they are.
LEMMA ScriptFrame ==
  ASSUME AllInv, SucceededHasFile', RowsGoOn, FormFollows,
         UNCHANGED <<requestVars, clientVars, scriptVars>>,
         row'[Broken].status # "succeeded"
  PROVE  /\ RequestOK' /\ ReplyOK' /\ FilesAsLeft' /\ OthersOK'
         /\ NoCheckFails'
<1>1. /\ RequestOK /\ ReplyOK /\ FilesAsLeft /\ OthersOK /\ NoCheckFails
      /\ HeavyOK
  BY DEF AllInv, ScriptInv
<1>2. UNCHANGED <<at, target, content, heard, cached, step, reply>>
  BY DEF requestVars, clientVars, scriptVars
<1>3. NoCheckFails' /\ ReplyOK' /\ OthersOK'
  BY <1>1, <1>2 DEF NoCheckFails, ReplyOK, OthersOK, RowsGoOn
<1>4. FilesAsLeft'
  <2>1. form'[Legacy] = form[Legacy]
    BY ApiAssumption DEF FormFollows
  <2>2. CASE step \notin Altering
    BY <1>1, <1>2, <2>1, <2>2 DEF FormFollows, FilesAsLeft
  <2>3. CASE step \in Altering
    <3>1. row[Heavy].status = "succeeded"
      BY <1>1, <2>3 DEF HeavyOK, HeavyTold, Altering, UntilAwait, UntilEarly,
         UntilKill
    <3>2. official'[Heavy] = official[Heavy]
      BY <3>1, RowFacts DEF SucceededHasFile, RowsGoOn
    <3> QED
      BY <1>1, <1>2, <2>1, <2>3, <3>2 DEF FormFollows, FilesAsLeft
  <2> QED
    BY <2>2, <2>3
<1>5. RequestOK'
  <2>1. SUFFICES ASSUME at[Verifier] = "read"
                 PROVE  /\ DigestOf(target[Verifier])' =
                             DigestOf(target[Verifier])
                        /\ form'[target[Verifier]] = form[target[Verifier]]
    BY <1>1, <1>2 DEF RequestOK
  <2>2. /\ target[Verifier] \in Id /\ target' = target
        /\ StatusOf(target[Verifier]) = "succeeded"
    BY <1>2, <2>1 DEF AllInv, SystemInv, ApiInv, DownloadOK
  <2>3. target[Verifier] \in {Heavy, Legacy}
    BY <1>1, <2>2 DEF StatusOf, OthersOK
  <2>4. form'[target[Verifier]] = form[target[Verifier]]
    BY <1>1, <1>2, <1>4, <2>3 DEF FilesAsLeft
  <2>5. target[Verifier] \in Job =>
          row'[target[Verifier]].pdf = row[target[Verifier]].pdf
    BY <2>2 DEF StatusOf, RowsGoOn
  <2> QED
    BY <2>2, <2>4, <2>5 DEF DigestOf
<1> QED
  BY <1>3, <1>4, <1>5


-----------------------------------------------------------------------------
(* The steps of the script.                                                  *)

LEMMA WorkFrame ==
  ASSUME AllInv, UNCHANGED <<pc, job, seen, tmp>>,
         step' \in UntilKill => step \in UntilKill
  PROVE  \A w \in Slot : WorkOK(w)'
BY DEF AllInv, ScriptInv, WorkOK, MyPart, MyPath, PartPath, TmpPath

\* From its delivery on, what the script was told of the heavy document is so.
LEMMA HeavyFacts ==
  ASSUME AllInv, step \notin UntilAwait
  PROVE  /\ row[Heavy].status = "succeeded" /\ row[Heavy].attempts > 1
         /\ row[Heavy].pdf # NULL /\ row[Heavy].pdf \in Bytes
         /\ row[Heavy].error = NULL /\ official[Heavy] = row[Heavy].pdf
         /\ heard[Verifier][Heavy] = [status |-> "succeeded",
                                      digest |-> row[Heavy].pdf]
BY RowFacts DEF AllInv, ScriptInv, HeavyOK, HeavyTold, HeavyDone

LEMMA PostKeeps ==
  ASSUME AllInv, Post
  PROVE  ScriptInv'
<1>1. /\ ApiTypeOK /\ RequestOK /\ FilesAsLeft /\ HeavyOK /\ OthersOK
      /\ reply = NULL /\ reply' = NULL /\ UNCHANGED <<form, cached>>
      /\ row \in [Job -> Row] /\ Verifier \in Client
      /\ step \in {"upload", "uploadBroken"}
  BY Asks, Places, RowFacts DEF Post, AllInv, ScriptInv, ReplyOK, SystemInv,
     ApiInv, WriteSource, Insert, Created, clientVars
<1>2. CASE WriteSource(Verifier) /\ target'[Verifier] = Uploads[step].about
           /\ UNCHANGED step
  <2>1. UNCHANGED vars /\ UNCHANGED clientVars /\ at'[Verifier] = "insert"
    BY <1>1, <1>2 DEF WriteSource, Continue, ApiTypeOK
  <2>2. HeavyOK'
    BY <1>1, <1>2, <2>1 DEF vars, clientVars, procVars, HeavyOK, HeavyWaits,
       HeavyRuns, HeavyDone, HeavyTold, Attended, Orphaned
  <2>3. \A w \in Slot : WorkOK(w)'
    BY <1>2, <2>1, WorkFrame DEF vars, procVars, fileVars
  <2> QED
    BY <1>1, <1>2, <2>1, <2>2, <2>3, Places DEF ScriptInv, NoCheckFails,
       RequestOK, ReplyOK, FilesAsLeft, OthersOK, vars, clientVars
<1>3. CASE Insert(Verifier) /\ UNCHANGED step
  <2> DEFINE i == target[Verifier]
  <2>1. /\ i = Uploads[step].about /\ i \in Job
        /\ at'[Verifier] = "inserted" /\ target'[Verifier] = i
        /\ UNCHANGED <<clock, pc, job, seen, tmp, heard>>
        /\ row[i].status = "absent"
        /\ row' = [row EXCEPT ![i] = [NoRow EXCEPT !.status = "pending",
                                         !.created = stamp[Verifier]]]
    BY <1>1, <1>3, Places DEF Insert, CreateJob, Continue, ApiTypeOK,
       RequestOK, procVars, fileVars, clientVars
  <2>2. row'[i].status = "pending" /\ row'[i].attempts = 0
    BY <1>1, <2>1 DEF NoRow
  <2>3. HeavyOK'
    <3>1. CASE step = "upload"
      <4>1. i = Heavy
        BY <2>1, <3>1, Places
      <4> QED
        BY <1>3, <2>2, <3>1, <4>1 DEF HeavyOK, HeavyWaits, HeavyRuns,
           HeavyDone, HeavyTold, UntilAwait, UntilEarly, UntilKill
    <3>2. CASE step = "uploadBroken"
      <4>1. i = Broken
        BY <2>1, <3>2, Places
      <4>2. row'[Heavy] = row[Heavy]
        BY <1>1, <2>1, <4>1
      <4> QED
        BY <1>1, <1>3, <2>1, <4>2 DEF HeavyOK, HeavyWaits, HeavyRuns,
           HeavyDone, HeavyTold, Attended, Orphaned
    <3> QED
      BY <1>1, <3>1, <3>2
  <2>4. row'[Broken].status # "succeeded"
    BY <1>1, <2>1, <2>2 DEF OthersOK
  <2>5. \A w \in Slot : WorkOK(w)'
    BY <1>3, <2>1, WorkFrame
  <2> QED
    BY <1>1, <1>3, <2>1, <2>3, <2>4, <2>5, Places DEF ScriptInv,
       NoCheckFails, RequestOK, ReplyOK, FilesAsLeft, OthersOK
<1>4. CASE Created(Verifier) /\ step' = Uploads[step].then
  <2>1. /\ UNCHANGED <<row, clock, pc, job, seen, tmp, source>>
        /\ at'[Verifier] = "idle"
        /\ target[Verifier] = Uploads[step].about
        /\ step' = IF step = "upload" THEN "watch" ELSE "awaitBroken"
        /\ Tell(Verifier, target[Verifier], NULL)
    BY <1>1, <1>4, Places DEF Created, Finish, Continue, ApiTypeOK,
       RequestOK, vars, procVars, fileVars
  <2>2. step = "uploadBroken" =>
          heard'[Verifier][Heavy] = heard[Verifier][Heavy]
    BY <1>1, <2>1, Places DEF Tell, ApiTypeOK
  <2>3. HeavyOK'
    BY <1>1, <2>1, <2>2 DEF HeavyOK, HeavyWaits, HeavyRuns, HeavyDone,
       HeavyTold, UntilAwait, UntilEarly, UntilKill, Attended, Orphaned
  <2>4. \A w \in Slot : WorkOK(w)'
    BY <1>1, <2>1, WorkFrame DEF UntilKill
  <2>5. OthersOK' /\ FilesAsLeft'
    BY <1>1, <2>1 DEF OthersOK, FilesAsLeft, Altering, Archiving
  <2> QED
    BY <1>1, <2>1, <2>3, <2>4, <2>5 DEF ScriptInv, NoCheckFails, RequestOK,
       ReplyOK
<1> QED
  BY <1>2, <1>3, <1>4 DEF Post

\* Every status that the script waits for is the one it wants.
LEMMA StatusKeeps ==
  ASSUME AllInv, PollStatus
  PROVE  ScriptInv'
<1> DEFINE i == Waits[step].about
           news == [status |-> StatusOf(i), digest |-> DigestOf(i)]
<1>1. /\ ApiTypeOK /\ RequestOK /\ FilesAsLeft /\ HeavyOK /\ OthersOK
      /\ NoCheckFails
      /\ reply = NULL /\ reply' = NULL /\ at[Verifier] = "idle"
      /\ UNCHANGED <<form, cached, at, row, clock, pc, job, seen, tmp>>
      /\ row \in [Job -> Row] /\ Verifier \in Client
      /\ step \in {"watch", "await", "unchanged", "awaitBroken", "archived"}
  BY Asks, Places, RowFacts DEF PollStatus, AllInv, ScriptInv, ReplyOK,
     SystemInv, ApiInv, GetJob, vars, procVars, fileVars, requestVars
<1>2. /\ i \in Id /\ Known = news /\ Known.status \in Waits[step].for
      /\ i # Heavy => heard'[Verifier][Heavy] = heard[Verifier][Heavy]
      /\ i = Heavy => heard'[Verifier][Heavy] = news
      /\ i = Legacy => heard'[Verifier][Legacy] = news
  BY <1>1, Places DEF PollStatus, GetJob, Tell, ApiTypeOK, Known
<1>3. CASE step = "watch"
  <2>1. i = Heavy /\ row[Heavy].status = "processing" /\ step' = "kill"
    BY <1>2, <1>3, Places DEF StatusOf, PollStatus, JudgeStatus, Judge
  <2>2. HeavyOK'
    BY <1>1, <1>3, <2>1 DEF HeavyOK, HeavyWaits, HeavyRuns, HeavyDone,
       HeavyTold, UntilAwait, UntilEarly, UntilKill, Attended, Orphaned
  <2> QED
    BY <1>1, <1>3, <2>1, <2>2, WorkFrame DEF ScriptInv, NoCheckFails,
       RequestOK, ReplyOK, FilesAsLeft, OthersOK, UntilKill, Altering,
       Archiving
<1>4. CASE step = "await"
  <2>1. i = Heavy /\ row[Heavy].status = "succeeded"
    BY <1>1, <1>2, <1>4, Places DEF StatusOf, Terminal, HeavyOK
  <2>2. /\ row[Heavy].attempts > 1 /\ row[Heavy].error = NULL
        /\ row[Heavy].pdf # NULL /\ row[Heavy].attempts \in Nat
    BY <1>1, <2>1, RowFacts DEF HeavyOK, HeavyDone
  <2>3. news = [status |-> "succeeded", digest |-> row[Heavy].pdf]
    BY <2>1 DEF StatusOf, DigestOf
  <2>4. step' = "download"
    BY <1>2, <1>4, <2>2, <2>3 DEF PollStatus, JudgeStatus, Judge
  <2>5. HeavyOK'
    BY <1>1, <1>2, <2>1, <2>2, <2>3, <2>4 DEF HeavyOK, HeavyWaits, HeavyRuns,
       HeavyDone, HeavyTold, UntilAwait, UntilEarly, UntilKill
  <2> QED
    BY <1>1, <1>4, <2>4, <2>5, WorkFrame DEF ScriptInv, NoCheckFails,
       RequestOK, ReplyOK, FilesAsLeft, OthersOK, UntilKill, Altering,
       Archiving
<1>5. CASE step = "unchanged"
  <2>1. /\ i = Heavy /\ row[Heavy].status = "succeeded"
        /\ row[Heavy].error = NULL
        /\ heard[Verifier][Heavy] = [status |-> "succeeded",
                                     digest |-> row[Heavy].pdf]
    BY <1>5, Places, HeavyFacts DEF UntilAwait, UntilEarly, UntilKill
  <2>2. news = heard[Verifier][Heavy]
    BY <2>1 DEF StatusOf, DigestOf
  <2>3. step' = "restore"
    BY <1>2, <1>5, <2>1, <2>2 DEF PollStatus, JudgeStatus, Judge
  <2>4. HeavyOK'
    BY <1>1, <1>2, <1>5, <2>1, <2>2, <2>3 DEF HeavyOK, HeavyWaits, HeavyRuns,
       HeavyDone, HeavyTold, UntilAwait, UntilEarly, UntilKill
  <2> QED
    BY <1>1, <1>5, <2>3, <2>4, WorkFrame DEF ScriptInv, NoCheckFails,
       RequestOK, ReplyOK, FilesAsLeft, OthersOK, UntilKill, Altering,
       Archiving
<1>6. CASE step \in {"awaitBroken", "archived"}
  <2>1. step = "awaitBroken" => i = Broken /\ row[Broken].status = "failed"
                                /\ row[Broken].error # NULL
    BY <1>1, <1>2, Places, RowFacts DEF StatusOf, Terminal, OthersOK
  <2>2. step = "archived" =>
          i = Legacy /\ news = [status |-> "succeeded", digest |-> NULL]
    BY Places, ApiAssumption DEF StatusOf, DigestOf
  <2>3. step = "awaitBroken" => step' = "notReady"
    BY <1>2, <2>1 DEF PollStatus, JudgeStatus, Judge, StatusOf
  <2>4. step = "archived" => step' = "legacy"
    BY <1>2, <2>2 DEF PollStatus, JudgeStatus, Judge
  <2>5. heard'[Verifier][Heavy] = heard[Verifier][Heavy]
    BY <1>2, <1>6, <2>1, <2>2, ApiAssumption
  <2>6. HeavyOK'
    BY <1>1, <1>6, <2>3, <2>4, <2>5 DEF HeavyOK, HeavyWaits, HeavyRuns,
       HeavyDone, HeavyTold, UntilAwait, UntilEarly, UntilKill
  <2>7. OthersOK'
    BY <1>1, <1>2, <1>6, <2>1, <2>2, <2>3, <2>4 DEF OthersOK
  <2> QED
    BY <1>1, <1>6, <2>3, <2>4, <2>6, <2>7, WorkFrame DEF ScriptInv,
       NoCheckFails, RequestOK, ReplyOK, FilesAsLeft, UntilKill, Altering,
       Archiving
<1> QED
  BY <1>1, <1>3, <1>4, <1>5, <1>6

\* What a download of the script finds.
LEMMA WhatIsThere ==
  ASSUME AllInv, NEW i \in Id, step \in DOMAIN Downloads,
         i = Downloads[step].about, StatusOf(i) = "succeeded"
  PROVE  /\ i \in {Heavy, Legacy}
         /\ step \notin {"early", "notReady"}
         /\ form[i] = IF step \in Altering THEN "altered" ELSE "sound"
         /\ Stored(i) = [pdf |-> DigestOf(i), form |-> form[i]]
         /\ Stored(i) # NULL
         /\ heard[Verifier][i].digest = DigestOf(i)
         /\ Acceptable(Stored(i), DigestOf(i)) <=>
              step \notin {"tampered", "conditional"}
         /\ DigestOf(i) = NULL <=> i = Legacy
<1>1. /\ ApiTypeOK /\ FilesAsLeft /\ HeavyOK /\ OthersOK
      /\ Heavy \in Job /\ Legacy \notin Job /\ Legacy # Heavy
  BY ApiAssumption DEF AllInv, ScriptInv, SystemInv, ApiInv
<1>2. i # Broken
  BY <1>1 DEF StatusOf, OthersOK
<1>3. CASE i = Heavy
  <2>1. step \in {"download", "revalidate", "mismatch", "tampered",
                  "conditional", "restored"}
    BY <1>1, <1>2, <1>3, Asks, ApiAssumption DEF StatusOf, HeavyOK, HeavyDone,
       UntilEarly
  <2>2. /\ row[Heavy].pdf # NULL /\ row[Heavy].pdf \in Bytes
        /\ official[Heavy] = row[Heavy].pdf
        /\ heard[Verifier][Heavy].digest = row[Heavy].pdf
    BY <2>1, HeavyFacts DEF UntilAwait, UntilEarly, UntilKill
  <2>3. form[i] = IF step \in Altering THEN "altered" ELSE "sound"
    BY <1>1, <1>3 DEF FilesAsLeft
  <2>4. DigestOf(i) = row[Heavy].pdf
    BY <1>1, <1>3 DEF DigestOf
  <2>5. Stored(i) = [pdf |-> DigestOf(i), form |-> form[i]]
    BY <1>1, <1>3, <2>2, <2>3, <2>4 DEF Stored
  <2>6. Stored(i) \in Content
    BY <1>1, <2>2, <2>4, <2>5 DEF Content, ApiTypeOK
  <2>7. Acceptable(Stored(i), DigestOf(i)) <=> form[i] = "sound"
    BY <2>2, <2>4, <2>5 DEF Acceptable
  <2>8. step \in Altering <=> step \in {"tampered", "conditional"}
    BY <2>1 DEF Altering
  <2> QED
    BY <1>1, <1>3, <2>1, <2>2, <2>3, <2>4, <2>5, <2>6, <2>7, <2>8,
       ContentAssumption
<1>4. CASE i = Legacy
  <2>1. step \in {"legacy", "noMatch"}
    BY <1>1, <1>4, Asks, ApiAssumption
  <2>2. form[i] = "sound" /\ step \notin Altering
    BY <1>1, <1>4, <2>1 DEF FilesAsLeft, Archiving, Altering
  <2>3. DigestOf(i) = NULL /\ heard[Verifier][i].digest = NULL
    BY <1>1, <1>4, <2>1 DEF DigestOf, OthersOK
  <2>4. Stored(i) = [pdf |-> DigestOf(i), form |-> form[i]]
    BY <1>1, <1>4, <2>2, <2>3 DEF Stored, DigestOf
  <2>5. Stored(i) \in Content
    BY <1>1, <2>3, <2>4 DEF Content, ApiTypeOK
  <2>6. Acceptable(Stored(i), DigestOf(i))
    BY <2>2, <2>3, <2>4 DEF Acceptable
  <2> QED
    BY <1>1, <1>4, <2>1, <2>2, <2>3, <2>4, <2>5, <2>6, ContentAssumption
<1> QED
  BY <1>2, <1>3, <1>4, Asks

LEMMA AskFrame ==
  ASSUME AllInv, UNCHANGED <<vars, form, heard, step>>
  PROVE  /\ HeavyOK' /\ OthersOK' /\ FilesAsLeft' /\ NoCheckFails'
         /\ \A w \in Slot : WorkOK(w)'
<1>1. HeavyOK /\ OthersOK /\ FilesAsLeft /\ NoCheckFails
  BY DEF AllInv, ScriptInv
<1>2. UNCHANGED <<row, clock, pc, job, seen, tmp>>
  BY DEF vars, procVars, fileVars
<1> QED
  BY <1>1, <1>2, WorkFrame DEF HeavyOK, HeavyWaits, HeavyRuns, HeavyDone,
     HeavyTold, Attended, Orphaned, OthersOK, FilesAsLeft, NoCheckFails

\* A download reads on; it finds the file where it looks for it.
LEMMA ReadsOn ==
  ASSUME AllInv, NEW i \in Id, step \in DOMAIN Downloads,
         i = Downloads[step].about, reply = NULL,
         Lookup(Verifier, i) \/ FileExists(Verifier) \/ ReadFile(Verifier),
         UNCHANGED <<step, reply>>
  PROVE  ScriptInv'
<1>1. /\ ApiTypeOK /\ Verifier \in Client /\ UNCHANGED <<vars, form, heard>>
      /\ DownloadOK(Verifier) /\ RequestOK
  BY DEF Lookup, FileExists, ReadFile, AllInv, ScriptInv, SystemInv, ApiInv,
     clientVars
<1>2. /\ target'[Verifier] = i /\ StatusOf(i) = "succeeded"
      /\ at'[Verifier] \in {"found", "present", "read"}
      /\ at'[Verifier] = "read" => content'[Verifier] = Stored(i)
  BY <1>1 DEF Lookup, FileExists, ReadFile, Continue, ApiTypeOK, RequestOK,
     DownloadOK
<1>3. RequestOK'
  <2>1. /\ Stored(i) = [pdf |-> DigestOf(i), form |-> form[i]]
        /\ DigestOf(i)' = DigestOf(i)
    BY <1>1, <1>2, WhatIsThere DEF DigestOf, vars
  <2>2. DigestOf(target[Verifier])' = DigestOf(i)'
    BY <1>2 DEF DigestOf
  <2> QED
    BY <1>1, <1>2, <2>1, <2>2 DEF RequestOK
<1> QED
  BY <1>1, <1>3, AskFrame DEF ScriptInv, ReplyOK

\* ... and every answer is one that the script accepts.
LEMMA Answers ==
  ASSUME AllInv, step \in DOMAIN Downloads, reply = NULL, Answered,
         UNCHANGED step
  PROVE  ScriptInv'
<1> DEFINE ask == Downloads[step]
           i == target[Verifier]
<1>1. /\ ApiTypeOK /\ Verifier \in Client /\ UNCHANGED <<vars, form, heard>>
      /\ DownloadOK(Verifier) /\ RequestOK /\ at'[Verifier] = "idle"
      /\ OthersOK /\ HeavyOK
  BY DEF Answered, NotReady, FileMissing, OpenFails, Refuse, Deliver,
     NotModified, Finish, Continue, AllInv, ScriptInv, SystemInv, ApiInv,
     ApiTypeOK, apiVars, requestVars, clientVars
<1>2. ASSUME at[Verifier] \in {"found", "present", "read"}
      PROVE  /\ i \in Id /\ i = ask.about /\ StatusOf(i) = "succeeded"
             /\ Stored(i) = [pdf |-> DigestOf(i), form |-> form[i]]
             /\ digest[Verifier] = DigestOf(i) /\ Stored(i) # NULL
             /\ at[Verifier] = "read" => content[Verifier] = Stored(i)
  BY <1>1, <1>2, WhatIsThere DEF DownloadOK, RequestOK
<1>3. reply' \in ask.accept
      /\ (reply' = "200" => /\ at[Verifier] = "read"
                            /\ cached'[Verifier][ask.about] = Stored(i))
  <2>1. CASE NotReady(ask.about) /\ reply' = "JOB_NOT_READY"
    <3>1. StatusOf(ask.about) # "succeeded"
      BY <2>1 DEF NotReady
    <3>2. step \in {"early", "notReady"}
      <4>1. step \in {"legacy", "noMatch"} => StatusOf(ask.about) = "succeeded"
        BY Asks, ApiAssumption DEF StatusOf
      <4>2. step \in {"download", "revalidate", "mismatch", "tampered",
                      "conditional", "restored"} =>
              StatusOf(ask.about) = "succeeded"
        BY Asks, HeavyFacts DEF StatusOf, UntilAwait, UntilEarly, UntilKill
      <4> QED
        BY <3>1, <4>1, <4>2, Asks
    <3> QED
      BY <2>1, <3>2, Asks
  <2>2. ~ FileMissing(Verifier) /\ ~ OpenFails(Verifier)
    BY <1>2 DEF FileMissing, OpenFails
  <2>3. CASE Refuse(Verifier)
             /\ reply' = IF digest[Verifier] # NULL
                         THEN "ARTIFACT_CORRUPTED" ELSE "ARTIFACT_MISSING"
    <3>1. at[Verifier] = "read" /\ ~ Acceptable(Stored(i), DigestOf(i))
      BY <1>2, <2>3 DEF Refuse
    <3>2. /\ step \in {"tampered", "conditional"}
          /\ DigestOf(i) = NULL <=> i = Legacy
      BY <1>2, <3>1, WhatIsThere
    <3>3. i # Legacy
      BY <1>2, <3>1, <3>2, Asks, ApiAssumption
    <3> QED
      BY <1>2, <2>3, <3>1, <3>2, <3>3, Asks
  <2>4. CASE Deliver(Verifier) /\ reply' = "200"
             /\ (ask.match => digest[Verifier] = NULL)
    <3>1. /\ at[Verifier] = "read" /\ Acceptable(Stored(i), DigestOf(i))
          /\ cached'[Verifier][i] = Stored(i)
      BY <1>1, <1>2, <2>4 DEF Deliver, ApiTypeOK
    <3>2. /\ step \notin {"early", "notReady", "tampered", "conditional"}
          /\ i \in {Heavy, Legacy}
          /\ DigestOf(i) = NULL <=> i = Legacy
      BY <1>2, <3>1, WhatIsThere
    <3>3. step # "revalidate"
      BY <1>2, <2>4, <3>1, <3>2, Asks, ApiAssumption
    <3> QED
      BY <1>2, <2>4, <3>1, <3>2, <3>3, Asks
  <2>5. CASE NotModified(Verifier) /\ reply' = "304" /\ ask.match
    <3>1. /\ at[Verifier] = "read" /\ Acceptable(Stored(i), DigestOf(i))
          /\ DigestOf(i) # NULL
      BY <1>2, <2>5 DEF NotModified
    <3>2. step \notin {"early", "notReady", "tampered", "conditional"}
          /\ i = Heavy
      BY <1>2, <3>1, WhatIsThere
    <3>3. step \notin {"legacy", "noMatch"}
      BY <1>2, <3>1, <3>2, Asks, ApiAssumption
    <3>4. step = "revalidate"
      BY <2>5, <3>2, <3>3, Asks
    <3> QED
      BY <2>5, <3>4, Asks
  <2> QED
    BY <2>1, <2>2, <2>3, <2>4, <2>5 DEF Answered
<1>4. ReplyOK'
  <2>1. reply' = "200" => cached'[Verifier][ask.about].pdf =
                            heard[Verifier][ask.about].digest
    BY <1>2, <1>3, WhatIsThere
  <2> QED
    BY <1>1, <1>3, <2>1 DEF ReplyOK
<1>5. RequestOK'
  BY <1>1 DEF RequestOK
<1> QED
  BY <1>1, <1>4, <1>5, AskFrame DEF ScriptInv

LEMMA DownloadKeeps ==
  ASSUME AllInv, GetDownload
  PROVE  ScriptInv'
<1>1. step \in DOMAIN Downloads => Downloads[step].about \in Id
  BY Asks
<1> QED
  BY <1>1, ReadsOn, Answers DEF GetDownload

\* A step of the script alone: to the next check, with the files it leaves.
LEMMA StepOn ==
  ASSUME AllInv, at[Verifier] = "idle", reply' = NULL, FilesAsLeft',
         UNCHANGED <<vars, source, requestVars, clientVars>>,
         step' \notin {"failed", "notReady", "legacy"},
         step' = "noMatch" => step = "legacy",
         \/ step = "early" /\ step' = "await"
         \/ step \notin UntilAwait /\ step' \notin UntilAwait
  PROVE  ScriptInv'
<1>1. /\ UNCHANGED <<row, clock, pc, job, seen, tmp, at, heard>>
      /\ HeavyOK /\ OthersOK
  BY DEF vars, procVars, fileVars, requestVars, clientVars, AllInv, ScriptInv
<1>2. HeavyOK'
  BY <1>1 DEF HeavyOK, HeavyWaits, HeavyRuns, HeavyDone, HeavyTold, UntilAwait,
     UntilEarly, UntilKill, Attended, Orphaned
<1>3. OthersOK' /\ NoCheckFails'
  BY <1>1 DEF OthersOK, NoCheckFails
<1>4. \A w \in Slot : WorkOK(w)'
  BY <1>1, WorkFrame DEF UntilAwait, UntilEarly, UntilKill
<1>5. RequestOK' /\ ReplyOK'
  BY <1>1 DEF RequestOK, ReplyOK
<1> QED
  BY <1>2, <1>3, <1>4, <1>5 DEF ScriptInv

LEMMA JudgeKeeps ==
  ASSUME AllInv, JudgeDownload
  PROVE  ScriptInv'
<1>1. /\ at[Verifier] = "idle" /\ step \in DOMAIN Downloads
      /\ step' = Downloads[step].then /\ reply' = NULL
      /\ UNCHANGED <<vars, apiVars>> /\ FilesAsLeft
  BY DEF JudgeDownload, Judge, AllInv, ScriptInv, ReplyOK
<1>2. \/ step = "early" /\ step' = "await"
      \/ step = "download" /\ step' = "revalidate"
      \/ step = "revalidate" /\ step' = "mismatch"
      \/ step = "mismatch" /\ step' = "storage"
      \/ step = "tampered" /\ step' = "conditional"
      \/ step = "conditional" /\ step' = "unchanged"
      \/ step = "restored" /\ step' = "uploadBroken"
      \/ step = "notReady" /\ step' = "archive"
      \/ step = "legacy" /\ step' = "noMatch"
      \/ step = "noMatch" /\ step' = "clean"
  BY <1>1 DEF Downloads
<1>3. FilesAsLeft'
  BY <1>1, <1>2 DEF FilesAsLeft, Altering, Archiving, apiVars
<1>4. \/ step = "early" /\ step' = "await"
      \/ step \notin UntilAwait /\ step' \notin UntilAwait
  BY <1>2 DEF UntilAwait, UntilEarly, UntilKill
<1> QED
  BY <1>1, <1>2, <1>3, <1>4, StepOn DEF apiVars

\* Between its requests the script looks at the files and turns them.
LEMMA HandKeeps ==
  ASSUME AsComposed, AllInv,
         ListStorage \/ Tamper \/ Restore \/ Archive \/ Clean
  PROVE  ScriptInv'
<1>1. /\ ApiTypeOK /\ RequestOK /\ ReplyOK /\ FilesAsLeft /\ HeavyOK
      /\ Verifier \in Client /\ \A w \in Slot : WorkOK(w)
      /\ Heavy \in Id /\ Legacy \in Id /\ Heavy # Legacy
  BY ApiAssumption DEF AllInv, ScriptInv, SystemInv, ApiInv
<1>2. /\ step \in {"storage", "tamper", "restore", "archive", "clean"}
      /\ UNCHANGED <<vars, source, requestVars, clientVars, reply>>
  BY DEF ListStorage, Tamper, Restore, Archive, Clean, PutFile, apiVars
<1>3. at[Verifier] = "idle" /\ reply = NULL
  BY <1>1, <1>2, Asks, Places DEF RequestOK, ReplyOK, ApiTypeOK, Place
<1>4. step \notin UntilAwait
  BY <1>2 DEF UntilAwait, UntilEarly, UntilKill
<1>5. CASE ListStorage
  <2>1. PICK w \in Slot : WorkOK(w)
    BY <1>1 DEF AsComposed
  <2>2. pc[w] \notin Finishing
    BY <1>4, <2>1, HeavyFacts, WorkerHasLease DEF WorkOK, Tending
  <2>3. DOMAIN tmp = {} /\ official[Heavy] # NULL
    BY <1>4, <2>1, <2>2, HeavyFacts DEF WorkOK, Finishing
  <2>4. step = "storage" /\ step' = "tamper" /\ UNCHANGED form
    BY <1>5, <2>3 DEF ListStorage, Judge, apiVars
  <2>5. FilesAsLeft'
    BY <1>1, <2>4 DEF FilesAsLeft, Altering, Archiving
  <2> QED
    BY <1>2, <1>3, <1>4, <2>4, <2>5, StepOn DEF UntilAwait, UntilEarly,
       UntilKill
<1>6. CASE Tamper \/ Restore \/ Archive \/ Clean
  <2>1. \/ step = "tamper" /\ step' = "tampered" /\ PutFile(Heavy, "altered")
        \/ step = "restore" /\ step' = "restored" /\ PutFile(Heavy, "sound")
        \/ step = "archive" /\ step' = "archived" /\ PutFile(Legacy, "sound")
        \/ step = "clean" /\ step' = "passed" /\ PutFile(Legacy, "gone")
    BY <1>6 DEF Tamper, Restore, Archive, Clean
  <2>2. FilesAsLeft'
    BY <1>1, <2>1 DEF PutFile, ApiTypeOK, FilesAsLeft, Altering, Archiving
  <2>3. step' \in {"tampered", "restored", "archived", "passed"}
    BY <2>1
  <2> QED
    BY <1>2, <1>3, <1>4, <2>2, <2>3, StepOn DEF UntilAwait, UntilEarly,
       UntilKill
<1> QED
  BY <1>5, <1>6

\* No work of the worker brings the broken document a result.
LEMMA BrokenStaysSo ==
  ASSUME AsComposed, AllInv, NEW w \in Slot, MainStep(w) \/ RenewerStep(w),
         row'[Broken].status = "succeeded"
  PROVE  FALSE
<1>1. /\ row \in [Job -> Row] /\ IInv /\ late = {} /\ w \in Worker
      /\ row[Broken].status # "succeeded" /\ WorkOK(w)
  BY DEF AllInv, ScriptInv, OthersOK, SystemInv, IInv, TypeOK, FileInv,
     ClaimInv, Slot
<1>2. CASE Commit(w)
  <2>1. job[w] = Heavy
    BY <1>1, <1>2 DEF Commit, WorkOK, Finishing
  <2>2. row'[Broken] = row[Broken]
    BY <1>1, <1>2, <2>1 DEF Commit, PublishSuccess
  <2> QED
    BY <1>1, <2>2
<1> QED
  BY <1>1, <1>2, OnlyCommitDelivers

\* What a step of a container changes of the script is its place only.
LEMMA StepUnder ==
  ASSUME AllInv, UNCHANGED <<apiVars, reply>>,
         \/ step = "kill" /\ step' = "start"
         \/ step = "start" /\ step' = "early",
         row'[Broken].status = row[Broken].status
  PROVE  /\ RequestOK' /\ ReplyOK' /\ FilesAsLeft' /\ OthersOK'
         /\ NoCheckFails'
<1>1. /\ RequestOK /\ ReplyOK /\ FilesAsLeft /\ OthersOK
      /\ UNCHANGED <<at, form, reply>>
  BY DEF AllInv, ScriptInv, apiVars, requestVars
<1>2. step \notin DOMAIN Uploads /\ step \notin DOMAIN Downloads
  BY Asks, Places
<1>3. RequestOK' /\ ReplyOK'
  BY <1>1, <1>2 DEF RequestOK, ReplyOK
<1> QED
  BY <1>1, <1>3 DEF FilesAsLeft, Altering, Archiving, OthersOK, NoCheckFails

\* The worker, its killer and time.
LEMMA UnderKeeps ==
  ASSUME AsComposed, AllInv, SucceededHasFile', NEW w \in Slot,
         Work(w) \/ KeepLease(w) \/ Kill(w)
  PROVE  ScriptInv'
<1>1. WorkerMoves(w) /\ IInv /\ w \in Worker
  BY WorkMoves DEF AllInv, SystemInv, Slot
<1>2. row'[Broken].status # "succeeded"
  BY <1>1, BrokenStaysSo DEF WorkerMoves
<1>3. RowsGoOn /\ FormFollows
  BY <1>1, RowsAreFinal DEF WorkerMoves, WorkerStep, Next
<1>4. HeavyOK' /\ WorkOK(w)'
  BY WorkKeepsHeavy, WorkKeepsTmp, RenewalKeepsWork, KillKeepsWork
<1>5. \A v \in Slot : v = w
  BY WhoAttends
<1>6. CASE Work(w) \/ KeepLease(w)
  <2>1. UNCHANGED <<requestVars, clientVars, scriptVars>>
    BY <1>6 DEF Work, KeepLease, apiVars
  <2> QED
    BY <1>2, <1>3, <1>4, <1>5, <2>1, ScriptFrame DEF ScriptInv
<1>7. CASE Kill(w)
  <2>1. /\ step = "kill" /\ step' = "start" /\ UNCHANGED <<apiVars, reply>>
        /\ row' = row
    BY <1>7 DEF Kill, Crash
  <2> QED
    BY <1>4, <1>5, <2>1, StepUnder DEF ScriptInv
<1> QED
  BY <1>6, <1>7

LEMMA StartKeeps ==
  ASSUME AsComposed, AllInv, NEW w \in Slot, StartAgain(w)
  PROVE  ScriptInv'
<1>1. /\ step = "start" /\ step' = "early" /\ UNCHANGED <<apiVars, reply>>
      /\ row'[Broken].status = row[Broken].status
  <2>1. row[Broken] \in Row
    BY RowFacts
  <2> QED
    BY <2>1 DEF StartAgain, Restart, Row
<1>2. HeavyOK' /\ WorkOK(w)' /\ \A v \in Slot : v = w
  BY StartKeepsWork, WhoAttends
<1> QED
  BY <1>1, <1>2, StepUnder DEF ScriptInv

LEMMA TimeKeeps ==
  ASSUME AsComposed, AllInv, SucceededHasFile', PassTime
  PROVE  ScriptInv'
<1>1. /\ UNCHANGED <<apiVars, scriptVars, official>> /\ Age /\ IInv
      /\ row[Broken].status # "succeeded"
  BY DEF PassTime, Age, fileVars, AllInv, ScriptInv, OthersOK, SystemInv
<1>2. RowsGoOn /\ row'[Broken].status # "succeeded"
  BY <1>1, AgedLeases DEF RowsGoOn
<1>3. FormFollows
  BY <1>1 DEF apiVars, FormFollows, AllInv, SystemInv, ApiInv, ApiTypeOK
<1>4. HeavyOK' /\ \A w \in Slot : WorkOK(w)'
  BY TimeKeepsWork DEF AsComposed
<1> QED
  BY <1>1, <1>2, <1>3, <1>4, ScriptFrame DEF ScriptInv, apiVars

LEMMA AllInvStep ==
  ASSUME AsComposed, AllInv, [AcceptanceNext]_acceptanceVars
  PROVE  AllInv'
<1>1. SystemInv' /\ [ProgressNext]_vars
  BY SystemInvStep DEF AllInv
<1>2. FileInv' /\ SucceededHasFile'
  <2>1. FileInv'
    BY <1>1, ProgressKeepsFiles DEF AsComposed, Timely, Lossless, AllInv,
       SystemInv
  <2> QED
    BY <2>1 DEF FileInv, FilesOK
<1> SUFFICES ScriptInv'
  BY <1>1, <1>2 DEF AllInv
<1>3. CASE Script
  BY <1>2, <1>3, PostKeeps, StatusKeeps, DownloadKeeps, JudgeKeeps, HandKeeps,
     UnderKeeps, StartKeeps DEF Script
<1>4. CASE \E w \in Slot : Work(w) \/ KeepLease(w)
  BY <1>2, <1>4, UnderKeeps
<1>5. CASE PassTime
  BY <1>2, <1>5, TimeKeeps
<1>6. CASE UNCHANGED acceptanceVars
  <2>1. UNCHANGED <<vars, apiVars, scriptVars, row, clock, pc, job, seen, tmp>>
    BY <1>6 DEF acceptanceVars, vars, procVars, fileVars
  <2>2. ReplyOK' /\ RequestOK'
    BY <2>1 DEF AllInv, ScriptInv, ReplyOK, RequestOK, DigestOf, apiVars,
       requestVars, clientVars, scriptVars
  <2> QED
    BY <2>1, <2>2, AskFrame DEF ScriptInv, apiVars, clientVars, scriptVars
<1> QED
  BY <1>3, <1>4, <1>5, <1>6 DEF AcceptanceNext

LEMMA AllInvHoldsFirst ==
  ASSUME AsComposed, AcceptanceInit
  PROVE  AllInv
<1>1. SystemInv /\ FileInv /\ ApiTypeOK
  BY AcceptanceInitHolds, ProgressInitFiles DEF AcceptanceInit, SystemInv,
     ApiInv
<1>2. /\ \A j \in Job : row[j].status = "absent" /\ row[j].attempts = 0
      /\ \A w \in Slot : pc[w] = "new"
      /\ tmp = [p \in {} |-> NULL] /\ step = "upload" /\ reply = NULL
      /\ at[Verifier] = "idle"
      /\ form = [i \in Id |-> IF i = Legacy THEN "gone" ELSE "sound"]
  BY DEF AcceptanceInit, ProgressInit, RequestInit, NoRow, Slot
<1>3. RequestOK /\ ReplyOK /\ NoCheckFails
  BY <1>2 DEF RequestOK, ReplyOK, NoCheckFails
<1>4. FilesAsLeft
  <2>1. Heavy # Legacy
    BY ApiAssumption
  <2> QED
    BY <1>2, <2>1 DEF FilesAsLeft, Altering, Archiving
<1>5. HeavyOK /\ OthersOK
  BY <1>2 DEF HeavyOK, HeavyWaits, HeavyRuns, HeavyDone, HeavyTold, OthersOK,
     UntilAwait, UntilEarly, UntilKill
<1>6. \A w \in Slot : WorkOK(w)
  BY <1>2 DEF WorkOK, Finishing
<1> QED
  BY <1>1, <1>3, <1>4, <1>5, <1>6 DEF ScriptInv, AllInv

\* No check of the acceptance script fails, for every lease, renewal interval
\* and number of attempts that leave the worker its lease while it converts
\* and the job an attempt after the one that is killed: wherever the kill
\* hits the first attempt, and whatever the order of requests and work.
THEOREM NoCheckEverFails ==
  ASSUME AsComposed
  PROVE  AcceptanceSpec => []NoCheckFails
<1>1. AcceptanceInit => AllInv
  BY AllInvHoldsFirst
<1>2. AllInv /\ [AcceptanceNext]_acceptanceVars => AllInv'
  BY AllInvStep
<1>3. AllInv => NoCheckFails
  BY DEF AllInv, ScriptInv
<1> QED
  BY <1>1, <1>2, <1>3, PTL DEF AcceptanceSpec

=============================================================================
