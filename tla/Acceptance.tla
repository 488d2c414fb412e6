----------------------------- MODULE Acceptance -----------------------------
(***************************************************************************)
(* The acceptance run of verify/acceptance.py against the whole system of  *)
(* docker-compose.yml: the API, one worker, and the verifier, who is a     *)
(* client, the hand on the worker's container, and on the shared storage.  *)
(*                                                                         *)
(* The verifier runs its checks in order and ends at the first that fails. *)
(* Its deadlines are left out: that they are met is that it ends at all.   *)
(***************************************************************************)
EXTENDS Progress, Api

CONSTANTS
  Verifier,  \* the client that the script is
  Heavy,     \* the job of the heavy document
  Broken,    \* the job of the document that cannot be rendered
  Legacy     \* the historical record that the script inserts

ASSUME AcceptanceAssumption ==
  /\ Client = {Verifier}
  /\ Job = {Heavy, Broken} /\ Heavy # Broken
  /\ Archived = {Legacy}

VARIABLES
  step,      \* where the script is
  reply      \* the answer to its last request, not looked at yet

scriptVars == <<step, reply>>

Judge(good, then) == step' = IF good THEN then ELSE "failed"

-----------------------------------------------------------------------------
(* Requests. *)

\* upload(): two documents that the API accepts.
Uploads ==
  [upload       |-> [about |-> Heavy,  then |-> "watch"],
   uploadBroken |-> [about |-> Broken, then |-> "awaitBroken"]]

Post ==
  /\ step \in DOMAIN Uploads
  /\ \/ WriteSource(Verifier) /\ target'[Verifier] = Uploads[step].about
                              /\ UNCHANGED step
     \/ Insert(Verifier) /\ UNCHANGED step
     \/ Created(Verifier) /\ step' = Uploads[step].then
  /\ UNCHANGED reply

\* wait_status(): polls until the status is one of the targets.
Terminal == {"succeeded", "failed"}
Waits ==
  [watch       |-> [about |-> Heavy,  for |-> {"processing"}],
   await       |-> [about |-> Heavy,  for |-> Terminal],
   unchanged   |-> [about |-> Heavy,  for |-> Terminal],
   awaitBroken |-> [about |-> Broken, for |-> Terminal],
   archived    |-> [about |-> Legacy, for |-> Terminal]]

\* ... and the checks on the answer: a fresh attempt delivered the heavy
\* document, the fingerprint outlives the tampering, the broken document
\* failed for a reason, the historical record shows no fingerprint.
Known == heard'[Verifier][Waits[step].about]

JudgeStatus ==
  CASE step = "watch" -> Judge(TRUE, "kill")
    [] step = "await" ->
         Judge(/\ Known.status = "succeeded" /\ Known.digest # NULL
               /\ row[Heavy].attempts >= 2 /\ row[Heavy].error = NULL,
               "download")
    [] step = "unchanged" ->
         Judge(/\ Known = heard[Verifier][Heavy]
               /\ row[Heavy].error = NULL, "restore")
    [] step = "awaitBroken" ->
         Judge(Known.status = "failed" /\ row[Broken].error # NULL, "notReady")
    [] step = "archived" ->
         Judge(Known = [status |-> "succeeded", digest |-> NULL], "legacy")

PollStatus ==
  /\ step \in DOMAIN Waits
  /\ GetJob(Verifier, Waits[step].about)
  /\ Known.status \in Waits[step].for
  /\ JudgeStatus
  /\ UNCHANGED reply

\* GET /download, with or without the digest in If-None-Match, and the answers
\* that the script accepts.
Downloads ==
  [early       |-> [about |-> Heavy,  match |-> FALSE, then |-> "await",
                    accept |-> {"JOB_NOT_READY", "ARTIFACT_MISSING"}],
   download    |-> [about |-> Heavy,  match |-> FALSE, then |-> "revalidate",
                    accept |-> {"200"}],
   revalidate  |-> [about |-> Heavy,  match |-> TRUE,  then |-> "mismatch",
                    accept |-> {"304"}],
   mismatch    |-> [about |-> Heavy,  match |-> FALSE, then |-> "storage",
                    accept |-> {"200"}],
   tampered    |-> [about |-> Heavy,  match |-> FALSE, then |-> "conditional",
                    accept |-> {"ARTIFACT_CORRUPTED"}],
   conditional |-> [about |-> Heavy,  match |-> TRUE,  then |-> "unchanged",
                    accept |-> {"ARTIFACT_CORRUPTED"}],
   restored    |-> [about |-> Heavy,  match |-> FALSE, then |-> "uploadBroken",
                    accept |-> {"200"}],
   notReady    |-> [about |-> Broken, match |-> FALSE, then |-> "archive",
                    accept |-> {"JOB_NOT_READY"}],
   legacy      |-> [about |-> Legacy, match |-> FALSE, then |-> "noMatch",
                    accept |-> {"200"}],
   noMatch     |-> [about |-> Legacy, match |-> TRUE,  then |-> "clean",
                    accept |-> {"200"}]]

NotReady(i) ==
  /\ at[Verifier] = "idle"
  /\ StatusOf(i) # "succeeded"
  /\ UNCHANGED <<vars, apiVars>>

\* The API answers with what its steps have come to.
Answered ==
  LET ask == Downloads[step] IN
  \/ NotReady(ask.about) /\ reply' = "JOB_NOT_READY"
  \/ FileMissing(Verifier) /\ reply' = "ARTIFACT_MISSING"
  \/ OpenFails(Verifier) /\ reply' = "INTERNAL_ERROR"
  \/ Refuse(Verifier) /\ reply' = IF digest[Verifier] # NULL
                                  THEN "ARTIFACT_CORRUPTED"
                                  ELSE "ARTIFACT_MISSING"
  \/ Deliver(Verifier) /\ reply' = "200"
     /\ (ask.match => digest[Verifier] = NULL)
  \/ NotModified(Verifier) /\ reply' = "304" /\ ask.match

GetDownload ==
  /\ step \in DOMAIN Downloads
  /\ reply = NULL
  /\ \/ /\ \/ Lookup(Verifier, Downloads[step].about)
           \/ FileExists(Verifier)
           \/ ReadFile(Verifier)
        /\ UNCHANGED reply
     \/ Answered
  /\ UNCHANGED step

\* Bytes that were delivered are those of the fingerprint the status told.
JudgeDownload ==
  /\ reply # NULL
  /\ LET ask == Downloads[step] IN
     Judge(/\ reply \in ask.accept
           /\ reply = "200" =>
                cached[Verifier][ask.about].pdf =
                  heard[Verifier][ask.about].digest,
           ask.then)
  /\ reply' = NULL
  /\ UNCHANGED <<vars, apiVars>>

-----------------------------------------------------------------------------
(* Containers and files. *)

\* docker kill, as soon as the job is seen processing ...
Kill(w) ==
  /\ step = "kill"
  /\ Crash(w)
  /\ step' = "start"
  /\ UNCHANGED <<apiVars, reply>>

\* ... and docker start.
StartAgain(w) ==
  /\ step = "start"
  /\ Restart(w)
  /\ step' = "early"
  /\ UNCHANGED <<apiVars, reply>>

\* One official PDF, and no temp file of the job.
ListStorage ==
  /\ step = "storage"
  /\ Judge(official[Heavy] # NULL /\ \A p \in DOMAIN tmp : p.job # Heavy,
           "tamper")
  /\ UNCHANGED <<vars, apiVars, reply>>

PutFile(i, f) ==
  /\ form' = [form EXCEPT ![i] = f]
  /\ UNCHANGED <<vars, source, requestVars, clientVars, reply>>

Tamper  == step = "tamper"  /\ step' = "tampered" /\ PutFile(Heavy, "altered")
Restore == step = "restore" /\ step' = "restored" /\ PutFile(Heavy, "sound")

\* The row of the historical record comes and goes with its file.
Archive == step = "archive" /\ step' = "archived" /\ PutFile(Legacy, "sound")
Clean   == step = "clean"   /\ step' = "passed"   /\ PutFile(Legacy, "gone")

Script ==
  \/ Post \/ PollStatus \/ GetDownload \/ JudgeDownload
  \/ \E w \in Slot : Kill(w) \/ StartAgain(w)
  \/ ListStorage \/ Tamper \/ Restore \/ Archive \/ Clean

-----------------------------------------------------------------------------
(* The system under the script. *)

\* heavy_docx() renders, and keeps LibreOffice busy until the kill; the
\* other document does not render.
AsTheFixtures(w) ==
  /\ pc[w] = "convert" /\ pc'[w] = "staged" =>
       job[w] = Heavy /\ step \notin {"upload", "watch", "kill"}
  /\ pc[w] = "convert" /\ pc'[w] = "failed" => job[w] = Broken

Work(w) ==
  /\ Poll(w) \/ Claim(w) \/ ClaimNone(w) \/ SweepOrphan(w) \/ Proceed(w)
  /\ AsTheFixtures(w)
  /\ FormFollows
  /\ UNCHANGED <<source, requestVars, clientVars, scriptVars>>

KeepLease(w) ==
  /\ Renew(w)
  /\ UNCHANGED <<apiVars, scriptVars>>

\* From the kill to the request after it the script takes a few seconds, less
\* than what is left of the lease.
PassTime ==
  /\ step \in {"kill", "start", "early"} => row[Heavy].expires > clock
  /\ Age
  /\ UNCHANGED <<apiVars, scriptVars>>

AcceptanceInit ==
  /\ ProgressInit
  /\ RequestInit
  /\ source = {}
  /\ form = [i \in Id |-> IF i = Legacy THEN "gone" ELSE "sound"]
  /\ step = "upload"
  /\ reply = NULL

AcceptanceNext ==
  \/ Script
  \/ \E w \in Slot : Work(w) \/ KeepLease(w)
  \/ PassTime

acceptanceVars == <<vars, apiVars, scriptVars>>

AcceptanceSpec ==
  /\ AcceptanceInit
  /\ [][AcceptanceNext]_acceptanceVars
  /\ WF_acceptanceVars(Script)
  /\ SF_acceptanceVars(PassTime)
  /\ \A w \in Slot : /\ SF_acceptanceVars(Work(w))
                     /\ WF_acceptanceVars(KeepLease(w))

-----------------------------------------------------------------------------
\* No check of the script fails: not in the order of its requests with the
\* steps of the killed and the restarted worker, wherever the kill hits it
\* between its claim and the end of its conversion.
NoCheckFails == step # "failed"

\* The script comes to its end: the job that lost its worker is taken over
\* after the lease and delivered, and the one that cannot be rendered is given
\* up, without anybody's help.
ScriptEnds == <>(step = "passed")
=============================================================================
