-------------------------------- MODULE Api --------------------------------
(***************************************************************************)
(* The HTTP API of app/api.py next to the worker processes: upload, status *)
(* and download, run by the server's threads on the jobs table and the     *)
(* storage directory that the workers change meanwhile.                    *)
(*                                                                         *)
(* A client has one request at a time, and remembers what it was told.     *)
(* A request is split where it looks at shared state again: the row, the   *)
(* existence of the file and its content are read one after the other.     *)
(***************************************************************************)
EXTENDS Worker

CONSTANTS
  Client,    \* clients of the API
  Archived,  \* ids of jobs published by a build that had no fingerprints yet
  Outside    \* what may happen from outside the queue, see Disturbance

Disturbance == {"apiCrash",  \* the API process is killed and restarted
                "damage"}    \* somebody changes or removes a published file

ASSUME ApiAssumption ==
  /\ Archived \cap Job = {}
  /\ NULL \notin Archived
  /\ Outside \subseteq Disturbance

VARIABLES
  source,    \* the jobs whose upload is at its source path
  form,      \* what happened from outside to the file at an official path
  at,        \* where the request of each client is, "idle" if it has none
  target,    \* the job it is about
  stamp,     \* the created_at of the row that it is about to insert
  digest,    \* pdf_size and pdf_sha256 of the row that it loaded
  content,   \* what it read from the official path
  heard,     \* the last status that the client was told, per job
  cached     \* the PDF that the client has downloaded, per job

requestVars == <<at, target, stamp, digest, content>>
clientVars == <<heard, cached>>
apiVars == <<source, form, requestVars, clientVars>>

Id == Job \cup Archived

\* Other bytes, without or with the loss of the PDF header, or no file.
Form == {"sound", "altered", "headless", "gone"}

\* What can be read from an official path; the bytes of an archived PDF have
\* no name, as nothing identifies them.
Content == [pdf : Bytes \cup {NULL}, form : Form]

ASSUME ContentAssumption == NULL \notin Content

Stored(i) ==
  IF form[i] = "gone" \/ (i \in Job /\ official[i] = NULL)
  THEN NULL
  ELSE [pdf |-> IF i \in Job THEN official[i] ELSE NULL, form |-> form[i]]

\* The row of an archived job is final, and no UPDATE matches it.
StatusOf(i) == IF i \in Job THEN row[i].status ELSE "succeeded"
DigestOf(i) == IF i \in Job THEN row[i].pdf ELSE NULL

Silence == [status |-> "unknown", digest |-> NULL]

RequestInit ==
  /\ at = [c \in Client |-> "idle"]
  /\ target = [c \in Client |-> NULL]
  /\ stamp = [c \in Client |-> 0]
  /\ digest = [c \in Client |-> NULL]
  /\ content = [c \in Client |-> NULL]
  /\ heard = [c \in Client |-> [i \in Id |-> Silence]]
  /\ cached = [c \in Client |-> [i \in Id |-> NULL]]

ApiInit ==
  /\ Init
  /\ RequestInit
  /\ source = {}
  /\ form = [i \in Id |-> "sound"]

\* The request goes on at another place, with what it knows so far.
Continue(c, label, i, time, pdf, bytes) ==
  /\ at' = [at EXCEPT ![c] = label]
  /\ target' = [target EXCEPT ![c] = i]
  /\ stamp' = [stamp EXCEPT ![c] = time]
  /\ digest' = [digest EXCEPT ![c] = pdf]
  /\ content' = [content EXCEPT ![c] = bytes]

Finish(c) == Continue(c, "idle", NULL, 0, NULL, NULL)

Tell(c, i, pdf) ==
  heard' = [heard EXCEPT ![c][i] = [status |-> StatusOf(i), digest |-> pdf]]

-----------------------------------------------------------------------------
(* POST /jobs.  A rejected upload changes nothing. *)

\* The upload is valid: atomic_write_bytes under a fresh uuid, then the row up
\* to its default values.
WriteSourceLost(c) ==
  /\ at[c] = "idle"
  /\ \E j \in Job \ source :
       /\ source' \in {source, source \cup {j}}
       /\ Continue(c, "insert", j, clock, NULL, NULL)
  /\ UNCHANGED <<vars, form, clientVars>>
WriteSource(c) ==
  /\ at[c] = "idle"
  /\ \E j \in Job \ source :
       /\ source' = source \cup {j}
       /\ Continue(c, "insert", j, clock, NULL, NULL)
  /\ UNCHANGED <<vars, form, clientVars>>

Insert(c) ==
  /\ at[c] = "insert"
  /\ WriteLockFree
  /\ CreateJob(target[c], stamp[c])
  /\ Continue(c, "inserted", target[c], 0, NULL, NULL)
  /\ UNCHANGED <<clock, procVars, renewer, late, fileVars, source, form,
                 clientVars>>

\* db.refresh reads the row again: 201 tells the status it has by then.
Created(c) ==
  /\ at[c] = "inserted"
  /\ Tell(c, target[c], NULL)
  /\ Finish(c)
  /\ UNCHANGED <<vars, source, form, cached>>

-----------------------------------------------------------------------------
(* GET /jobs/{id}: the status, and the fingerprint of a succeeded job that   *)
(* has one.  An unknown id is answered with 404.                             *)

GetJob(c, i) ==
  /\ at[c] = "idle"
  /\ StatusOf(i) # "absent"
  /\ Tell(c, i, DigestOf(i))
  /\ UNCHANGED <<vars, source, form, requestVars, cached>>

-----------------------------------------------------------------------------
(* GET /jobs/{id}/download. *)

\* The row is loaded; JOB_NOT_READY unless it is succeeded.
LookupAnyStatus(c, i) ==
  /\ at[c] = "idle"
  /\ StatusOf(i) # "absent"
  /\ Continue(c, "found", i, 0, DigestOf(i), NULL)
  /\ UNCHANGED <<vars, source, form, clientVars>>
Lookup(c, i) ==
  /\ at[c] = "idle"
  /\ StatusOf(i) = "succeeded"
  /\ Continue(c, "found", i, 0, DigestOf(i), NULL)
  /\ UNCHANGED <<vars, source, form, clientVars>>

\* os.path.isfile
FileExists(c) ==
  /\ at[c] = "found"
  /\ Stored(target[c]) # NULL
  /\ Continue(c, "present", target[c], 0, digest[c], NULL)
  /\ UNCHANGED <<vars, source, form, clientVars>>

\* ARTIFACT_MISSING
FileMissing(c) ==
  /\ at[c] = "found"
  /\ Stored(target[c]) = NULL
  /\ Finish(c)
  /\ UNCHANGED <<vars, source, form, clientVars>>

\* open and read.
ReadFile(c) ==
  /\ at[c] = "present"
  /\ Stored(target[c]) # NULL
  /\ Continue(c, "read", target[c], 0, digest[c], Stored(target[c]))
  /\ UNCHANGED <<vars, source, form, clientVars>>

\* The file has gone since isfile: open raises, INTERNAL_ERROR.
OpenFails(c) ==
  /\ at[c] = "present"
  /\ Stored(target[c]) = NULL
  /\ Finish(c)
  /\ UNCHANGED <<vars, source, form, clientVars>>

\* The fingerprint decides if there is one, the %PDF- header otherwise.
AcceptableByHeader(bytes, pdf) == bytes.form # "headless"
Acceptable(bytes, pdf) ==
  IF pdf # NULL
  THEN bytes.form = "sound" /\ bytes.pdf = pdf
  ELSE bytes.form # "headless"

\* ARTIFACT_CORRUPTED, or ARTIFACT_MISSING for a lost header.
Refuse(c) ==
  /\ at[c] = "read"
  /\ ~ Acceptable(content[c], digest[c])
  /\ Finish(c)
  /\ UNCHANGED <<vars, source, form, clientVars>>

\* 200
Deliver(c) ==
  /\ at[c] = "read"
  /\ Acceptable(content[c], digest[c])
  /\ cached' = [cached EXCEPT ![c][target[c]] = content[c]]
  /\ Finish(c)
  /\ UNCHANGED <<vars, source, form, heard>>

\* 304: the client chose to send an If-None-Match with this digest, or "*".
NotModified(c) ==
  /\ at[c] = "read"
  /\ Acceptable(content[c], digest[c])
  /\ digest[c] # NULL
  /\ Finish(c)
  /\ UNCHANGED <<vars, source, form, clientVars>>

-----------------------------------------------------------------------------
(* Failures. *)

\* A database or file operation raises: 500, and whatever was committed or
\* written stays.
RequestFails(c) ==
  /\ "error" \in Faults
  /\ at[c] # "idle"
  /\ Finish(c)
  /\ UNCHANGED <<vars, source, form, clientVars>>

\* The API process is killed with all its requests, and restarted.
ApiCrash ==
  /\ "apiCrash" \in Outside
  /\ at' = [c \in Client |-> "idle"]
  /\ target' = [c \in Client |-> NULL]
  /\ stamp' = [c \in Client |-> 0]
  /\ digest' = [c \in Client |-> NULL]
  /\ content' = [c \in Client |-> NULL]
  /\ UNCHANGED <<vars, source, form, clientVars>>

\* A published file is changed or removed on the shared store.
Damage(i) ==
  /\ "damage" \in Outside
  /\ StatusOf(i) = "succeeded"
  /\ Stored(i) # NULL
  /\ form[i] = "sound"
  /\ \E f \in Form \ {"sound"} : form' = [form EXCEPT ![i] = f]
  /\ UNCHANGED <<vars, source, requestVars, clientVars>>

-----------------------------------------------------------------------------
RequestStep(c) ==
  \/ WriteSource(c) \/ Insert(c) \/ Created(c)
  \/ \E i \in Id : GetJob(c, i) \/ Lookup(c, i)
  \/ FileExists(c) \/ FileMissing(c) \/ ReadFile(c) \/ OpenFails(c)
  \/ Refuse(c) \/ Deliver(c) \/ NotModified(c) \/ RequestFails(c)

\* What the workers put at an official path is sound, whatever was there.
FormFollows ==
  form' = [i \in Id |-> IF i \in Job /\ official'[i] # official[i]
                       THEN "sound" ELSE form[i]]

WorkerStep ==
  /\ \/ \E w \in Worker : MainStep(w) \/ RenewerStep(w)
     \/ Tick
  /\ FormFollows
  /\ UNCHANGED <<source, requestVars, clientVars>>

ApiNext ==
  \/ \E c \in Client : RequestStep(c)
  \/ WorkerStep
  \/ ApiCrash
  \/ \E i \in Id : Damage(i)

ApiSpec == ApiInit /\ [][ApiNext]_<<vars, apiVars>>
=============================================================================
