-------------------------- MODULE WorkerProperties --------------------------
(***************************************************************************)
(* What the worker processes guarantee together, and what the comments of  *)
(* the code say that they guarantee.                                       *)
(***************************************************************************)
EXTENDS Worker

Time == 0 .. MaxClock

Path == [job : Job, attempt : Nat, owner : Worker \cup {NULL}, part : BOOLEAN]

Thread == [state : {"off", "wait", "call", "lost"}, at : Nat]

\* Every variable holds a value of its kind: rows of the jobs table, program
\* counters, files at the paths that the code writes.
TypeOK ==
  /\ clock \in Time
  /\ row \in [Job -> Row]
  /\ pc \in [Worker -> PC]
  /\ job \in [Worker -> Job \cup {NULL}]
  /\ seen \in [Worker -> Row]
  /\ sampled \in [Worker -> Time]
  /\ fp \in [Worker -> Bytes \cup {NULL}]
  /\ renewer \in [Worker -> Thread]
  /\ late \subseteq [owner : Worker, job : Job, at : Nat]
  /\ DOMAIN tmp \subseteq Path
  /\ \A p \in DOMAIN tmp : tmp[p] \in Bytes
  /\ official \in [Job -> Bytes \cup {NULL}]

-----------------------------------------------------------------------------
(* Invariants of the jobs table. *)

\* The columns of a row agree with its status, through every claim, renewal,
\* failure, reaping and publication: a lease exactly while processing, a
\* result exactly when succeeded, a reason when failed and none left over
\* from an earlier attempt when succeeded.
RowCoherent ==
  \A j \in Job :
    LET r == row[j] IN
    /\ r.status = "absent" => r = NoRow
    /\ r.status = "processing" <=> r.owner # NULL
    /\ r.status = "processing" <=> r.expires # NULL
    /\ r.status = "succeeded" <=> r.pdf # NULL
    /\ r.status = "failed" => r.error # NULL
    /\ r.status = "succeeded" => r.error = NULL

\* No job is attempted more than max_attempts times, although a pending row
\* is claimed without a look at its attempts: a failure requeues the job by
\* the attempts of a copy read after the claim, and that copy is up to date
\* whenever the failure is recorded at all.
AttemptsBounded ==
  \A j \in Job :
    /\ row[j].attempts <= MaxAttempts
    /\ row[j].status = "pending" => row[j].attempts < MaxAttempts

\* Only the attempt started last can ever be published: a late result of an
\* earlier attempt never lands, whatever was stalled, killed or reordered.
LatestAttemptLands ==
  \A j \in Job :
    row[j].status = "succeeded" => row[j].pdf.attempt = row[j].attempts

-----------------------------------------------------------------------------
(* The official file. *)

\* The bytes at the official path of a succeeded job are the bytes whose size
\* and SHA-256 the row holds ("the registered path and its fingerprint can
\* never diverge"), under every fault that the model has: other bytes are
\* never there.
OfficialIsRegistered ==
  \A j \in Job :
    /\ row[j].status = "succeeded"
    /\ official[j] # NULL
    => official[j] = row[j].pdf

\* A succeeded job has its file at the official path, so that its download
\* works.  True as long as no process is stalled before its clean-up, no COMMIT
\* of a publish fails and no renewal is left behind; the next two properties
\* and RenewalExtends say what goes wrong then.
SucceededHasFile ==
  \A j \in Job : row[j].status = "succeeded" => official[j] = row[j].pdf

\* The clean-up removes from the official path only "an unreferenced orphan",
\* never the file of a succeeded job ("safe: a job reaches this code only via
\* claim, which never returns an already-succeeded job").
SweepSparesResults ==
  [][\A w \in Worker :
       pc[w] = "swept" /\ pc'[w] = "convert" =>
         row[job[w]].status # "succeeded"]_vars

\* The undo of a failed publish takes away "an uncommitted official file",
\* never one that is committed.
UndoSparesResults ==
  [][\A w \in Worker :
       /\ pc[w] = "undo" /\ pc'[w] = "unwind"
       /\ row[job[w]].status = "succeeded"
       => official'[job[w]] = official[job[w]]]_vars

-----------------------------------------------------------------------------
(* Leases. *)

\* A lease is taken over only after it ended by the wall clock, although the
\* claim compares it with an older time: a worker whose lease is not over
\* loses it to nobody.
NoStolenLease ==
  [][\A j \in Job :
       /\ row[j].owner # NULL
       /\ row'[j].attempts # row[j].attempts
       => row[j].expires < clock]_vars

Converting(w) ==
  pc[w] \in {"convert", "failed", "record", "staged", "converted",
             "fingerprint", "publish", "gated", "moved"}

\* With renewals in time, no two live processes work on one job: the renewer
\* keeps the lease from the claim to the end, and a job changes hands only
\* after its process was killed.
OneConverter ==
  \A v, w \in Worker :
    v # w /\ Converting(v) /\ Converting(w) => job[v] # job[w]

\* A failed conversion of the lease holder is recorded: record_failure drops
\* it only "if the lease has expired".
HolderRecordsFailure ==
  [][\A w \in Worker :
       pc[w] = "failed" /\ pc'[w] = "unwind" =>
         ~ Holds(row[job[w]], w, clock)]_vars

\* "Extend the lease.": renew_lease never brings the end of a lease forward,
\* whichever attempt the renewal was begun for.
RenewalExtends ==
  [][\A j \in Job :
       /\ row[j].owner # NULL
       /\ row'[j].owner = row[j].owner
       /\ row'[j].attempts = row[j].attempts
       => row'[j].expires >= row[j].expires]_vars

-----------------------------------------------------------------------------
(* What holds in between: the facts about processes that carry the           *)
(* invariants above from one step to the next.                               *)

\* process_job runs with a claimed row loaded.
Working == {"loaded", "swept", "convert", "failed", "record", "staged",
            "converted", "fingerprint", "publish", "gated", "moved", "undo"}

JobKnown(w) ==
  pc[w] \in Working \cup {"claimed"} \/ renewer[w].state # "off" =>
    job[w] \in Job

\* While a process owns its row, the attempts of its copy are the column's.
SeenIsCurrent(w) ==
  pc[w] \in Working /\ row[job[w]].owner = w =>
    seen[w].attempts = row[job[w]].attempts

\* Nobody takes the row from a process between its gate and its commit.
GateKeepsOwner(w) == HoldsWriteLock(w) => row[job[w]].owner = w

\* What a process finds at its own temp paths is what it converted ...
OwnPart(w) ==
  pc[w] = "staged" /\ MyPart(w) \in DOMAIN tmp => tmp[MyPart(w)] = MyBytes(w)

OwnTemp(w) ==
  /\ pc[w] \in {"converted", "fingerprint", "publish", "gated"}
  /\ MyPath(w) \in DOMAIN tmp
  => tmp[MyPath(w)] = MyBytes(w)

\* ... and what it publishes.
OwnFingerprint(w) ==
  pc[w] \in {"publish", "gated", "moved"} => fp[w] = MyBytes(w)

\* Between the move and the commit the official file may vanish, but no other
\* file may take its place.
MovedIsMine(w) == pc[w] = "moved" => official[job[w]] \in {NULL, fp[w]}

ProcessOK(w) ==
  /\ JobKnown(w)
  /\ sampled[w] <= clock
  /\ seen[w].attempts <= MaxAttempts
  /\ SeenIsCurrent(w)
  /\ GateKeepsOwner(w)
  /\ OwnPart(w)
  /\ OwnTemp(w)
  /\ OwnFingerprint(w)
  /\ MovedIsMine(w)

OneWriter ==
  \A v, w \in Worker : HoldsWriteLock(v) /\ HoldsWriteLock(w) => v = w

TableOK ==
  /\ RowCoherent
  /\ AttemptsBounded
  /\ LatestAttemptLands
  /\ OfficialIsRegistered

\* All of it together is preserved by every step of every process: from any
\* state in which rows, processes and files agree as above, reachable or not,
\* no operation of the worker leads to one in which they do not.
IInv ==
  /\ TypeOK
  /\ TableOK
  /\ OneWriter
  /\ \A w \in Worker : ProcessOK(w)

-----------------------------------------------------------------------------
(* The abstract specification. *)

Lifecycle ==
  INSTANCE JobLifecycle WITH
    state <- [j \in Job |->
                [status   |-> row[j].status,
                 attempts |-> row[j].attempts,
                 result   |-> IF row[j].pdf = NULL THEN 0
                              ELSE row[j].pdf.attempt]]

\* Whatever the processes, threads and faults do, what a client sees of the
\* jobs is a behaviour of JobLifecycle.
ImplementsLifecycle == Lifecycle!Spec
=============================================================================
