------------------------------- MODULE Worker -------------------------------
(***************************************************************************)
(* The worker processes of app/worker.py: the poll loop, process_job, the  *)
(* conversion, the publish gate with its file move, and the lease-renewer  *)
(* thread, run by several processes against one jobs table and one         *)
(* storage directory (app/storage.py).                                     *)
(*                                                                         *)
(* An action is one step that no other process can split: one committed    *)
(* transaction, or the local code between two of them.  Each call of the   *)
(* repository takes two: one samples the time, a later one runs the        *)
(* transaction once the write lock is free.  publish_success keeps the     *)
(* lock over the file move, so it takes four.                              *)
(***************************************************************************)
EXTENDS Repository

CONSTANTS
  RenewEvery,   \* settings.renew_interval_seconds, in ticks
  MaxClock,     \* bound on the clock, for model checking
  Faults        \* what the environment may do, see Fault

Fault == {"crash",        \* a worker process is killed
          "error",        \* a database call or a file operation raises
          "commitError",  \* the COMMIT of a publish raises
          "stall",        \* a process is delayed between claim and clean-up
          "slowRenew"}    \* a renewer thread is delayed past its interval

ASSUME WorkerAssumption ==
  /\ RenewEvery \in Nat \ {0}
  /\ MaxClock \in Nat
  /\ Faults \subseteq Fault

VARIABLES
  pc,        \* where the main thread of each worker process is
  job,       \* the job it processes
  seen,      \* its session's copy of that row, loaded once after the claim
  sampled,   \* the time it passed to its current repository call, 0 if none
  fp,        \* the fingerprint it computed for its temp file
  renewer,   \* its LeaseRenewer thread
  late,      \* renewals in flight in threads that stop() gave up waiting for
  tmp,       \* the tmp directory: a function from the existing paths to bytes
  official   \* the pdf directory: per job, the bytes at the official path

procVars == <<pc, job, seen, sampled, fp>>
fileVars == <<tmp, official>>
vars == <<clock, row, procVars, renewer, late, fileVars>>

PC == {"new", "idle", "claim", "rest", "claimed", "loaded", "swept",
       "convert", "failed", "record", "staged", "converted", "fingerprint",
       "publish", "gated", "moved", "undo", "unwind", "dead"}

NoThread == [state |-> "off", at |-> 0]

\* storage.tmp_pdf_path: the name carries the job, the attempt and the owner.
TmpPathPerJob(j, attempt, w) ==
  [job |-> j, attempt |-> 0, owner |-> NULL, part |-> FALSE]
TmpPath(j, attempt, w) ==
  [job |-> j, attempt |-> attempt, owner |-> w, part |-> FALSE]

\* The converter's f"{dest_pdf}.{uuid4}.part": unlike any other path.
PartPath(j, attempt, w) ==
  [job |-> j, attempt |-> attempt, owner |-> w, part |-> TRUE]

MyPath(w) == TmpPath(job[w], seen[w].attempts, w)
MyPart(w) == PartPath(job[w], seen[w].attempts, w)
MyBytes(w) == [owner |-> w, attempt |-> seen[w].attempts]

\* storage.remove_quiet on a set of paths.
Without(paths) == [p \in DOMAIN tmp \ paths |-> tmp[p]]
With(path, bytes) ==
  [p \in DOMAIN tmp \cup {path} |-> IF p = path THEN bytes ELSE tmp[p]]

\* publish_success is between its UPDATE and its COMMIT or ROLLBACK.
HoldsWriteLock(w) == pc[w] \in {"gated", "moved"}
WriteLockFree == \A w \in Worker : ~ HoldsWriteLock(w)

Goto(w, label) == pc' = [pc EXCEPT ![w] = label]

Init ==
  /\ RowInit
  /\ pc = [w \in Worker |-> "new"]
  /\ job = [w \in Worker |-> NULL]
  /\ seen = [w \in Worker |-> NoRow]
  /\ sampled = [w \in Worker |-> 0]
  /\ fp = [w \in Worker |-> NULL]
  /\ renewer = [w \in Worker |-> NoThread]
  /\ late = {}
  /\ tmp = [p \in {} |-> NULL]
  /\ official = [j \in Job |-> NULL]

-----------------------------------------------------------------------------
(* The API inserts a row; everything else about it is in app/api.py. *)

Submit(j) ==
  /\ WriteLockFree
  /\ \E now \in 0 .. clock : CreateJob(j, now)
  /\ UNCHANGED <<clock, procVars, renewer, late, fileVars>>

-----------------------------------------------------------------------------
(* run_forever. *)

\* A process starts once: its owner id holds a fresh uuid.
Start(w) ==
  /\ pc[w] = "new"
  /\ Goto(w, "idle")
  /\ UNCHANGED <<clock, row, job, seen, sampled, fp, renewer, late, fileVars>>

\* The top of the loop, up to the first line of claim_next_job.
Poll(w) ==
  /\ pc[w] = "idle"
  /\ Goto(w, "claim")
  /\ sampled' = [sampled EXCEPT ![w] = clock]
  /\ UNCHANGED <<clock, row, job, seen, fp, renewer, late, fileVars>>

\* The transaction of claim_next_job: reap, claim one row, commit.
Claim(w) ==
  /\ pc[w] = "claim"
  /\ WriteLockFree
  /\ \E j \in Job :
       /\ ClaimNextJob(j, w, sampled[w])
       /\ job' = [job EXCEPT ![w] = j]
  /\ Goto(w, "claimed")
  /\ UNCHANGED <<clock, seen, sampled, fp, renewer, late, fileVars>>

ClaimNone(w) ==
  /\ pc[w] = "claim"
  /\ WriteLockFree
  /\ ClaimNothing(sampled[w])
  /\ Goto(w, "rest")
  /\ sampled' = [sampled EXCEPT ![w] = 0]
  /\ UNCHANGED <<clock, job, seen, fp, renewer, late, fileVars>>

\* _sweep_orphan_tmp removes temp files an hour old, one by one.  An hour is
\* far beyond the end of any attempt whose process is not stalled.
Orphan(p) ==
  \/ "stall" \in Faults
  \/ \A w \in Worker : pc[w] \in {"staged", "converted", "fingerprint",
                                "publish", "gated", "failed", "record"}
                       => p \notin {MyPath(w), MyPart(w)}

SweepOrphanPdf(w) ==
  /\ pc[w] = "rest"
  /\ \E p \in DOMAIN tmp : ~ p.part /\ Orphan(p) /\ tmp' = Without({p})
  /\ UNCHANGED <<clock, row, procVars, renewer, late, official>>
SweepOrphan(w) ==
  /\ pc[w] = "rest"
  /\ \E p \in DOMAIN tmp : Orphan(p) /\ tmp' = Without({p})
  /\ UNCHANGED <<clock, row, procVars, renewer, late, official>>

\* STOP.wait(poll_interval_seconds), which a SIGTERM cuts short.
Rest(w) ==
  /\ pc[w] = "rest"
  /\ Goto(w, "idle")
  /\ UNCHANGED <<clock, row, job, seen, sampled, fp, renewer, late, fileVars>>

\* db.get after the commit: a SELECT of its own.  Later db.get calls of the
\* same session return this copy from the identity map, with no SELECT.
LoadJob(w) ==
  /\ pc[w] = "claimed"
  /\ Goto(w, "loaded")
  /\ seen' = [seen EXCEPT ![w] = row[job[w]]]
  /\ UNCHANGED <<clock, row, job, sampled, fp, renewer, late, fileVars>>

\* SIGTERM is honoured at the top of the loop.  Renewer threads are daemons:
\* a call that stop() gave up waiting for dies with the process.
Stop(w) ==
  /\ pc[w] = "idle"
  /\ late' = {call \in late : call.owner # w}
  /\ Goto(w, "dead")
  /\ UNCHANGED <<clock, row, job, seen, sampled, fp, renewer, fileVars>>

-----------------------------------------------------------------------------
(* process_job: clean-up and conversion. *)

NextRenewalAtExpiry(t) == t + Lease
NextRenewal(t) == t + RenewEvery

\* storage.cleanup_job_tmp removes every temp file of the job, whoever wrote
\* it ...
SweepTmp(w) ==
  /\ pc[w] = "loaded"
  /\ tmp' = Without({p \in DOMAIN tmp : p.job = job[w]})
  /\ Goto(w, "swept")
  /\ UNCHANGED <<clock, row, job, seen, sampled, fp, renewer, late, official>>

\* ... and then the file at its official path; renewer.start() comes next.
SweepOfficial(w) ==
  /\ pc[w] = "swept"
  /\ official' = [official EXCEPT ![job[w]] = NULL]
  /\ renewer' = [renewer EXCEPT ![w] = [state |-> "wait",
                                        at |-> NextRenewal(clock)]]
  /\ sampled' = [sampled EXCEPT ![w] = 0]
  /\ Goto(w, "convert")
  /\ UNCHANGED <<clock, row, job, seen, fp, late, tmp>>

\* The end of convert_docx_to_pdf: the finished PDF is moved to a staged file
\* next to dest_pdf ...
Stage(w) ==
  /\ pc[w] = "convert"
  /\ tmp' = With(MyPart(w), MyBytes(w))
  /\ Goto(w, "staged")
  /\ UNCHANGED <<clock, row, job, seen, sampled, fp, renewer, late, official>>

\* ... which is renamed to dest_pdf, unless another worker's clean-up removed
\* it: os.replace raises then.
ConvertOk(w) ==
  /\ pc[w] = "staged"
  /\ MyPart(w) \in DOMAIN tmp
  /\ tmp' = [p \in (DOMAIN tmp \ {MyPart(w)}) \cup {MyPath(w)} |->
               IF p = MyPath(w) THEN tmp[MyPart(w)] ELSE tmp[p]]
  /\ Goto(w, "converted")
  /\ UNCHANGED <<clock, row, job, seen, sampled, fp, renewer, late, official>>

StageLost(w) ==
  /\ pc[w] = "staged"
  /\ MyPart(w) \notin DOMAIN tmp
  /\ Goto(w, "unwind")
  /\ UNCHANGED <<clock, row, job, seen, sampled, fp, renewer, late, fileVars>>

\* It raises ConversionError: bad exit, no PDF, bad magic, or timeout.
ConvertFail(w) ==
  /\ pc[w] = "convert"
  /\ Goto(w, "failed")
  /\ UNCHANGED <<clock, row, job, seen, sampled, fp, renewer, late, fileVars>>

-----------------------------------------------------------------------------
(* process_job: a failed conversion. *)

\* renewer.lost is set, or the check of record_failure on the session's copy
\* of the row fails: nothing is recorded.
DropFailure(w) ==
  /\ pc[w] = "failed"
  /\ renewer[w].state = "lost" \/ ~ Holds(seen[w], w, clock)
  /\ tmp' = Without({MyPath(w)})
  /\ Goto(w, "unwind")
  /\ UNCHANGED <<clock, row, job, seen, sampled, fp, renewer, late, official>>

AcceptFailure(w) ==
  /\ pc[w] = "failed"
  /\ renewer[w].state # "lost"
  /\ Holds(seen[w], w, clock)
  /\ sampled' = [sampled EXCEPT ![w] = clock]
  /\ Goto(w, "record")
  /\ UNCHANGED <<clock, row, job, seen, fp, renewer, late, fileVars>>

\* The UPDATE of record_failure, whose row count nobody reads.
Record(w) ==
  /\ pc[w] = "record"
  /\ WriteLockFree
  /\ RecordFailure(job[w], w, sampled[w], seen[w].attempts)
  /\ tmp' = Without({MyPath(w)})
  /\ Goto(w, "unwind")
  /\ UNCHANGED <<clock, job, seen, sampled, fp, renewer, late, official>>

-----------------------------------------------------------------------------
(* process_job: a finished conversion, and publish_success. *)

DropResult(w) ==
  /\ pc[w] = "converted"
  /\ renewer[w].state = "lost"
  /\ tmp' = Without({MyPath(w)})
  /\ Goto(w, "unwind")
  /\ UNCHANGED <<clock, row, job, seen, sampled, fp, renewer, late, official>>

KeepResult(w) ==
  /\ pc[w] = "converted"
  /\ renewer[w].state # "lost"
  /\ Goto(w, "fingerprint")
  /\ UNCHANGED <<clock, row, job, seen, sampled, fp, renewer, late, fileVars>>

\* storage.file_fingerprint, then the first line of publish_success.
Fingerprint(w) ==
  /\ pc[w] = "fingerprint"
  /\ MyPath(w) \in DOMAIN tmp
  /\ fp' = [fp EXCEPT ![w] = tmp[MyPath(w)]]
  /\ sampled' = [sampled EXCEPT ![w] = clock]
  /\ Goto(w, "publish")
  /\ UNCHANGED <<clock, row, job, seen, renewer, late, fileVars>>

\* The temp file was removed by another worker's clean-up: open() raises.
FingerprintFails(w) ==
  /\ pc[w] = "fingerprint"
  /\ MyPath(w) \notin DOMAIN tmp
  /\ Goto(w, "unwind")
  /\ UNCHANGED <<clock, row, job, seen, sampled, fp, renewer, late, fileVars>>

\* The UPDATE matched no row: rollback, return False, remove the temp file.
GateRefuses(w) ==
  /\ pc[w] = "publish"
  /\ WriteLockFree
  /\ ~ PublishGate(row[job[w]], w, sampled[w])
  /\ tmp' = Without({MyPath(w)})
  /\ Goto(w, "unwind")
  /\ UNCHANGED <<clock, row, job, seen, sampled, fp, renewer, late, official>>

\* The UPDATE matched; the transaction stays open, readers see the old row.
GateHolds(w) ==
  /\ pc[w] = "publish"
  /\ WriteLockFree
  /\ PublishGate(row[job[w]], w, sampled[w])
  /\ sampled' = [sampled EXCEPT ![w] = 0]
  /\ Goto(w, "gated")
  /\ UNCHANGED <<clock, row, job, seen, fp, renewer, late, fileVars>>

\* os.replace(tmp_pdf, final_pdf)
Move(w) ==
  /\ pc[w] = "gated"
  /\ MyPath(w) \in DOMAIN tmp
  /\ official' = [official EXCEPT ![job[w]] = tmp[MyPath(w)]]
  /\ tmp' = Without({MyPath(w)})
  /\ Goto(w, "moved")
  /\ UNCHANGED <<clock, row, job, seen, sampled, fp, renewer, late>>

\* os.replace raises: rollback, nothing to undo.
MoveFails(w) ==
  /\ pc[w] = "gated"
  /\ MyPath(w) \notin DOMAIN tmp
  /\ Goto(w, "unwind")
  /\ UNCHANGED <<clock, row, job, seen, sampled, fp, renewer, late, fileVars>>

Commit(w) ==
  /\ pc[w] = "moved"
  /\ PublishSuccess(job[w], fp[w])
  /\ Goto(w, "unwind")
  /\ UNCHANGED <<clock, job, seen, sampled, fp, renewer, late, fileVars>>

\* db.commit() raises; the rollback releases the write lock ...
CommitFails(w) ==
  /\ "commitError" \in Faults
  /\ pc[w] = "moved"
  /\ Goto(w, "undo")
  /\ UNCHANGED <<clock, row, job, seen, sampled, fp, renewer, late, fileVars>>

\* ... and then whatever is at the official path is moved away, unless nothing
\* is there or os.replace raises an OSError, which is swallowed.
Undo(w) ==
  /\ pc[w] = "undo"
  /\ \/ /\ official[job[w]] # NULL
        /\ tmp' = With(MyPath(w), official[job[w]])
        /\ official' = [official EXCEPT ![job[w]] = NULL]
     \/ UNCHANGED fileVars
  /\ Goto(w, "unwind")
  /\ UNCHANGED <<clock, row, job, seen, sampled, fp, renewer, late>>

-----------------------------------------------------------------------------
(* Ways out of an iteration. *)

\* Every other exception: run_forever logs it and goes on.  A transaction that
\* was open is rolled back, files stay as they are.
Raise(w) ==
  /\ "error" \in Faults
  /\ pc[w] \in {"claim", "claimed", "loaded", "swept", "convert",
                "record", "staged", "fingerprint", "publish", "gated"}
  /\ Goto(w, "unwind")
  /\ UNCHANGED <<clock, row, job, seen, sampled, fp, renewer, late, fileVars>>

\* The locals die with the iteration.
Forget(w) ==
  /\ job' = [job EXCEPT ![w] = NULL]
  /\ seen' = [seen EXCEPT ![w] = NoRow]
  /\ sampled' = [sampled EXCEPT ![w] = 0]
  /\ fp' = [fp EXCEPT ![w] = NULL]
  /\ renewer' = [renewer EXCEPT ![w] = NoThread]

\* finally: renewer.stop().  A thread that is inside renew_lease when the
\* join times out stays behind with that one call.
Unwind(w) ==
  /\ pc[w] = "unwind"
  /\ renewer[w].state = "call" => "slowRenew" \in Faults
  /\ late' = IF renewer[w].state = "call"
             THEN late \cup {[owner |-> w, job |-> job[w],
                               at |-> renewer[w].at]}
             ELSE late
  /\ Forget(w)
  /\ Goto(w, "idle")
  /\ UNCHANGED <<clock, row, fileVars>>

\* SIGKILL.  SQLite discards an open transaction, files stay.
Crash(w) ==
  /\ "crash" \in Faults
  /\ pc[w] \notin {"new", "dead"}
  /\ Forget(w)
  /\ late' = {call \in late : call.owner # w}
  /\ Goto(w, "dead")
  /\ UNCHANGED <<clock, row, fileVars>>

-----------------------------------------------------------------------------
(* LeaseRenewer._run. *)

SetRenewer(w, state, at) ==
  renewer' = [renewer EXCEPT ![w] = [state |-> state, at |-> at]]

\* The wait of one interval is over.
RenewWake(w) ==
  /\ renewer[w].state = "wait"
  /\ clock >= renewer[w].at
  /\ SetRenewer(w, "call", clock)
  /\ UNCHANGED <<clock, row, procVars, late, fileVars>>

RenewHeld(w) ==
  /\ renewer[w].state = "call"
  /\ WriteLockFree
  /\ RenewLease(job[w], w, renewer[w].at)
  /\ SetRenewer(w, "wait", NextRenewal(clock))
  /\ UNCHANGED <<clock, procVars, late, fileVars>>

\* renew_lease returns False: the thread sets lost and ends.
RenewLost(w) ==
  /\ renewer[w].state = "call"
  /\ WriteLockFree
  /\ ~ Holds(row[job[w]], w, renewer[w].at)
  /\ SetRenewer(w, "lost", 0)
  /\ UNCHANGED <<clock, row, procVars, late, fileVars>>

\* A database error is retried at the next interval.
RenewRaises(w) ==
  /\ "error" \in Faults
  /\ renewer[w].state = "call"
  /\ SetRenewer(w, "wait", NextRenewal(clock))
  /\ UNCHANGED <<clock, row, procVars, late, fileVars>>

\* The abandoned call runs at last; the owner id is still that of the process.
LateRenew(w) ==
  /\ WriteLockFree
  /\ \E call \in late :
       /\ call.owner = w
       /\ \/ RenewLease(call.job, w, call.at)
          \/ ~ Holds(row[call.job], w, call.at) /\ UNCHANGED row
       /\ late' = late \ {call}
  /\ UNCHANGED <<clock, procVars, renewer, fileVars>>

-----------------------------------------------------------------------------
(* Time.  Without the fault "stall" a worker has cleaned up and started its  *)
(* renewer soon enough for the first renewal to come before the lease ends;  *)
(* without "slowRenew" a renewal runs in the tick in which it is due.        *)

StartsInTime(w) ==
  pc[w] \in {"claim", "claimed", "loaded", "swept"} =>
    clock + 1 + RenewEvery < sampled[w] + Lease

RenewsInTime(w) ==
  /\ renewer[w].state # "call"
  /\ renewer[w].state = "wait" => clock < renewer[w].at

TimeMayPass ==
  /\ "stall" \notin Faults => \A w \in Worker : StartsInTime(w)
  /\ "slowRenew" \notin Faults => \A w \in Worker : RenewsInTime(w)

Tick ==
  /\ clock < MaxClock
  /\ TimeMayPass
  /\ clock' = clock + 1
  /\ UNCHANGED <<row, procVars, renewer, late, fileVars>>

-----------------------------------------------------------------------------
MainStep(w) ==
  \/ Start(w) \/ Poll(w) \/ Claim(w) \/ ClaimNone(w) \/ LoadJob(w) \/ Stop(w)
  \/ SweepOrphan(w) \/ Rest(w)
  \/ SweepTmp(w) \/ SweepOfficial(w)
  \/ Stage(w) \/ ConvertOk(w) \/ StageLost(w) \/ ConvertFail(w)
  \/ DropFailure(w) \/ AcceptFailure(w) \/ Record(w)
  \/ DropResult(w) \/ KeepResult(w) \/ Fingerprint(w) \/ FingerprintFails(w)
  \/ GateRefuses(w) \/ GateHolds(w) \/ Move(w) \/ MoveFails(w)
  \/ Commit(w) \/ CommitFails(w) \/ Undo(w)
  \/ Raise(w) \/ Unwind(w) \/ Crash(w)

RenewerStep(w) ==
  \/ RenewWake(w) \/ RenewHeld(w) \/ RenewLost(w) \/ RenewRaises(w)
  \/ LateRenew(w)

Next ==
  \/ \E j \in Job : Submit(j)
  \/ \E w \in Worker : MainStep(w) \/ RenewerStep(w)
  \/ Tick

Spec == Init /\ [][Next]_vars
=============================================================================
