-------------------------- MODULE RefinementProofs --------------------------
(***************************************************************************)
(* The worker processes implement JobLifecycle, and take a lease over only *)
(* after its end.  Both follow from one fact: in a state where IInv holds, *)
(* a step changes each row in one of the ways of RowStep.                  *)
(***************************************************************************)
EXTENDS WorkerProofs

\* The ways in which a step may change status, attempts and result of a row.

Untouched(r, s) ==
  s.status = r.status /\ s.attempts = r.attempts /\ s.pdf = r.pdf

Inserted(r, s) ==
  /\ r.status = "absent" /\ r.attempts = 0 /\ r.pdf = NULL
  /\ s.status = "pending" /\ s.attempts = 0 /\ s.pdf = NULL

Taken(r, s) ==
  /\ r.status \in {"pending", "processing"} /\ r.attempts < MaxAttempts
  /\ r.owner # NULL => r.expires < clock
  /\ s.status = "processing" /\ s.attempts = r.attempts + 1 /\ s.pdf = r.pdf

Delivered(r, s) ==
  /\ r.status = "processing"
  /\ s.status = "succeeded" /\ s.attempts = r.attempts
  /\ s.pdf # NULL /\ s.pdf.attempt = r.attempts

Dropped(r, s) ==
  /\ r.status = "processing"
  /\ s.status = IF r.attempts = MaxAttempts THEN "failed" ELSE "pending"
  /\ s.attempts = r.attempts /\ s.pdf = r.pdf

RowStep(r, s) ==
  \/ Untouched(r, s) \/ Inserted(r, s) \/ Taken(r, s) \/ Delivered(r, s)
  \/ Dropped(r, s)

LEMMA ReapIsRowStep ==
  ASSUME IInv, NEW now \in Nat, NEW j \in Job
  PROVE  /\ Untouched(row[j], AfterReap(now)[j])
            \/ Dropped(row[j], AfterReap(now)[j])
         /\ AfterReap(now)[j].attempts = row[j].attempts
<1>1. row[j] \in Row /\ RowOK(row[j]) /\ row[j].attempts \in Nat
  BY RowsAreOK, RowFields DEF IInv, TypeOK
<1>2. CASE Exhausted(row[j], now)
  <2>1. /\ AfterReap(now)[j] = Reaped(row[j])
        /\ row[j].status = "processing" /\ row[j].attempts >= MaxAttempts
    BY <1>2 DEF AfterReap, Exhausted, Expired
  <2>2. row[j].attempts = MaxAttempts
    BY <1>1, <2>1, RepositoryAssumption DEF RowOK
  <2>3. /\ Reaped(row[j]).status = "failed"
        /\ Reaped(row[j]).attempts = row[j].attempts
        /\ Reaped(row[j]).pdf = row[j].pdf
    BY <1>1 DEF Reaped, Row
  <2> QED
    BY <2>1, <2>2, <2>3 DEF Dropped
<1>3. CASE ~ Exhausted(row[j], now)
  BY <1>3 DEF AfterReap, Untouched
<1> QED
  BY <1>2, <1>3

LEMMA SubmitRows ==
  ASSUME IInv, NEW k \in Job, Submit(k), NEW j \in Job
  PROVE  RowStep(row[j], row'[j])
<1>. PICK now \in 0 .. clock : CreateJob(k, now)
  BY DEF Submit
<1>1. RowOK(row[k]) /\ row \in [Job -> Row] /\ row[k].status = "absent"
  BY RowsAreOK DEF IInv, TypeOK, CreateJob
<1>2. row[k].attempts = 0 /\ row[k].pdf = NULL
  BY <1>1 DEF RowOK, NoRow
<1>3. row' = [row EXCEPT ![k] = [NoRow EXCEPT !.status = "pending",
                                              !.created = now]]
  BY DEF CreateJob
<1>4. CASE j = k
  BY <1>1, <1>2, <1>3, <1>4 DEF RowStep, Inserted, NoRow
<1>5. CASE j # k
  BY <1>1, <1>3, <1>5 DEF RowStep, Untouched
<1> QED
  BY <1>4, <1>5

LEMMA ClaimRows ==
  ASSUME IInv, NEW w \in Worker, Claim(w), NEW j \in Job
  PROVE  RowStep(row[j], row'[j])
<1>1. PICK k \in Job : ClaimNextJob(k, w, sampled[w])
  BY DEF Claim
<1> DEFINE now == sampled[w]
<1>2. now \in Nat /\ clock \in Nat /\ now <= clock
  BY DEF IInv, TypeOK, Time, ProcessOK
<1>3. row[k] \in Row /\ RowOK(row[k]) /\ Eligible(row[k], now)
  BY <1>1, RowsAreOK DEF IInv, TypeOK, ClaimNextJob, Oldest
<1>4. \A i \in Job : row'[i] = IF i = k THEN Claimed(row[k], w, now)
                               ELSE AfterReap(now)[i]
  BY <1>1 DEF ClaimNextJob, AfterReap
<1>5. CASE j = k
  <2>1. /\ Claimed(row[k], w, now).status = "processing"
        /\ Claimed(row[k], w, now).attempts = row[k].attempts + 1
        /\ Claimed(row[k], w, now).pdf = row[k].pdf
    BY <1>3 DEF Claimed, Row
  <2>2. row[k].attempts < MaxAttempts
    BY <1>3 DEF RowOK, Eligible
  <2>3. row[k].owner # NULL => row[k].expires < clock
    <3>1. SUFFICES ASSUME row[k].owner # NULL PROVE row[k].expires < clock
      OBVIOUS
    <3>2. Expired(row[k], now) /\ row[k].expires \in Nat
      BY <1>3, <3>1, RowFields DEF RowOK, Eligible, Expired
    <3> QED
      BY <1>2, <3>2 DEF Expired
  <2>4. row[k].status \in {"pending", "processing"}
    BY <1>3 DEF Eligible, Expired
  <2> QED
    BY <1>4, <1>5, <2>1, <2>2, <2>3, <2>4 DEF RowStep, Taken
<1>6. CASE j # k
  BY <1>2, <1>4, <1>6, ReapIsRowStep DEF RowStep
<1> QED
  BY <1>5, <1>6

LEMMA ClaimNoneRows ==
  ASSUME IInv, NEW w \in Worker, ClaimNone(w), NEW j \in Job
  PROVE  RowStep(row[j], row'[j])
<1>1. sampled[w] \in Nat /\ row' = AfterReap(sampled[w])
  BY DEF IInv, TypeOK, Time, ClaimNone, ClaimNothing
<1> QED
  BY <1>1, ReapIsRowStep DEF RowStep

LEMMA RecordRows ==
  ASSUME IInv, NEW w \in Worker, Record(w), NEW j \in Job
  PROVE  RowStep(row[j], row'[j])
<1> DEFINE k == job[w]
<1>1. /\ pc[w] = "record" /\ k \in Job /\ row \in [Job -> Row]
      /\ row[k] \in Row /\ RowOK(row[k]) /\ row[k].attempts \in Nat
  BY RowsAreOK, RowFields DEF IInv, TypeOK, ProcessOK, JobKnown, Working,
     Record
<1>2. CASE Holds(row[k], w, sampled[w]) /\ j = k
  <2>1. seen[w].attempts = row[k].attempts /\ row[k].status = "processing"
    BY <1>1, <1>2 DEF IInv, ProcessOK, SeenIsCurrent, Working, Holds
  <2>2. row'[j] = FailureRecorded(row[k], row[k].attempts)
    BY <1>1, <1>2, <2>1 DEF Record, RecordFailure
  <2>3. /\ row'[j].status = IF row[k].attempts >= MaxAttempts THEN "failed"
                            ELSE "pending"
        /\ row'[j].attempts = row[k].attempts /\ row'[j].pdf = row[k].pdf
    BY <1>1, <2>2 DEF FailureRecorded, Row
  <2>4. row[k].attempts >= MaxAttempts <=> row[k].attempts = MaxAttempts
    BY <1>1, RepositoryAssumption DEF RowOK
  <2> QED
    BY <1>2, <2>1, <2>3, <2>4 DEF RowStep, Dropped
<1>3. CASE ~ (Holds(row[k], w, sampled[w]) /\ j = k)
  <2>1. row'[j] = row[j]
    BY <1>1, <1>3 DEF Record, RecordFailure
  <2> QED
    BY <2>1 DEF RowStep, Untouched
<1> QED
  BY <1>2, <1>3

LEMMA CommitRows ==
  ASSUME IInv, NEW w \in Worker, Commit(w), NEW j \in Job
  PROVE  RowStep(row[j], row'[j])
<1> DEFINE k == job[w]
<1>1. /\ TypeOK /\ ProcessOK(w) /\ pc[w] = "moved" /\ HoldsWriteLock(w)
      /\ k \in Job /\ row[k] \in Row /\ RowOK(row[k])
  BY RowsAreOK DEF IInv, TypeOK, ProcessOK, JobKnown, Working, HoldsWriteLock,
     Commit
<1>2. row' = [row EXCEPT ![k] = Published(row[k], fp[w])]
  BY DEF Commit, PublishSuccess
<1>3. /\ row[k].owner = w /\ row[k].status = "processing"
      /\ seen[w].attempts = row[k].attempts
  <2>1. row[k].owner = w
    BY <1>1 DEF ProcessOK, GateKeepsOwner
  <2> QED
    BY <1>1, <2>1, RepositoryAssumption DEF RowOK, ProcessOK, SeenIsCurrent,
       Working
<1>4. fp[w] # NULL /\ fp[w].attempt = row[k].attempts
  <2>1. fp[w] = MyBytes(w) /\ MyBytes(w) \in Bytes
    BY <1>1, BytesType DEF ProcessOK, OwnFingerprint, TypeOK
  <2> QED
    BY <1>3, <2>1, NullAssumption DEF MyBytes
<1>5. CASE j = k
  <2>1. row'[j] = Published(row[k], fp[w])
    BY <1>1, <1>2, <1>5 DEF TypeOK
  <2>2. /\ row'[j].status = "succeeded" /\ row'[j].pdf = fp[w]
        /\ row'[j].attempts = row[k].attempts
    BY <1>1, <2>1 DEF Published, Row
  <2> QED
    BY <1>3, <1>4, <1>5, <2>2 DEF RowStep, Delivered
<1>6. CASE j # k
  BY <1>1, <1>2, <1>6 DEF RowStep, Untouched, TypeOK
<1> QED
  BY <1>5, <1>6

LEMMA RenewalRows ==
  ASSUME IInv, NEW w \in Worker, NEW k \in Job, NEW now \in Nat,
         RenewLease(k, w, now), NEW j \in Job
  PROVE  RowStep(row[j], row'[j])
<1>1. row \in [Job -> Row]
  BY DEF IInv, TypeOK
<1>2. row' = [row EXCEPT ![k].expires = LeaseUntil(now)]
  BY DEF RenewLease
<1> QED
  BY <1>1, <1>2 DEF RowStep, Untouched, Row

\* Every step changes each row by a RowStep.
LEMMA EveryStepIsRowStep ==
  ASSUME IInv, [Next]_vars, NEW j \in Job
  PROVE  RowStep(row[j], row'[j])
<1>1. CASE UNCHANGED row
  BY <1>1 DEF RowStep, Untouched
<1>2. ASSUME NEW k \in Job, Submit(k) PROVE RowStep(row[j], row'[j])
  BY <1>2, SubmitRows
<1>3. ASSUME NEW w \in Worker, MainStep(w) PROVE RowStep(row[j], row'[j])
  <2>1. CASE Claim(w)
    BY <2>1, ClaimRows
  <2>2. CASE ClaimNone(w)
    BY <2>2, ClaimNoneRows
  <2>3. CASE Record(w)
    BY <2>3, RecordRows
  <2>4. CASE Commit(w)
    BY <2>4, CommitRows
  <2>5. CASE ~ (Claim(w) \/ ClaimNone(w) \/ Record(w) \/ Commit(w))
    <3>1. UNCHANGED row
      BY <1>3, <2>5 DEF MainStep, Start, Poll, LoadJob, Stop, SweepOrphan,
         Rest, SweepTmp, SweepOfficial, Stage, ConvertOk, StageLost,
         ConvertFail, DropFailure, AcceptFailure, DropResult, KeepResult,
         Fingerprint, FingerprintFails, GateRefuses, GateHolds, Move,
         MoveFails, CommitFails, Undo, Raise, Unwind, Crash
    <3> QED
      BY <3>1, <1>1
  <2> QED
    BY <2>1, <2>2, <2>3, <2>4, <2>5
<1>4. ASSUME NEW w \in Worker, RenewerStep(w) PROVE RowStep(row[j], row'[j])
  <2>1. CASE RenewHeld(w)
    <3>1. job[w] \in Job /\ renewer[w].at \in Nat
      BY <2>1 DEF RenewHeld, IInv, TypeOK, Thread, ProcessOK, JobKnown
    <3> QED
      BY <2>1, <3>1, RenewalRows DEF RenewHeld
  <2>2. CASE LateRenew(w)
    <3>1. PICK call \in late :
            RenewLease(call.job, w, call.at) \/ UNCHANGED row
      BY <2>2 DEF LateRenew
    <3>2. call.job \in Job /\ call.at \in Nat
      BY <3>1 DEF IInv, TypeOK
    <3> QED
      BY <1>1, <3>1, <3>2, RenewalRows
  <2>3. CASE RenewWake(w) \/ RenewLost(w) \/ RenewRaises(w)
    BY <1>1, <2>3 DEF RenewWake, RenewLost, RenewRaises
  <2> QED
    BY <1>4, <2>1, <2>2, <2>3 DEF RenewerStep
<1>5. CASE Tick \/ UNCHANGED vars
  BY <1>1, <1>5 DEF Tick, vars
<1> QED
  BY <1>2, <1>3, <1>4, <1>5 DEF Next

-----------------------------------------------------------------------------
(* What follows. *)

\* A claim takes a lease over only after its end by the wall clock, although
\* it compares it with a time sampled before it waited for the write lock.
THEOREM LeasesAreNotStolen == Spec => NoStolenLease
<1> DEFINE Fair == \A j \in Job : /\ row[j].owner # NULL
                                  /\ row'[j].attempts # row[j].attempts
                                  => row[j].expires < clock
<1>1. IInv /\ [Next]_vars => Fair
  <2>1. SUFFICES ASSUME IInv, [Next]_vars, NEW j \in Job,
                        row[j].owner # NULL,
                        row'[j].attempts # row[j].attempts
                 PROVE  row[j].expires < clock
    OBVIOUS
  <2>2. RowStep(row[j], row'[j]) /\ RowOK(row[j])
    BY <2>1, EveryStepIsRowStep, RowsAreOK DEF IInv
  <2> QED
    BY <2>1, <2>2 DEF RowStep, Untouched, Inserted, Taken, Delivered, Dropped,
       RowOK
<1>2. IInv /\ [Next]_vars => [Fair]_vars
  BY <1>1
<1> QED
  BY <1>2, InvariantHolds, PTL DEF Spec, NoStolenLease

\* The state of JobLifecycle that a row stands for.
Result(r) == IF r.pdf = NULL THEN 0 ELSE r.pdf.attempt

Abstract(r) ==
  [status |-> r.status, attempts |-> r.attempts, result |-> Result(r)]

LEMMA AbstractType ==
  ASSUME NEW r \in Row, RowOK(r)
  PROVE  Abstract(r) \in Lifecycle!State
<1>1. r.attempts \in 0 .. MaxAttempts /\ r.status \in Lifecycle!Status
  BY RowFields, RepositoryAssumption DEF RowOK, Status, Lifecycle!Status
<1>2. Result(r) \in 0 .. MaxAttempts
  <2>1. CASE r.pdf = NULL
    BY <2>1, RepositoryAssumption DEF Result
  <2>2. CASE r.pdf # NULL
    BY <1>1, <2>2 DEF RowOK, Result
  <2> QED
    BY <2>1, <2>2
<1> QED
  BY <1>1, <1>2 DEF Abstract, Lifecycle!State

\* A RowStep is a step of that job in JobLifecycle, or none.
LEMMA RowStepIsAbstract ==
  ASSUME NEW r \in Row, RowOK(r), NEW s \in Row, RowStep(r, s)
  PROVE  \/ Abstract(s) = Abstract(r)
         \/ Lifecycle!Submitted(Abstract(r), Abstract(s))
         \/ Lifecycle!Attempted(Abstract(r), Abstract(s))
         \/ Lifecycle!Finished(Abstract(r), Abstract(s))
         \/ Lifecycle!Requeued(Abstract(r), Abstract(s))
         \/ Lifecycle!GivenUp(Abstract(r), Abstract(s))
<1>0. r.attempts \in Nat /\ r.attempts <= MaxAttempts /\ MaxAttempts \in Nat
  BY RowFields, RepositoryAssumption DEF RowOK
<1>1. CASE Untouched(r, s)
  BY <1>1 DEF Untouched, Abstract, Result
<1>2. CASE Inserted(r, s)
  BY <1>2 DEF Inserted, Abstract, Result, Lifecycle!Submitted
<1>3. CASE Taken(r, s)
  <2>1. /\ r.status \in {"pending", "processing"} /\ r.attempts < MaxAttempts
        /\ s.status = "processing" /\ s.attempts = r.attempts + 1
        /\ Result(s) = Result(r)
    BY <1>3 DEF Taken, Result
  <2> QED
    BY <2>1 DEF Abstract, Lifecycle!Attempted
<1>4. CASE Delivered(r, s)
  <2>1. /\ r.status = "processing" /\ s.status = "succeeded"
        /\ s.attempts = r.attempts /\ Result(s) = r.attempts
    BY <1>4 DEF Delivered, Result
  <2> QED
    BY <2>1 DEF Abstract, Lifecycle!Finished
<1>5. CASE Dropped(r, s) /\ r.attempts = MaxAttempts
  BY <1>5 DEF Dropped, Abstract, Result, Lifecycle!GivenUp
<1>6. CASE Dropped(r, s) /\ r.attempts # MaxAttempts
  BY <1>0, <1>6 DEF Dropped, Abstract, Result, Lifecycle!Requeued
<1> QED
  BY <1>1, <1>2, <1>3, <1>4, <1>5, <1>6 DEF RowStep

\* If each row moves so, the whole table makes a step of JobLifecycle.
LEMMA RowStepsAreNext ==
  ASSUME IInv, IInv', \A j \in Job : RowStep(row[j], row'[j])
  PROVE  Lifecycle!Next
<1> DEFINE bar == [j \in Job |-> Abstract(row[j])]
<1>1. \A j \in Job : /\ row[j] \in Row /\ RowOK(row[j])
                     /\ row'[j] \in Row /\ RowOK(row'[j])
  <2>1. \A j \in Job : row[j] \in Row /\ RowOK(row[j])
    BY RowsAreOK DEF IInv, TypeOK
  <2>2. \A j \in Job : row'[j] \in Row
    BY DEF IInv, TypeOK
  <2>3. \A j \in Job : RowOK(row'[j])
    BY DEF IInv, TableOK, RowCoherent, AttemptsBounded, LatestAttemptLands,
       RowOK
  <2> QED
    BY <2>1, <2>2, <2>3
<1>2. bar' \in [Job -> Lifecycle!State]
  BY <1>1, AbstractType DEF Abstract
<1>3. ASSUME NEW j \in Job
      PROVE  \/ bar'[j] = bar[j]
             \/ Lifecycle!Submitted(bar[j], bar'[j])
             \/ Lifecycle!Attempted(bar[j], bar'[j])
             \/ Lifecycle!Finished(bar[j], bar'[j])
             \/ Lifecycle!Requeued(bar[j], bar'[j])
             \/ Lifecycle!GivenUp(bar[j], bar'[j])
  BY <1>1, RowStepIsAbstract
<1> QED
  BY <1>2, <1>3 DEF Lifecycle!Next, Abstract, Result

\* Whatever processes, threads, files and faults do, what a client sees of the
\* jobs is a behaviour of JobLifecycle.
THEOREM WorkersImplementLifecycle == Spec => ImplementsLifecycle
<1> DEFINE bar == [j \in Job |-> Abstract(row[j])]
<1>1. Init => Lifecycle!Init
  BY DEF Init, RowInit, NoRow, Lifecycle!Init
<1>2. IInv /\ IInv' /\ [Next]_vars => [Lifecycle!Next]_bar
  BY EveryStepIsRowStep, RowStepsAreNext
<1> QED
  BY <1>1, <1>2, InvariantHolds, PTL DEF Spec, ImplementsLifecycle,
     Lifecycle!Spec, Abstract, Result
=============================================================================
