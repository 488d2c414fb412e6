---------------------------- MODULE WorkerProofs ----------------------------
(***************************************************************************)
(* The safety of the worker processes for any number of jobs, processes    *)
(* and attempts, any lease and any combination of faults.  Inductive       *)
(* invariant: IInv of WorkerProperties.                                    *)
(***************************************************************************)
EXTENDS WorkerProperties, TLAPS

USE RepositoryAssumption, NullAssumption, WorkerAssumption

-----------------------------------------------------------------------------
(* Rows. *)

\* What the UPDATE statements make of a row is a row.
LEMMA ReapedType ==
  ASSUME NEW r \in Row
  PROVE  Reaped(r) \in Row
BY DEF Reaped, Row, Status, Error

LEMMA ClaimedType ==
  ASSUME NEW r \in Row, NEW w \in Worker, NEW now \in Nat
  PROVE  Claimed(r, w, now) \in Row
<1>1. LeaseUntil(now) \in Nat
  BY DEF LeaseUntil
<1>2. r.attempts + 1 \in Nat
  BY DEF Row
<1> QED
  BY <1>1, <1>2 DEF Claimed, Row, Status

LEMMA PublishedType ==
  ASSUME NEW r \in Row, NEW b \in Bytes
  PROVE  Published(r, b) \in Row
BY DEF Published, Row, Status

LEMMA FailureRecordedType ==
  ASSUME NEW r \in Row, NEW n \in Nat
  PROVE  FailureRecorded(r, n) \in Row
BY DEF FailureRecorded, Row, Status, Error

LEMMA NoRowType == NoRow \in Row
BY DEF NoRow, Row, Status

\* Fields of a row, by their types.
LEMMA RowFields ==
  ASSUME NEW r \in Row
  PROVE  /\ r.status \in Status
         /\ r.attempts \in Nat
         /\ r.owner \in Worker \cup {NULL}
         /\ r.expires \in Nat \cup {NULL}
         /\ r.pdf \in Bytes \cup {NULL}
BY DEF Row

LEMMA BytesType ==
  ASSUME NEW w \in Worker, seen[w] \in Row
  PROVE  MyBytes(w) \in Bytes
<1>1. seen[w].attempts \in Nat
  BY RowFields
<1> QED
  BY <1>1 DEF MyBytes, Bytes

LEMMA PathTypes ==
  ASSUME NEW w \in Worker, seen[w] \in Row, job[w] \in Job
  PROVE  MyPath(w) \in Path /\ MyPart(w) \in Path
<1>1. seen[w].attempts \in Nat
  BY RowFields
<1> QED
  BY <1>1 DEF MyPath, MyPart, TmpPath, PartPath, Path

-----------------------------------------------------------------------------
(* Frames: what a step of one process leaves of the facts about the rest.    *)

\* The locals of v, as far as ProcessOK looks at them.
SameLocals(v) ==
  /\ pc'[v] = pc[v]
  /\ job'[v] = job[v]
  /\ seen'[v] = seen[v]
  /\ sampled'[v] = sampled[v]
  /\ fp'[v] = fp[v]
  /\ renewer'[v].state = renewer[v].state

\* Of the files of v, a step may remove some but leaves none changed.
KeepsFiles(v) ==
  \A p : p.owner = v /\ p \in DOMAIN tmp' =>
          p \in DOMAIN tmp /\ tmp'[p] = tmp[p]

\* v owns no row, or no other attempt of it, that it did not own before.
GivesNoRow(v) ==
  \A j \in Job : row'[j].owner = v =>
    row[j].owner = v /\ row'[j].attempts = row[j].attempts

\* A process that does not move keeps ProcessOK if the step respects its
\* files, its rows and, while it holds the write lock, its ownership.
LEMMA ProcessFrame ==
  ASSUME IInv, NEW v \in Worker,
         clock <= clock', clock \in Nat, clock' \in Nat,
         SameLocals(v), KeepsFiles(v), GivesNoRow(v),
         HoldsWriteLock(v) => row'[job[v]].owner = row[job[v]].owner,
         pc[v] = "moved" => official'[job[v]] \in {NULL, official[job[v]]}
  PROVE  ProcessOK(v)'
<1> USE DEF SameLocals
<1>0. ProcessOK(v)
  BY DEF IInv
<1>1. JobKnown(v)'
  BY <1>0 DEF ProcessOK, JobKnown
<1>2. (sampled[v] <= clock)' /\ (seen[v].attempts <= MaxAttempts)'
  <2>1. sampled[v] \in Nat
    BY DEF IInv, TypeOK, Time
  <2> QED
    BY <1>0, <2>1 DEF ProcessOK
<1>3. SeenIsCurrent(v)'
  <2>1. SUFFICES ASSUME pc[v] \in Working, row'[job[v]].owner = v
                 PROVE  seen[v].attempts = row'[job[v]].attempts
    BY DEF SeenIsCurrent
  <2>2. job[v] \in Job
    BY <1>0, <2>1 DEF ProcessOK, JobKnown
  <2> QED
    BY <1>0, <2>1, <2>2 DEF ProcessOK, SeenIsCurrent, GivesNoRow
<1>4. GateKeepsOwner(v)'
  BY <1>0 DEF ProcessOK, GateKeepsOwner, HoldsWriteLock
<1>5. OwnPart(v)'
  <2>1. /\ MyPart(v)' = MyPart(v) /\ MyPart(v).owner = v
        /\ MyBytes(v)' = MyBytes(v)
    BY DEF MyPart, PartPath, MyBytes
  <2> QED
    BY <1>0, <2>1 DEF ProcessOK, OwnPart, KeepsFiles
<1>6. OwnTemp(v)'
  <2>1. /\ MyPath(v)' = MyPath(v) /\ MyPath(v).owner = v
        /\ MyBytes(v)' = MyBytes(v)
    BY DEF MyPath, TmpPath, MyBytes
  <2> QED
    BY <1>0, <2>1 DEF ProcessOK, OwnTemp, KeepsFiles
<1>7. OwnFingerprint(v)'
  BY <1>0 DEF ProcessOK, OwnFingerprint, MyBytes
<1>8. MovedIsMine(v)'
  BY <1>0 DEF ProcessOK, MovedIsMine
<1> QED
  BY <1>1, <1>2, <1>3, <1>4, <1>5, <1>6, <1>7, <1>8 DEF ProcessOK

\* A step that changes no row and puts no file at an official path.
LEMMA TableFrame ==
  ASSUME IInv, UNCHANGED row,
         \A j \in Job : official'[j] \in {NULL, official[j]}
  PROVE  TableOK'
<1>1. RowCoherent' /\ AttemptsBounded' /\ LatestAttemptLands'
  BY DEF IInv, TableOK, RowCoherent, AttemptsBounded, LatestAttemptLands
<1>2. OfficialIsRegistered'
  BY DEF IInv, TableOK, OfficialIsRegistered
<1> QED
  BY <1>1, <1>2 DEF TableOK

\* Such a step of one process w, with the write lock neither obtained nor
\* passed on, preserves IInv if it leaves w in order and all types right.
LEMMA PrivateStep ==
  ASSUME IInv, NEW w \in Worker, TypeOK', ProcessOK(w)',
         UNCHANGED <<clock, row>>,
         \A j \in Job : official'[j] \in {NULL, official[j]},
         \A v \in Worker \ {w} : SameLocals(v) /\ KeepsFiles(v),
         HoldsWriteLock(w)' => HoldsWriteLock(w) \/ WriteLockFree
  PROVE  IInv'
<1>1. TableOK'
  BY TableFrame
<1>2. ASSUME NEW v \in Worker \ {w}
      PROVE  ProcessOK(v)'
  <2>1. SameLocals(v) /\ KeepsFiles(v) /\ GivesNoRow(v)
    BY DEF GivesNoRow
  <2>2. clock \in Nat /\ clock' \in Nat /\ clock <= clock'
    BY DEF IInv, TypeOK, Time
  <2>3. pc[v] = "moved" => official'[job[v]] \in {NULL, official[job[v]]}
    <3>1. pc[v] = "moved" => job[v] \in Job
      BY DEF IInv, ProcessOK, JobKnown, Working
    <3> QED
      BY <3>1
  <2> QED
    BY <2>1, <2>2, <2>3, ProcessFrame
<1>3. OneWriter'
  <2>1. \A v \in Worker \ {w} : HoldsWriteLock(v)' = HoldsWriteLock(v)
    BY DEF SameLocals, HoldsWriteLock
  <2> QED
    BY <2>1 DEF IInv, OneWriter, WriteLockFree
<1> QED
  BY <1>1, <1>2, <1>3 DEF IInv

\* A step of one process w on the jobs table or on the official files, taken
\* while no other process holds the write lock.
LEMMA LockedStep ==
  ASSUME IInv, NEW w \in Worker, TypeOK', TableOK', ProcessOK(w)',
         UNCHANGED clock,
         \A v \in Worker \ {w} :
           SameLocals(v) /\ KeepsFiles(v) /\ GivesNoRow(v) /\ ~ HoldsWriteLock(v)
  PROVE  IInv'
<1>1. ASSUME NEW v \in Worker \ {w}
      PROVE  ProcessOK(v)'
  <2>1. clock \in Nat /\ clock' \in Nat /\ clock <= clock'
    BY DEF IInv, TypeOK, Time
  <2>2. pc[v] # "moved"
    BY DEF HoldsWriteLock
  <2> QED
    BY <2>1, <2>2, ProcessFrame
<1>2. OneWriter'
  BY DEF SameLocals, HoldsWriteLock, OneWriter
<1> QED
  BY <1>1, <1>2 DEF IInv

-----------------------------------------------------------------------------
(* Steps of one process that change no row.                                  *)

\* Steps that only move the program counter.
LEMMA JumpKeeps ==
  ASSUME IInv, NEW w \in Worker,
         Start(w) \/ Rest(w) \/ Stop(w) \/ ConvertFail(w) \/ StageLost(w)
           \/ KeepResult(w) \/ FingerprintFails(w) \/ MoveFails(w)
           \/ CommitFails(w) \/ Raise(w)
  PROVE  IInv'
<1> USE DEF Goto, procVars, fileVars
<1>0. TypeOK /\ ProcessOK(w)
  BY DEF IInv
<1>1. TypeOK'
  BY <1>0 DEF TypeOK, Start, Rest, Stop, ConvertFail, StageLost, KeepResult,
         FingerprintFails, MoveFails, CommitFails, Raise, PC
<1>2. ProcessOK(w)'
  BY <1>0 DEF TypeOK, Start, Rest, Stop, ConvertFail, StageLost, KeepResult,
         FingerprintFails, MoveFails, CommitFails, Raise, ProcessOK, JobKnown,
         SeenIsCurrent, GateKeepsOwner, HoldsWriteLock, OwnPart, OwnTemp,
         OwnFingerprint, MovedIsMine, MyPath, MyPart, MyBytes, Working
<1>3. /\ UNCHANGED <<clock, row>>
      /\ \A j \in Job : official'[j] \in {NULL, official[j]}
  BY <1>0 DEF TypeOK, Start, Rest, Stop, ConvertFail, StageLost, KeepResult,
         FingerprintFails, MoveFails, CommitFails, Raise
<1>4. \A v \in Worker \ {w} : SameLocals(v) /\ KeepsFiles(v)
  BY <1>0 DEF TypeOK, SameLocals, KeepsFiles, Start, Rest, Stop, ConvertFail,
         StageLost, KeepResult, FingerprintFails, MoveFails, CommitFails, Raise
<1>5. HoldsWriteLock(w)' => HoldsWriteLock(w) \/ WriteLockFree
  BY <1>0 DEF TypeOK, HoldsWriteLock, Start, Rest, Stop, ConvertFail,
         StageLost, KeepResult, FingerprintFails, MoveFails, CommitFails, Raise
<1> QED
  BY <1>1, <1>2, <1>3, <1>4, <1>5, PrivateStep

LEMMA PollKeeps ==
  ASSUME IInv, NEW w \in Worker, Poll(w)
  PROVE  IInv'
<1> USE DEF Goto, procVars, fileVars
<1>0. TypeOK /\ ProcessOK(w)
  BY DEF IInv
<1>1. TypeOK'
  BY <1>0 DEF TypeOK, Poll, PC, Time
<1>2. ProcessOK(w)'
  <2>1. JobKnown(w)'
    BY <1>0 DEF TypeOK, ProcessOK, Poll, JobKnown, Working
  <2>2. (sampled[w] <= clock)'
    BY <1>0 DEF TypeOK, ProcessOK, Poll, Time
  <2>3. (seen[w].attempts <= MaxAttempts)'
    BY <1>0 DEF TypeOK, ProcessOK, Poll, IInv, TableOK, AttemptsBounded,
           JobKnown, NoRow
  <2>4. SeenIsCurrent(w)'
    BY <1>0 DEF TypeOK, ProcessOK, Poll, SeenIsCurrent, Working
  <2>5. GateKeepsOwner(w)'
    BY <1>0 DEF TypeOK, ProcessOK, Poll, GateKeepsOwner, HoldsWriteLock,
           PublishGate, Holds
  <2>6. OwnPart(w)' /\ OwnTemp(w)'
    BY <1>0 DEF TypeOK, ProcessOK, Poll, OwnPart, OwnTemp, MyPart, MyPath,
           MyBytes
  <2>7. OwnFingerprint(w)'
    BY <1>0 DEF TypeOK, ProcessOK, Poll, OwnFingerprint, OwnTemp, MyBytes,
           MyPath
  <2>8. MovedIsMine(w)'
    BY <1>0 DEF TypeOK, ProcessOK, Poll, MovedIsMine
  <2> QED
    BY <2>1, <2>2, <2>3, <2>4, <2>5, <2>6, <2>7, <2>8 DEF ProcessOK
<1>3. /\ UNCHANGED <<clock, row>>
      /\ \A j \in Job : official'[j] \in {NULL, official[j]}
  BY <1>0 DEF TypeOK, Poll
<1>4. \A v \in Worker \ {w} : SameLocals(v) /\ KeepsFiles(v)
  BY <1>0 DEF TypeOK, SameLocals, KeepsFiles, Poll
<1>5. HoldsWriteLock(w)' => HoldsWriteLock(w) \/ WriteLockFree
  BY <1>0 DEF TypeOK, HoldsWriteLock, Poll
<1> QED
  BY <1>1, <1>2, <1>3, <1>4, <1>5, PrivateStep

LEMMA LoadJobKeeps ==
  ASSUME IInv, NEW w \in Worker, LoadJob(w)
  PROVE  IInv'
<1> USE DEF Goto, procVars, fileVars
<1>0. TypeOK /\ ProcessOK(w)
  BY DEF IInv
<1>1. TypeOK'
  BY <1>0 DEF TypeOK, LoadJob, PC, Time, Working, ProcessOK, JobKnown
<1>2. ProcessOK(w)'
  <2>1. JobKnown(w)'
    BY <1>0 DEF TypeOK, ProcessOK, LoadJob, JobKnown, Working
  <2>2. (sampled[w] <= clock)'
    BY <1>0 DEF TypeOK, ProcessOK, LoadJob, Time
  <2>3. (seen[w].attempts <= MaxAttempts)'
    BY <1>0 DEF TypeOK, ProcessOK, LoadJob, IInv, TableOK, AttemptsBounded,
           JobKnown, NoRow
  <2>4. SeenIsCurrent(w)'
    BY <1>0 DEF TypeOK, ProcessOK, LoadJob, SeenIsCurrent, Working
  <2>5. GateKeepsOwner(w)'
    BY <1>0 DEF TypeOK, ProcessOK, LoadJob, GateKeepsOwner, HoldsWriteLock,
           PublishGate, Holds
  <2>6. OwnPart(w)' /\ OwnTemp(w)'
    BY <1>0 DEF TypeOK, ProcessOK, LoadJob, OwnPart, OwnTemp, MyPart, MyPath,
           MyBytes
  <2>7. OwnFingerprint(w)'
    BY <1>0 DEF TypeOK, ProcessOK, LoadJob, OwnFingerprint, OwnTemp, MyBytes,
           MyPath
  <2>8. MovedIsMine(w)'
    BY <1>0 DEF TypeOK, ProcessOK, LoadJob, MovedIsMine
  <2> QED
    BY <2>1, <2>2, <2>3, <2>4, <2>5, <2>6, <2>7, <2>8 DEF ProcessOK
<1>3. /\ UNCHANGED <<clock, row>>
      /\ \A j \in Job : official'[j] \in {NULL, official[j]}
  BY <1>0 DEF TypeOK, LoadJob
<1>4. \A v \in Worker \ {w} : SameLocals(v) /\ KeepsFiles(v)
  BY <1>0 DEF TypeOK, SameLocals, KeepsFiles, LoadJob
<1>5. HoldsWriteLock(w)' => HoldsWriteLock(w) \/ WriteLockFree
  BY <1>0 DEF TypeOK, HoldsWriteLock, LoadJob
<1> QED
  BY <1>1, <1>2, <1>3, <1>4, <1>5, PrivateStep

LEMMA AcceptFailureKeeps ==
  ASSUME IInv, NEW w \in Worker, AcceptFailure(w)
  PROVE  IInv'
<1> USE DEF Goto, procVars, fileVars
<1>0. TypeOK /\ ProcessOK(w)
  BY DEF IInv
<1>1. TypeOK'
  BY <1>0 DEF TypeOK, AcceptFailure, PC, Time
<1>2. ProcessOK(w)'
  <2>1. JobKnown(w)'
    BY <1>0 DEF TypeOK, ProcessOK, AcceptFailure, JobKnown, Working
  <2>2. (sampled[w] <= clock)'
    BY <1>0 DEF TypeOK, ProcessOK, AcceptFailure, Time
  <2>3. (seen[w].attempts <= MaxAttempts)'
    BY <1>0 DEF TypeOK, ProcessOK, AcceptFailure, IInv, TableOK,
           AttemptsBounded, JobKnown, NoRow
  <2>4. SeenIsCurrent(w)'
    BY <1>0 DEF TypeOK, ProcessOK, AcceptFailure, SeenIsCurrent, Working
  <2>5. GateKeepsOwner(w)'
    BY <1>0 DEF TypeOK, ProcessOK, AcceptFailure, GateKeepsOwner,
           HoldsWriteLock, PublishGate, Holds
  <2>6. OwnPart(w)' /\ OwnTemp(w)'
    BY <1>0 DEF TypeOK, ProcessOK, AcceptFailure, OwnPart, OwnTemp, MyPart,
           MyPath, MyBytes
  <2>7. OwnFingerprint(w)'
    BY <1>0 DEF TypeOK, ProcessOK, AcceptFailure, OwnFingerprint, OwnTemp,
           MyBytes, MyPath
  <2>8. MovedIsMine(w)'
    BY <1>0 DEF TypeOK, ProcessOK, AcceptFailure, MovedIsMine
  <2> QED
    BY <2>1, <2>2, <2>3, <2>4, <2>5, <2>6, <2>7, <2>8 DEF ProcessOK
<1>3. /\ UNCHANGED <<clock, row>>
      /\ \A j \in Job : official'[j] \in {NULL, official[j]}
  BY <1>0 DEF TypeOK, AcceptFailure
<1>4. \A v \in Worker \ {w} : SameLocals(v) /\ KeepsFiles(v)
  BY <1>0 DEF TypeOK, SameLocals, KeepsFiles, AcceptFailure
<1>5. HoldsWriteLock(w)' => HoldsWriteLock(w) \/ WriteLockFree
  BY <1>0 DEF TypeOK, HoldsWriteLock, AcceptFailure
<1> QED
  BY <1>1, <1>2, <1>3, <1>4, <1>5, PrivateStep

LEMMA FingerprintKeeps ==
  ASSUME IInv, NEW w \in Worker, Fingerprint(w)
  PROVE  IInv'
<1> USE DEF Goto, procVars, fileVars
<1>0. TypeOK /\ ProcessOK(w)
  BY DEF IInv
<1>1. TypeOK'
  BY <1>0 DEF TypeOK, Fingerprint, PC, Time
<1>2. ProcessOK(w)'
  <2>1. JobKnown(w)'
    BY <1>0 DEF TypeOK, ProcessOK, Fingerprint, JobKnown, Working
  <2>2. (sampled[w] <= clock)'
    BY <1>0 DEF TypeOK, ProcessOK, Fingerprint, Time
  <2>3. (seen[w].attempts <= MaxAttempts)'
    BY <1>0 DEF TypeOK, ProcessOK, Fingerprint, IInv, TableOK, AttemptsBounded,
           JobKnown, NoRow
  <2>4. SeenIsCurrent(w)'
    BY <1>0 DEF TypeOK, ProcessOK, Fingerprint, SeenIsCurrent, Working
  <2>5. GateKeepsOwner(w)'
    BY <1>0 DEF TypeOK, ProcessOK, Fingerprint, GateKeepsOwner, HoldsWriteLock,
           PublishGate, Holds
  <2>6. OwnPart(w)' /\ OwnTemp(w)'
    BY <1>0 DEF TypeOK, ProcessOK, Fingerprint, OwnPart, OwnTemp, MyPart,
           MyPath, MyBytes
  <2>7. OwnFingerprint(w)'
    BY <1>0 DEF TypeOK, ProcessOK, Fingerprint, OwnFingerprint, OwnTemp,
           MyBytes, MyPath
  <2>8. MovedIsMine(w)'
    BY <1>0 DEF TypeOK, ProcessOK, Fingerprint, MovedIsMine
  <2> QED
    BY <2>1, <2>2, <2>3, <2>4, <2>5, <2>6, <2>7, <2>8 DEF ProcessOK
<1>3. /\ UNCHANGED <<clock, row>>
      /\ \A j \in Job : official'[j] \in {NULL, official[j]}
  BY <1>0 DEF TypeOK, Fingerprint
<1>4. \A v \in Worker \ {w} : SameLocals(v) /\ KeepsFiles(v)
  BY <1>0 DEF TypeOK, SameLocals, KeepsFiles, Fingerprint
<1>5. HoldsWriteLock(w)' => HoldsWriteLock(w) \/ WriteLockFree
  BY <1>0 DEF TypeOK, HoldsWriteLock, Fingerprint
<1> QED
  BY <1>1, <1>2, <1>3, <1>4, <1>5, PrivateStep

LEMMA GateHoldsKeeps ==
  ASSUME IInv, NEW w \in Worker, GateHolds(w)
  PROVE  IInv'
<1> USE DEF Goto, procVars, fileVars
<1>0. TypeOK /\ ProcessOK(w)
  BY DEF IInv
<1>1. TypeOK'
  BY <1>0 DEF TypeOK, GateHolds, PC, Time
<1>2. ProcessOK(w)'
  <2>1. JobKnown(w)'
    BY <1>0 DEF TypeOK, ProcessOK, GateHolds, JobKnown, Working
  <2>2. (sampled[w] <= clock)'
    BY <1>0 DEF TypeOK, ProcessOK, GateHolds, Time
  <2>3. (seen[w].attempts <= MaxAttempts)'
    BY <1>0 DEF TypeOK, ProcessOK, GateHolds, IInv, TableOK, AttemptsBounded,
           JobKnown, NoRow
  <2>4. SeenIsCurrent(w)'
    BY <1>0 DEF TypeOK, ProcessOK, GateHolds, SeenIsCurrent, Working
  <2>5. GateKeepsOwner(w)'
    BY <1>0 DEF TypeOK, ProcessOK, GateHolds, GateKeepsOwner, HoldsWriteLock,
           PublishGate, Holds
  <2>6. OwnPart(w)' /\ OwnTemp(w)'
    BY <1>0 DEF TypeOK, ProcessOK, GateHolds, OwnPart, OwnTemp, MyPart, MyPath,
           MyBytes
  <2>7. OwnFingerprint(w)'
    BY <1>0 DEF TypeOK, ProcessOK, GateHolds, OwnFingerprint, OwnTemp, MyBytes,
           MyPath
  <2>8. MovedIsMine(w)'
    BY <1>0 DEF TypeOK, ProcessOK, GateHolds, MovedIsMine
  <2> QED
    BY <2>1, <2>2, <2>3, <2>4, <2>5, <2>6, <2>7, <2>8 DEF ProcessOK
<1>3. /\ UNCHANGED <<clock, row>>
      /\ \A j \in Job : official'[j] \in {NULL, official[j]}
  BY <1>0 DEF TypeOK, GateHolds
<1>4. \A v \in Worker \ {w} : SameLocals(v) /\ KeepsFiles(v)
  BY <1>0 DEF TypeOK, SameLocals, KeepsFiles, GateHolds
<1>5. HoldsWriteLock(w)' => HoldsWriteLock(w) \/ WriteLockFree
  BY <1>0 DEF TypeOK, HoldsWriteLock, GateHolds
<1> QED
  BY <1>1, <1>2, <1>3, <1>4, <1>5, PrivateStep

LEMMA UnwindKeeps ==
  ASSUME IInv, NEW w \in Worker, Unwind(w)
  PROVE  IInv'
<1> USE DEF Goto, procVars, fileVars
<1>0. TypeOK /\ ProcessOK(w)
  BY DEF IInv
<1>1. TypeOK'
  BY <1>0, NoRowType DEF TypeOK, Unwind, PC, Time, Thread, Working, ProcessOK,
         JobKnown, Forget, NoThread
<1>2. ProcessOK(w)'
  <2>1. JobKnown(w)'
    BY <1>0 DEF TypeOK, ProcessOK, Unwind, JobKnown, Working, Forget, NoThread
  <2>2. (sampled[w] <= clock)'
    BY <1>0 DEF TypeOK, ProcessOK, Unwind, Time, Forget, NoThread
  <2>3. (seen[w].attempts <= MaxAttempts)'
    BY <1>0 DEF TypeOK, ProcessOK, Unwind, IInv, TableOK, AttemptsBounded,
           JobKnown, NoRow, Forget, NoThread
  <2>4. SeenIsCurrent(w)'
    BY <1>0 DEF TypeOK, ProcessOK, Unwind, SeenIsCurrent, Working, Forget,
           NoThread
  <2>5. GateKeepsOwner(w)'
    BY <1>0 DEF TypeOK, ProcessOK, Unwind, GateKeepsOwner, HoldsWriteLock,
           PublishGate, Holds, Forget, NoThread
  <2>6. OwnPart(w)' /\ OwnTemp(w)'
    BY <1>0 DEF TypeOK, ProcessOK, Unwind, OwnPart, OwnTemp, MyPart, MyPath,
           MyBytes, Forget, NoThread
  <2>7. OwnFingerprint(w)'
    BY <1>0 DEF TypeOK, ProcessOK, Unwind, OwnFingerprint, OwnTemp, MyBytes,
           MyPath, Forget, NoThread
  <2>8. MovedIsMine(w)'
    BY <1>0 DEF TypeOK, ProcessOK, Unwind, MovedIsMine, Forget, NoThread
  <2> QED
    BY <2>1, <2>2, <2>3, <2>4, <2>5, <2>6, <2>7, <2>8 DEF ProcessOK
<1>3. /\ UNCHANGED <<clock, row>>
      /\ \A j \in Job : official'[j] \in {NULL, official[j]}
  BY <1>0 DEF TypeOK, Unwind, Forget, NoThread
<1>4. \A v \in Worker \ {w} : SameLocals(v) /\ KeepsFiles(v)
  BY <1>0 DEF TypeOK, SameLocals, KeepsFiles, Unwind, Forget, NoThread
<1>5. HoldsWriteLock(w)' => HoldsWriteLock(w) \/ WriteLockFree
  BY <1>0 DEF TypeOK, HoldsWriteLock, Unwind, Forget, NoThread
<1> QED
  BY <1>1, <1>2, <1>3, <1>4, <1>5, PrivateStep

LEMMA CrashKeeps ==
  ASSUME IInv, NEW w \in Worker, Crash(w)
  PROVE  IInv'
<1> USE DEF Goto, procVars, fileVars
<1>0. TypeOK /\ ProcessOK(w)
  BY DEF IInv
<1>1. TypeOK'
  BY <1>0, NoRowType DEF TypeOK, Crash, PC, Time, Thread, Forget, NoThread
<1>2. ProcessOK(w)'
  <2>1. JobKnown(w)'
    BY <1>0 DEF TypeOK, ProcessOK, Crash, JobKnown, Working, Forget, NoThread
  <2>2. (sampled[w] <= clock)'
    BY <1>0 DEF TypeOK, ProcessOK, Crash, Time, Forget, NoThread
  <2>3. (seen[w].attempts <= MaxAttempts)'
    BY <1>0 DEF TypeOK, ProcessOK, Crash, IInv, TableOK, AttemptsBounded,
           JobKnown, NoRow, Forget, NoThread
  <2>4. SeenIsCurrent(w)'
    BY <1>0 DEF TypeOK, ProcessOK, Crash, SeenIsCurrent, Working, Forget,
           NoThread
  <2>5. GateKeepsOwner(w)'
    BY <1>0 DEF TypeOK, ProcessOK, Crash, GateKeepsOwner, HoldsWriteLock,
           PublishGate, Holds, Forget, NoThread
  <2>6. OwnPart(w)' /\ OwnTemp(w)'
    BY <1>0 DEF TypeOK, ProcessOK, Crash, OwnPart, OwnTemp, MyPart, MyPath,
           MyBytes, Forget, NoThread
  <2>7. OwnFingerprint(w)'
    BY <1>0 DEF TypeOK, ProcessOK, Crash, OwnFingerprint, OwnTemp, MyBytes,
           MyPath, Forget, NoThread
  <2>8. MovedIsMine(w)'
    BY <1>0 DEF TypeOK, ProcessOK, Crash, MovedIsMine, Forget, NoThread
  <2> QED
    BY <2>1, <2>2, <2>3, <2>4, <2>5, <2>6, <2>7, <2>8 DEF ProcessOK
<1>3. /\ UNCHANGED <<clock, row>>
      /\ \A j \in Job : official'[j] \in {NULL, official[j]}
  BY <1>0 DEF TypeOK, Crash, Forget, NoThread
<1>4. \A v \in Worker \ {w} : SameLocals(v) /\ KeepsFiles(v)
  BY <1>0 DEF TypeOK, SameLocals, KeepsFiles, Crash, Forget, NoThread
<1>5. HoldsWriteLock(w)' => HoldsWriteLock(w) \/ WriteLockFree
  BY <1>0 DEF TypeOK, HoldsWriteLock, Crash, Forget, NoThread
<1> QED
  BY <1>1, <1>2, <1>3, <1>4, <1>5, PrivateStep

\* Steps that remove temp files.
LEMMA SweepTmpKeeps ==
  ASSUME IInv, NEW w \in Worker, SweepTmp(w)
  PROVE  IInv'
<1> USE DEF Goto, procVars, fileVars
<1>0. TypeOK /\ ProcessOK(w)
  BY DEF IInv
<1>1. TypeOK'
  BY <1>0 DEF TypeOK, SweepTmp, PC, Without, MyPath, MyPart, MyBytes, TmpPath,
         PartPath
<1>2. ProcessOK(w)'
  BY <1>0 DEF TypeOK, SweepTmp, ProcessOK, JobKnown, SeenIsCurrent,
         GateKeepsOwner, HoldsWriteLock, OwnPart, OwnTemp, OwnFingerprint,
         MovedIsMine, MyPath, MyPart, MyBytes, Working, Without, MyPath,
         MyPart, MyBytes, TmpPath, PartPath
<1>3. /\ UNCHANGED <<clock, row>>
      /\ \A j \in Job : official'[j] \in {NULL, official[j]}
  BY <1>0 DEF TypeOK, SweepTmp, Without, MyPath, MyPart, MyBytes, TmpPath,
         PartPath
<1>4. \A v \in Worker \ {w} : SameLocals(v) /\ KeepsFiles(v)
  BY <1>0 DEF TypeOK, SameLocals, KeepsFiles, SweepTmp, Without, MyPath,
         MyPart, MyBytes, TmpPath, PartPath
<1>5. HoldsWriteLock(w)' => HoldsWriteLock(w) \/ WriteLockFree
  BY <1>0 DEF TypeOK, HoldsWriteLock, SweepTmp, Without, MyPath, MyPart,
         MyBytes, TmpPath, PartPath
<1> QED
  BY <1>1, <1>2, <1>3, <1>4, <1>5, PrivateStep

LEMMA SweepOrphanKeeps ==
  ASSUME IInv, NEW w \in Worker, SweepOrphan(w)
  PROVE  IInv'
<1> USE DEF Goto, procVars, fileVars
<1>0. TypeOK /\ ProcessOK(w)
  BY DEF IInv
<1>1. TypeOK'
  BY <1>0 DEF TypeOK, SweepOrphan, PC, Without, MyPath, MyPart, MyBytes,
         TmpPath, PartPath
<1>2. ProcessOK(w)'
  BY <1>0 DEF TypeOK, SweepOrphan, ProcessOK, JobKnown, SeenIsCurrent,
         GateKeepsOwner, HoldsWriteLock, OwnPart, OwnTemp, OwnFingerprint,
         MovedIsMine, MyPath, MyPart, MyBytes, Working, Without, MyPath,
         MyPart, MyBytes, TmpPath, PartPath
<1>3. /\ UNCHANGED <<clock, row>>
      /\ \A j \in Job : official'[j] \in {NULL, official[j]}
  BY <1>0 DEF TypeOK, SweepOrphan, Without, MyPath, MyPart, MyBytes, TmpPath,
         PartPath
<1>4. \A v \in Worker \ {w} : SameLocals(v) /\ KeepsFiles(v)
  BY <1>0 DEF TypeOK, SameLocals, KeepsFiles, SweepOrphan, Without, MyPath,
         MyPart, MyBytes, TmpPath, PartPath
<1>5. HoldsWriteLock(w)' => HoldsWriteLock(w) \/ WriteLockFree
  BY <1>0 DEF TypeOK, HoldsWriteLock, SweepOrphan, Without, MyPath, MyPart,
         MyBytes, TmpPath, PartPath
<1> QED
  BY <1>1, <1>2, <1>3, <1>4, <1>5, PrivateStep

LEMMA DropFailureKeeps ==
  ASSUME IInv, NEW w \in Worker, DropFailure(w)
  PROVE  IInv'
<1> USE DEF Goto, procVars, fileVars
<1>0. TypeOK /\ ProcessOK(w)
  BY DEF IInv
<1>1. TypeOK'
  BY <1>0 DEF TypeOK, DropFailure, PC, Without, MyPath, MyPart, MyBytes,
         TmpPath, PartPath
<1>2. ProcessOK(w)'
  BY <1>0 DEF TypeOK, DropFailure, ProcessOK, JobKnown, SeenIsCurrent,
         GateKeepsOwner, HoldsWriteLock, OwnPart, OwnTemp, OwnFingerprint,
         MovedIsMine, MyPath, MyPart, MyBytes, Working, Without, MyPath,
         MyPart, MyBytes, TmpPath, PartPath
<1>3. /\ UNCHANGED <<clock, row>>
      /\ \A j \in Job : official'[j] \in {NULL, official[j]}
  BY <1>0 DEF TypeOK, DropFailure, Without, MyPath, MyPart, MyBytes, TmpPath,
         PartPath
<1>4. \A v \in Worker \ {w} : SameLocals(v) /\ KeepsFiles(v)
  BY <1>0 DEF TypeOK, SameLocals, KeepsFiles, DropFailure, Without, MyPath,
         MyPart, MyBytes, TmpPath, PartPath
<1>5. HoldsWriteLock(w)' => HoldsWriteLock(w) \/ WriteLockFree
  BY <1>0 DEF TypeOK, HoldsWriteLock, DropFailure, Without, MyPath, MyPart,
         MyBytes, TmpPath, PartPath
<1> QED
  BY <1>1, <1>2, <1>3, <1>4, <1>5, PrivateStep

LEMMA DropResultKeeps ==
  ASSUME IInv, NEW w \in Worker, DropResult(w)
  PROVE  IInv'
<1> USE DEF Goto, procVars, fileVars
<1>0. TypeOK /\ ProcessOK(w)
  BY DEF IInv
<1>1. TypeOK'
  BY <1>0 DEF TypeOK, DropResult, PC, Without, MyPath, MyPart, MyBytes,
         TmpPath, PartPath
<1>2. ProcessOK(w)'
  BY <1>0 DEF TypeOK, DropResult, ProcessOK, JobKnown, SeenIsCurrent,
         GateKeepsOwner, HoldsWriteLock, OwnPart, OwnTemp, OwnFingerprint,
         MovedIsMine, MyPath, MyPart, MyBytes, Working, Without, MyPath,
         MyPart, MyBytes, TmpPath, PartPath
<1>3. /\ UNCHANGED <<clock, row>>
      /\ \A j \in Job : official'[j] \in {NULL, official[j]}
  BY <1>0 DEF TypeOK, DropResult, Without, MyPath, MyPart, MyBytes, TmpPath,
         PartPath
<1>4. \A v \in Worker \ {w} : SameLocals(v) /\ KeepsFiles(v)
  BY <1>0 DEF TypeOK, SameLocals, KeepsFiles, DropResult, Without, MyPath,
         MyPart, MyBytes, TmpPath, PartPath
<1>5. HoldsWriteLock(w)' => HoldsWriteLock(w) \/ WriteLockFree
  BY <1>0 DEF TypeOK, HoldsWriteLock, DropResult, Without, MyPath, MyPart,
         MyBytes, TmpPath, PartPath
<1> QED
  BY <1>1, <1>2, <1>3, <1>4, <1>5, PrivateStep

LEMMA GateRefusesKeeps ==
  ASSUME IInv, NEW w \in Worker, GateRefuses(w)
  PROVE  IInv'
<1> USE DEF Goto, procVars, fileVars
<1>0. TypeOK /\ ProcessOK(w)
  BY DEF IInv
<1>1. TypeOK'
  BY <1>0 DEF TypeOK, GateRefuses, PC, Without, MyPath, MyPart, MyBytes,
         TmpPath, PartPath
<1>2. ProcessOK(w)'
  BY <1>0 DEF TypeOK, GateRefuses, ProcessOK, JobKnown, SeenIsCurrent,
         GateKeepsOwner, HoldsWriteLock, OwnPart, OwnTemp, OwnFingerprint,
         MovedIsMine, MyPath, MyPart, MyBytes, Working, Without, MyPath,
         MyPart, MyBytes, TmpPath, PartPath
<1>3. /\ UNCHANGED <<clock, row>>
      /\ \A j \in Job : official'[j] \in {NULL, official[j]}
  BY <1>0 DEF TypeOK, GateRefuses, Without, MyPath, MyPart, MyBytes, TmpPath,
         PartPath
<1>4. \A v \in Worker \ {w} : SameLocals(v) /\ KeepsFiles(v)
  BY <1>0 DEF TypeOK, SameLocals, KeepsFiles, GateRefuses, Without, MyPath,
         MyPart, MyBytes, TmpPath, PartPath
<1>5. HoldsWriteLock(w)' => HoldsWriteLock(w) \/ WriteLockFree
  BY <1>0 DEF TypeOK, HoldsWriteLock, GateRefuses, Without, MyPath, MyPart,
         MyBytes, TmpPath, PartPath
<1> QED
  BY <1>1, <1>2, <1>3, <1>4, <1>5, PrivateStep

LEMMA SweepOfficialKeeps ==
  ASSUME IInv, NEW w \in Worker, SweepOfficial(w)
  PROVE  IInv'
<1> USE DEF Goto, procVars, fileVars
<1>0. TypeOK /\ ProcessOK(w)
  BY DEF IInv
<1>1. TypeOK'
  BY <1>0 DEF TypeOK, SweepOfficial, PC, Thread, Time, Working, ProcessOK,
         JobKnown, NextRenewal
<1>2. ProcessOK(w)'
  <2>1. JobKnown(w)'
    BY <1>0 DEF TypeOK, ProcessOK, SweepOfficial, JobKnown, Working,
           NextRenewal
  <2>2. (sampled[w] <= clock)'
    BY <1>0 DEF TypeOK, ProcessOK, SweepOfficial, Time, NextRenewal
  <2>3. (seen[w].attempts <= MaxAttempts)'
    BY <1>0 DEF TypeOK, ProcessOK, SweepOfficial, IInv, TableOK,
           AttemptsBounded, JobKnown, NoRow, NextRenewal
  <2>4. SeenIsCurrent(w)'
    BY <1>0 DEF TypeOK, ProcessOK, SweepOfficial, SeenIsCurrent, Working,
           NextRenewal
  <2>5. GateKeepsOwner(w)'
    BY <1>0 DEF TypeOK, ProcessOK, SweepOfficial, GateKeepsOwner,
           HoldsWriteLock, PublishGate, Holds, NextRenewal
  <2>6. OwnPart(w)' /\ OwnTemp(w)'
    BY <1>0 DEF TypeOK, ProcessOK, SweepOfficial, OwnPart, OwnTemp, MyPart,
           MyPath, MyBytes, NextRenewal
  <2>7. OwnFingerprint(w)'
    BY <1>0 DEF TypeOK, ProcessOK, SweepOfficial, OwnFingerprint, OwnTemp,
           MyBytes, MyPath, NextRenewal
  <2>8. MovedIsMine(w)'
    BY <1>0 DEF TypeOK, ProcessOK, SweepOfficial, MovedIsMine, NextRenewal
  <2> QED
    BY <2>1, <2>2, <2>3, <2>4, <2>5, <2>6, <2>7, <2>8 DEF ProcessOK
<1>3. /\ UNCHANGED <<clock, row>>
      /\ \A j \in Job : official'[j] \in {NULL, official[j]}
  BY <1>0 DEF TypeOK, SweepOfficial, NextRenewal
<1>4. \A v \in Worker \ {w} : SameLocals(v) /\ KeepsFiles(v)
  BY <1>0 DEF TypeOK, SameLocals, KeepsFiles, SweepOfficial, NextRenewal
<1>5. HoldsWriteLock(w)' => HoldsWriteLock(w) \/ WriteLockFree
  BY <1>0 DEF TypeOK, HoldsWriteLock, SweepOfficial, NextRenewal
<1> QED
  BY <1>1, <1>2, <1>3, <1>4, <1>5, PrivateStep

\* Steps that write temp files.
LEMMA StageKeeps ==
  ASSUME IInv, NEW w \in Worker, Stage(w)
  PROVE  IInv'
<1> USE DEF Goto, procVars, fileVars
<1>0. TypeOK /\ ProcessOK(w)
  BY DEF IInv
<1>1. TypeOK'
  BY <1>0, BytesType, PathTypes DEF TypeOK, Stage, PC, Working, ProcessOK,
         JobKnown, With, MyPath, MyPart, MyBytes, TmpPath, PartPath
<1>2. ProcessOK(w)'
  BY <1>0 DEF TypeOK, Stage, ProcessOK, JobKnown, SeenIsCurrent,
         GateKeepsOwner, HoldsWriteLock, OwnPart, OwnTemp, OwnFingerprint,
         MovedIsMine, MyPath, MyPart, MyBytes, Working, With, MyPath, MyPart,
         MyBytes, TmpPath, PartPath
<1>3. /\ UNCHANGED <<clock, row>>
      /\ \A j \in Job : official'[j] \in {NULL, official[j]}
  BY <1>0 DEF TypeOK, Stage, With, MyPath, MyPart, MyBytes, TmpPath, PartPath
<1>4. \A v \in Worker \ {w} : SameLocals(v) /\ KeepsFiles(v)
  BY <1>0 DEF TypeOK, SameLocals, KeepsFiles, Stage, With, MyPath, MyPart,
         MyBytes, TmpPath, PartPath
<1>5. HoldsWriteLock(w)' => HoldsWriteLock(w) \/ WriteLockFree
  BY <1>0 DEF TypeOK, HoldsWriteLock, Stage, With, MyPath, MyPart, MyBytes,
         TmpPath, PartPath
<1> QED
  BY <1>1, <1>2, <1>3, <1>4, <1>5, PrivateStep

LEMMA ConvertOkKeeps ==
  ASSUME IInv, NEW w \in Worker, ConvertOk(w)
  PROVE  IInv'
<1> USE DEF Goto, procVars, fileVars
<1>0. TypeOK /\ ProcessOK(w)
  BY DEF IInv
<1>1. TypeOK'
  BY <1>0, BytesType, PathTypes DEF TypeOK, ConvertOk, PC, Working, ProcessOK,
         JobKnown, With, MyPath, MyPart, MyBytes, TmpPath, PartPath
<1>2. ProcessOK(w)'
  BY <1>0 DEF TypeOK, ConvertOk, ProcessOK, JobKnown, SeenIsCurrent,
         GateKeepsOwner, HoldsWriteLock, OwnPart, OwnTemp, OwnFingerprint,
         MovedIsMine, MyPath, MyPart, MyBytes, Working, With, MyPath, MyPart,
         MyBytes, TmpPath, PartPath
<1>3. /\ UNCHANGED <<clock, row>>
      /\ \A j \in Job : official'[j] \in {NULL, official[j]}
  BY <1>0 DEF TypeOK, ConvertOk, With, MyPath, MyPart, MyBytes, TmpPath,
         PartPath
<1>4. \A v \in Worker \ {w} : SameLocals(v) /\ KeepsFiles(v)
  BY <1>0 DEF TypeOK, SameLocals, KeepsFiles, ConvertOk, With, MyPath, MyPart,
         MyBytes, TmpPath, PartPath
<1>5. HoldsWriteLock(w)' => HoldsWriteLock(w) \/ WriteLockFree
  BY <1>0 DEF TypeOK, HoldsWriteLock, ConvertOk, With, MyPath, MyPart, MyBytes,
         TmpPath, PartPath
<1> QED
  BY <1>1, <1>2, <1>3, <1>4, <1>5, PrivateStep

LEMMA UndoKeeps ==
  ASSUME IInv, NEW w \in Worker, Undo(w)
  PROVE  IInv'
<1> USE DEF Goto, procVars, fileVars
<1>0. TypeOK /\ ProcessOK(w)
  BY DEF IInv
<1>1. TypeOK'
  BY <1>0, BytesType, PathTypes DEF TypeOK, Undo, PC, Working, ProcessOK,
         JobKnown, With, MyPath, MyPart, MyBytes, TmpPath, PartPath
<1>2. ProcessOK(w)'
  BY <1>0 DEF TypeOK, Undo, ProcessOK, JobKnown, SeenIsCurrent, GateKeepsOwner,
         HoldsWriteLock, OwnPart, OwnTemp, OwnFingerprint, MovedIsMine, MyPath,
         MyPart, MyBytes, Working, With, MyPath, MyPart, MyBytes, TmpPath,
         PartPath
<1>3. /\ UNCHANGED <<clock, row>>
      /\ \A j \in Job : official'[j] \in {NULL, official[j]}
  BY <1>0 DEF TypeOK, Undo, With, MyPath, MyPart, MyBytes, TmpPath, PartPath
<1>4. \A v \in Worker \ {w} : SameLocals(v) /\ KeepsFiles(v)
  BY <1>0 DEF TypeOK, SameLocals, KeepsFiles, Undo, With, MyPath, MyPart,
         MyBytes, TmpPath, PartPath
<1>5. HoldsWriteLock(w)' => HoldsWriteLock(w) \/ WriteLockFree
  BY <1>0 DEF TypeOK, HoldsWriteLock, Undo, With, MyPath, MyPart, MyBytes,
         TmpPath, PartPath
<1> QED
  BY <1>1, <1>2, <1>3, <1>4, <1>5, PrivateStep

\* Steps of the renewer thread that change no row.
LEMMA RenewWakeKeeps ==
  ASSUME IInv, NEW w \in Worker, RenewWake(w)
  PROVE  IInv'
<1> USE DEF Goto, procVars, fileVars
<1>0. TypeOK /\ ProcessOK(w)
  BY DEF IInv
<1>1. TypeOK'
  BY <1>0 DEF TypeOK, RenewWake, Thread, Time, SetRenewer, NextRenewal
<1>2. ProcessOK(w)'
  BY <1>0 DEF TypeOK, RenewWake, ProcessOK, JobKnown, SeenIsCurrent,
         GateKeepsOwner, HoldsWriteLock, OwnPart, OwnTemp, OwnFingerprint,
         MovedIsMine, MyPath, MyPart, MyBytes, Working, SetRenewer, NextRenewal
<1>3. /\ UNCHANGED <<clock, row>>
      /\ \A j \in Job : official'[j] \in {NULL, official[j]}
  BY <1>0 DEF TypeOK, RenewWake, SetRenewer, NextRenewal
<1>4. \A v \in Worker \ {w} : SameLocals(v) /\ KeepsFiles(v)
  BY <1>0 DEF TypeOK, SameLocals, KeepsFiles, RenewWake, SetRenewer,
         NextRenewal
<1>5. HoldsWriteLock(w)' => HoldsWriteLock(w) \/ WriteLockFree
  BY <1>0 DEF TypeOK, HoldsWriteLock, RenewWake, SetRenewer, NextRenewal
<1> QED
  BY <1>1, <1>2, <1>3, <1>4, <1>5, PrivateStep

LEMMA RenewLostKeeps ==
  ASSUME IInv, NEW w \in Worker, RenewLost(w)
  PROVE  IInv'
<1> USE DEF Goto, procVars, fileVars
<1>0. TypeOK /\ ProcessOK(w)
  BY DEF IInv
<1>1. TypeOK'
  BY <1>0 DEF TypeOK, RenewLost, Thread, Time, SetRenewer, NextRenewal
<1>2. ProcessOK(w)'
  BY <1>0 DEF TypeOK, RenewLost, ProcessOK, JobKnown, SeenIsCurrent,
         GateKeepsOwner, HoldsWriteLock, OwnPart, OwnTemp, OwnFingerprint,
         MovedIsMine, MyPath, MyPart, MyBytes, Working, SetRenewer, NextRenewal
<1>3. /\ UNCHANGED <<clock, row>>
      /\ \A j \in Job : official'[j] \in {NULL, official[j]}
  BY <1>0 DEF TypeOK, RenewLost, SetRenewer, NextRenewal
<1>4. \A v \in Worker \ {w} : SameLocals(v) /\ KeepsFiles(v)
  BY <1>0 DEF TypeOK, SameLocals, KeepsFiles, RenewLost, SetRenewer,
         NextRenewal
<1>5. HoldsWriteLock(w)' => HoldsWriteLock(w) \/ WriteLockFree
  BY <1>0 DEF TypeOK, HoldsWriteLock, RenewLost, SetRenewer, NextRenewal
<1> QED
  BY <1>1, <1>2, <1>3, <1>4, <1>5, PrivateStep

LEMMA RenewRaisesKeeps ==
  ASSUME IInv, NEW w \in Worker, RenewRaises(w)
  PROVE  IInv'
<1> USE DEF Goto, procVars, fileVars
<1>0. TypeOK /\ ProcessOK(w)
  BY DEF IInv
<1>1. TypeOK'
  BY <1>0 DEF TypeOK, RenewRaises, Thread, Time, SetRenewer, NextRenewal
<1>2. ProcessOK(w)'
  BY <1>0 DEF TypeOK, RenewRaises, ProcessOK, JobKnown, SeenIsCurrent,
         GateKeepsOwner, HoldsWriteLock, OwnPart, OwnTemp, OwnFingerprint,
         MovedIsMine, MyPath, MyPart, MyBytes, Working, SetRenewer, NextRenewal
<1>3. /\ UNCHANGED <<clock, row>>
      /\ \A j \in Job : official'[j] \in {NULL, official[j]}
  BY <1>0 DEF TypeOK, RenewRaises, SetRenewer, NextRenewal
<1>4. \A v \in Worker \ {w} : SameLocals(v) /\ KeepsFiles(v)
  BY <1>0 DEF TypeOK, SameLocals, KeepsFiles, RenewRaises, SetRenewer,
         NextRenewal
<1>5. HoldsWriteLock(w)' => HoldsWriteLock(w) \/ WriteLockFree
  BY <1>0 DEF TypeOK, HoldsWriteLock, RenewRaises, SetRenewer, NextRenewal
<1> QED
  BY <1>1, <1>2, <1>3, <1>4, <1>5, PrivateStep

-----------------------------------------------------------------------------
(* Rows, one by one.                                                         *)

\* The conjuncts of TableOK that speak of one row alone.
RowOK(r) ==
  /\ r.status = "absent" => r = NoRow
  /\ r.status = "processing" <=> r.owner # NULL
  /\ r.status = "processing" <=> r.expires # NULL
  /\ r.status = "succeeded" <=> r.pdf # NULL
  /\ r.status = "failed" => r.error # NULL
  /\ r.status = "succeeded" => r.error = NULL
  /\ r.attempts <= MaxAttempts
  /\ r.status = "pending" => r.attempts < MaxAttempts
  /\ r.status = "succeeded" => r.pdf.attempt = r.attempts

LEMMA RowsAreOK ==
  ASSUME TableOK, NEW j \in Job
  PROVE  RowOK(row[j])
BY DEF TableOK, RowCoherent, AttemptsBounded, LatestAttemptLands, RowOK

\* A step after which every row is in order, that makes no job succeed and
\* leaves the official files alone.
LEMMA TableStep ==
  ASSUME TableOK, UNCHANGED official,
         \A j \in Job : RowOK(row[j])',
         \A j \in Job : row'[j].status = "succeeded" => row'[j] = row[j]
  PROVE  TableOK'
<1>1. RowCoherent' /\ AttemptsBounded' /\ LatestAttemptLands'
  BY DEF RowOK, RowCoherent, AttemptsBounded, LatestAttemptLands
<1>2. OfficialIsRegistered'
  BY DEF TableOK, OfficialIsRegistered
<1> QED
  BY <1>1, <1>2 DEF TableOK

LEMMA ReapedOK ==
  ASSUME NEW r \in Row, RowOK(r), r.status = "processing"
  PROVE  /\ RowOK(Reaped(r))
         /\ Reaped(r).status = "failed" /\ Reaped(r).owner = NULL
<1>1. Reaped(r).error # NULL
  BY DEF Reaped, Row, Error
<1>2. r.pdf = NULL /\ Reaped(r).pdf = NULL
  BY DEF RowOK, Reaped, Row
<1> QED
  BY <1>1, <1>2 DEF RowOK, Reaped, Row

LEMMA ClaimedOK ==
  ASSUME NEW r \in Row, RowOK(r), NEW w \in Worker, NEW now \in Nat,
         Eligible(r, now)
  PROVE  /\ RowOK(Claimed(r, w, now))
         /\ Claimed(r, w, now).status = "processing"
         /\ Claimed(r, w, now).owner = w
         /\ Claimed(r, w, now).attempts = r.attempts + 1
<1>1. r.attempts \in Nat /\ r.attempts < MaxAttempts /\ r.pdf = NULL
  BY RowFields DEF RowOK, Eligible, Expired
<1>2. LeaseUntil(now) \in Nat
  BY DEF LeaseUntil
<1>3. /\ Claimed(r, w, now).status = "processing"
      /\ Claimed(r, w, now).owner = w
      /\ Claimed(r, w, now).attempts = r.attempts + 1
      /\ Claimed(r, w, now).expires = LeaseUntil(now)
      /\ Claimed(r, w, now).pdf = NULL
  BY <1>1 DEF Claimed, Row
<1> QED
  BY <1>1, <1>2, <1>3 DEF RowOK

LEMMA FailureRecordedOK ==
  ASSUME NEW r \in Row, RowOK(r), r.status = "processing"
  PROVE  /\ RowOK(FailureRecorded(r, r.attempts))
         /\ FailureRecorded(r, r.attempts).status # "succeeded"
         /\ FailureRecorded(r, r.attempts).owner = NULL
<1> DEFINE s == FailureRecorded(r, r.attempts)
<1>1. /\ s.status = IF r.attempts >= MaxAttempts THEN "failed" ELSE "pending"
      /\ s.owner = NULL /\ s.expires = NULL /\ s.error = "render"
      /\ s.pdf = r.pdf /\ s.attempts = r.attempts
  BY DEF FailureRecorded, Row
<1>2. s.error # NULL /\ r.pdf = NULL /\ r.attempts \in Nat
  BY <1>1, RowFields DEF RowOK, Error
<1> QED
  BY <1>1, <1>2 DEF RowOK

\* The reap of a claim changes exhausted rows only, and no claimable one.
LEMMA AfterReapOK ==
  ASSUME IInv, NEW now \in Nat, NEW j \in Job
  PROVE  /\ AfterReap(now)[j] \in Row
         /\ RowOK(AfterReap(now)[j])
         /\ AfterReap(now)[j].status = "succeeded" => AfterReap(now)[j] = row[j]
         /\ AfterReap(now)[j].owner # NULL => AfterReap(now)[j] = row[j]
<1>1. row[j] \in Row /\ RowOK(row[j])
  BY RowsAreOK DEF IInv, TypeOK
<1>2. CASE Exhausted(row[j], now)
  <2>1. AfterReap(now)[j] = Reaped(row[j]) /\ row[j].status = "processing"
    BY <1>2 DEF AfterReap, Exhausted, Expired
  <2>2. Reaped(row[j]) \in Row
    BY <1>1, ReapedType
  <2> QED
    BY <1>1, <2>1, <2>2, ReapedOK
<1>3. CASE ~ Exhausted(row[j], now)
  BY <1>1, <1>3 DEF AfterReap
<1> QED
  BY <1>2, <1>3

-----------------------------------------------------------------------------
(* Steps that change the table or put a file at an official path.            *)

LEMMA LockFreeMeans ==
  ASSUME IInv, WriteLockFree
  PROVE  \A v \in Worker : ~ HoldsWriteLock(v)
BY DEF WriteLockFree

LEMMA SubmitKeeps ==
  ASSUME IInv, NEW j \in Job, Submit(j)
  PROVE  IInv'
<1> USE DEF procVars, fileVars
<1>. PICK now \in 0 .. clock : CreateJob(j, now)
  BY DEF Submit
<1> DEFINE new == [NoRow EXCEPT !.status = "pending", !.created = now]
<1>1. /\ row' = [row EXCEPT ![j] = new]
      /\ row[j].status = "absent"
      /\ row \in [Job -> Row] /\ clock \in Nat /\ now \in Nat
  BY DEF CreateJob, IInv, TypeOK, Time
<1>2. /\ new \in Row /\ new.owner = NULL /\ new.expires = NULL
      /\ new.pdf = NULL /\ new.attempts = 0 /\ new.status = "pending"
  BY <1>1 DEF NoRow, Row, Status
<1>3. TypeOK'
  BY <1>1, <1>2 DEF IInv, TypeOK, Submit
<1>4. TableOK'
  <2>1. RowOK(new)
    BY <1>2 DEF RowOK
  <2>2. TableOK /\ UNCHANGED official
    BY DEF IInv, Submit
  <2>3. \A k \in Job : row'[k] = IF k = j THEN new ELSE row[k]
    BY <1>1
  <2>4. \A k \in Job : RowOK(row'[k])
    BY <2>1, <2>2, <2>3, RowsAreOK
  <2>5. \A k \in Job : RowOK(row[k])'
    BY <2>4 DEF RowOK
  <2> QED
    BY <1>2, <2>2, <2>3, <2>5, TableStep
<1>5. \A v \in Worker : ProcessOK(v)'
  <2>1. SUFFICES ASSUME NEW v \in Worker PROVE ProcessOK(v)'
    OBVIOUS
  <2>2. SameLocals(v) /\ KeepsFiles(v)
    BY DEF Submit, SameLocals, KeepsFiles
  <2>3. GivesNoRow(v)
    BY <1>1, <1>2 DEF GivesNoRow
  <2>4. ~ HoldsWriteLock(v) /\ pc[v] # "moved"
    BY DEF Submit, WriteLockFree, HoldsWriteLock
  <2>5. clock <= clock' /\ clock' \in Nat
    BY <1>1 DEF Submit
  <2> QED
    BY <1>1, <2>2, <2>3, <2>4, <2>5, ProcessFrame
<1>6. OneWriter'
  BY DEF IInv, Submit, OneWriter, HoldsWriteLock
<1> QED
  BY <1>3, <1>4, <1>5, <1>6 DEF IInv

\* What the other processes see of such a step.
LEMMA OthersAtLock ==
  ASSUME IInv, NEW w \in Worker, WriteLockFree,
         \A v \in Worker \ {w} : SameLocals(v) /\ KeepsFiles(v),
         \A j \in Job : \/ row'[j].owner \in {w, NULL}
                        \/ /\ row'[j].owner = row[j].owner
                           /\ row'[j].attempts = row[j].attempts
  PROVE  \A v \in Worker \ {w} :
           /\ SameLocals(v) /\ KeepsFiles(v) /\ GivesNoRow(v)
           /\ ~ HoldsWriteLock(v)
<1>1. \A v \in Worker : ~ HoldsWriteLock(v)
  BY DEF WriteLockFree
<1>2. \A v \in Worker \ {w} : GivesNoRow(v)
  BY RepositoryAssumption DEF GivesNoRow
<1> QED
  BY <1>1, <1>2

LEMMA ClaimKeeps ==
  ASSUME IInv, NEW w \in Worker, Claim(w)
  PROVE  IInv'
<1> USE DEF Goto, procVars, fileVars
<1>0. TypeOK /\ TableOK /\ ProcessOK(w) /\ WriteLockFree /\ pc[w] = "claim"
  BY DEF IInv, Claim
<1>1. PICK j \in Job : /\ ClaimNextJob(j, w, sampled[w])
                       /\ job' = [job EXCEPT ![w] = j]
  BY DEF Claim
<1> DEFINE now == sampled[w]
           new == Claimed(row[j], w, now)
<1>2. now \in Nat /\ row[j] \in Row /\ RowOK(row[j]) /\ Eligible(row[j], now)
  BY <1>0, <1>1, RowsAreOK DEF TypeOK, Time, ClaimNextJob, Oldest
<1>3. row' = [AfterReap(now) EXCEPT ![j] = new]
  BY <1>1 DEF ClaimNextJob
<1>4. /\ new \in Row /\ RowOK(new)
      /\ new.owner = w /\ new.status = "processing"
  BY <1>2, ClaimedType, ClaimedOK
<1>5. \A k \in Job : row'[k] = IF k = j THEN new ELSE AfterReap(now)[k]
  BY <1>3 DEF AfterReap
<1>6. row' \in [Job -> Row]
  <2>1. row' = [k \in Job |-> row'[k]]
    BY <1>3 DEF AfterReap
  <2> QED
    BY <2>1, <1>2, <1>4, <1>5, AfterReapOK
<1>7. TypeOK'
  BY <1>0, <1>1, <1>6 DEF TypeOK, Claim, PC
<1>8. TableOK'
  <2>1. \A k \in Job : RowOK(row'[k])
    BY <1>2, <1>4, <1>5, AfterReapOK
  <2>2. \A k \in Job : RowOK(row[k])'
    BY <2>1 DEF RowOK
  <2>3. \A k \in Job : row'[k].status = "succeeded" => row'[k] = row[k]
    BY <1>2, <1>4, <1>5, AfterReapOK
  <2> QED
    BY <1>0, <2>2, <2>3, TableStep DEF Claim
<1>9. ProcessOK(w)'
  <2>1. pc'[w] = "claimed" /\ job'[w] = j
    BY <1>0, <1>1 DEF TypeOK, Claim
  <2>2. (sampled[w] <= clock)' /\ (seen[w].attempts <= MaxAttempts)'
    BY <1>0 DEF ProcessOK, Claim
  <2> QED
    BY <2>1, <2>2 DEF ProcessOK, JobKnown, SeenIsCurrent, GateKeepsOwner,
       HoldsWriteLock, OwnPart, OwnTemp, OwnFingerprint, MovedIsMine, Working
<1>10. \A v \in Worker \ {w} : SameLocals(v) /\ KeepsFiles(v)
  BY <1>0, <1>1 DEF TypeOK, Claim, SameLocals, KeepsFiles
<1>11. \A k \in Job : \/ row'[k].owner \in {w, NULL}
                      \/ /\ row'[k].owner = row[k].owner
                         /\ row'[k].attempts = row[k].attempts
  BY <1>2, <1>4, <1>5, AfterReapOK
<1>12. UNCHANGED clock
  BY DEF Claim
<1> QED
  BY <1>0, <1>7, <1>8, <1>9, <1>10, <1>11, <1>12, OthersAtLock, LockedStep

LEMMA ClaimNoneKeeps ==
  ASSUME IInv, NEW w \in Worker, ClaimNone(w)
  PROVE  IInv'
<1> USE DEF Goto, procVars, fileVars
<1>0. TypeOK /\ TableOK /\ ProcessOK(w) /\ WriteLockFree /\ pc[w] = "claim"
  BY DEF IInv, ClaimNone
<1> DEFINE now == sampled[w]
<1>1. now \in Nat /\ row' = AfterReap(now)
  BY <1>0 DEF TypeOK, Time, ClaimNone, ClaimNothing
<1>2. row' \in [Job -> Row]
  <2>1. row' = [k \in Job |-> AfterReap(now)[k]]
    BY <1>1 DEF AfterReap
  <2> QED
    BY <2>1, <1>1, AfterReapOK
<1>3. TypeOK'
  BY <1>0, <1>2 DEF TypeOK, Time, ClaimNone, PC
<1>4. TableOK'
  <2>1. \A k \in Job : RowOK(row'[k])
    BY <1>1, AfterReapOK
  <2>2. \A k \in Job : RowOK(row[k])'
    BY <2>1 DEF RowOK
  <2>3. \A k \in Job : row'[k].status = "succeeded" => row'[k] = row[k]
    BY <1>1, AfterReapOK
  <2> QED
    BY <1>0, <2>2, <2>3, TableStep DEF ClaimNone
<1>5. ProcessOK(w)'
  <2>1. pc'[w] = "rest" /\ sampled'[w] = 0
    BY <1>0 DEF TypeOK, ClaimNone
  <2>2. (sampled[w] <= clock)' /\ (seen[w].attempts <= MaxAttempts)'
    BY <1>0, <2>1 DEF ProcessOK, ClaimNone, TypeOK, Time
  <2>3. JobKnown(w)'
    BY <1>0, <2>1 DEF ProcessOK, ClaimNone, JobKnown, Working
  <2> QED
    BY <2>1, <2>2, <2>3 DEF ProcessOK, SeenIsCurrent, GateKeepsOwner,
       HoldsWriteLock, OwnPart, OwnTemp, OwnFingerprint, MovedIsMine, Working
<1>6. \A v \in Worker \ {w} : SameLocals(v) /\ KeepsFiles(v)
  BY <1>0 DEF TypeOK, ClaimNone, SameLocals, KeepsFiles
<1>7. \A k \in Job : \/ row'[k].owner \in {w, NULL}
                     \/ /\ row'[k].owner = row[k].owner
                        /\ row'[k].attempts = row[k].attempts
  BY <1>1, AfterReapOK
<1>8. UNCHANGED clock
  BY DEF ClaimNone
<1> QED
  BY <1>0, <1>3, <1>4, <1>5, <1>6, <1>7, <1>8, OthersAtLock, LockedStep

\* While w owns a row, the failure is recorded with the attempts of the column.
LEMMA RecordKeeps ==
  ASSUME IInv, NEW w \in Worker, Record(w)
  PROVE  IInv'
<1> USE DEF Goto, procVars, fileVars
<1>0. TypeOK /\ TableOK /\ ProcessOK(w) /\ WriteLockFree /\ pc[w] = "record"
  BY DEF IInv, Record
<1> DEFINE j == job[w]
           now == sampled[w]
           new == FailureRecorded(row[j], row[j].attempts)
<1>1. j \in Job /\ row[j] \in Row /\ RowOK(row[j]) /\ row[j].attempts \in Nat
  BY <1>0, RowsAreOK, RowFields DEF TypeOK, ProcessOK, JobKnown, Working
<1>2. \/ row' = row
      \/ /\ row' = [row EXCEPT ![j] = new]
         /\ row[j].status = "processing"
  <2>1. CASE Holds(row[j], w, now)
    <3>1. seen[w].attempts = row[j].attempts
      BY <1>0, <2>1 DEF ProcessOK, SeenIsCurrent, Working, Holds
    <3> QED
      BY <2>1, <3>1 DEF Record, RecordFailure, Holds
  <2>2. CASE ~ Holds(row[j], w, now)
    BY <2>2 DEF Record, RecordFailure
  <2> QED
    BY <2>1, <2>2
<1>3. row[j].status = "processing" =>
        new \in Row /\ RowOK(new) /\ new.status # "succeeded" /\ new.owner = NULL
  BY <1>1, FailureRecordedType, FailureRecordedOK
<1>4. TypeOK'
  <2>1. row' \in [Job -> Row]
    BY <1>0, <1>2, <1>3 DEF TypeOK
  <2> QED
    BY <1>0, <2>1 DEF TypeOK, Record, PC, Without
<1>5. \A k \in Job : row'[k] = row[k] \/ (k = j /\ row'[k] = new
                                          /\ row[j].status = "processing")
  BY <1>0, <1>2 DEF TypeOK
<1>6. TableOK'
  <2>1. \A k \in Job : RowOK(row'[k])
    BY <1>0, <1>3, <1>5, RowsAreOK
  <2>2. \A k \in Job : RowOK(row[k])'
    BY <2>1 DEF RowOK
  <2>3. \A k \in Job : row'[k].status = "succeeded" => row'[k] = row[k]
    BY <1>3, <1>5
  <2> QED
    BY <1>0, <2>2, <2>3, TableStep DEF Record
<1>7. ProcessOK(w)'
  <2>1. pc'[w] = "unwind" /\ job'[w] = j
    BY <1>0 DEF TypeOK, Record
  <2>2. (sampled[w] <= clock)' /\ (seen[w].attempts <= MaxAttempts)'
    BY <1>0 DEF ProcessOK, Record
  <2> QED
    BY <1>1, <2>1, <2>2 DEF ProcessOK, JobKnown, SeenIsCurrent,
       GateKeepsOwner, HoldsWriteLock, OwnPart, OwnTemp, OwnFingerprint,
       MovedIsMine, Working
<1>8. \A v \in Worker \ {w} : SameLocals(v) /\ KeepsFiles(v)
  BY <1>0 DEF TypeOK, Record, SameLocals, KeepsFiles, Without
<1>9. \A k \in Job : \/ row'[k].owner \in {w, NULL}
                     \/ /\ row'[k].owner = row[k].owner
                        /\ row'[k].attempts = row[k].attempts
  BY <1>3, <1>5
<1>10. UNCHANGED clock
  BY DEF Record
<1> QED
  BY <1>0, <1>4, <1>6, <1>7, <1>8, <1>9, <1>10, OthersAtLock, LockedStep

\* A renewal of a row that w owns, by its renewer or by an abandoned call.
LEMMA RenewalOK ==
  ASSUME IInv, NEW w \in Worker, NEW j \in Job, NEW now \in Nat,
         RenewLease(j, w, now), UNCHANGED official
  PROVE  /\ row' \in [Job -> Row]
         /\ TableOK'
         /\ \A k \in Job : row'[k].owner = row[k].owner
                           /\ row'[k].attempts = row[k].attempts
<1> DEFINE new == [row[j] EXCEPT !.expires = LeaseUntil(now)]
<1>0. TypeOK /\ TableOK
  BY DEF IInv
<1>1. /\ row' = [row EXCEPT ![j] = new]
      /\ row[j] \in Row /\ RowOK(row[j]) /\ row[j].status = "processing"
  BY <1>0, RowsAreOK DEF TypeOK, RenewLease, Holds
<1>2. LeaseUntil(now) \in Nat
  BY DEF LeaseUntil
<1>3. /\ new \in Row /\ new.status = "processing"
      /\ new.owner = row[j].owner /\ new.attempts = row[j].attempts
  BY <1>1, <1>2 DEF Row
<1>4. RowOK(new)
  BY <1>1, <1>2 DEF RowOK, Row
<1>5. \A k \in Job : row'[k] = IF k = j THEN new ELSE row[k]
  BY <1>0, <1>1 DEF TypeOK
<1>6. TableOK'
  <2>1. \A k \in Job : RowOK(row'[k])
    BY <1>0, <1>4, <1>5, RowsAreOK
  <2>2. \A k \in Job : RowOK(row[k])'
    BY <2>1 DEF RowOK
  <2>3. \A k \in Job : row'[k].status = "succeeded" => row'[k] = row[k]
    BY <1>3, <1>5
  <2> QED
    BY <1>0, <2>2, <2>3, TableStep
<1> QED
  BY <1>0, <1>1, <1>3, <1>5, <1>6 DEF TypeOK

LEMMA RenewHeldKeeps ==
  ASSUME IInv, NEW w \in Worker, RenewHeld(w)
  PROVE  IInv'
<1> USE DEF procVars, fileVars
<1>0. /\ TypeOK /\ ProcessOK(w) /\ WriteLockFree
      /\ renewer[w].state = "call" /\ renewer[w].at \in Nat /\ job[w] \in Job
  BY DEF IInv, TypeOK, Thread, RenewHeld, ProcessOK, JobKnown
<1>1. /\ row' \in [Job -> Row]
      /\ TableOK'
      /\ \A k \in Job : row'[k].owner = row[k].owner
                        /\ row'[k].attempts = row[k].attempts
  BY <1>0, RenewalOK DEF RenewHeld
<1>2. TypeOK'
  BY <1>0, <1>1 DEF TypeOK, Time, Thread, RenewHeld, SetRenewer, NextRenewal
<1>3. ProcessOK(w)'
  BY <1>0, <1>1 DEF TypeOK, RenewHeld, SetRenewer, ProcessOK, JobKnown,
     SeenIsCurrent, GateKeepsOwner, HoldsWriteLock, OwnPart, OwnTemp,
     OwnFingerprint, MovedIsMine, MyPath, MyPart, MyBytes, Working
<1>4. \A v \in Worker \ {w} : SameLocals(v) /\ KeepsFiles(v)
  BY <1>0 DEF TypeOK, RenewHeld, SetRenewer, SameLocals, KeepsFiles
<1>5. UNCHANGED clock
  BY DEF RenewHeld
<1> QED
  BY <1>0, <1>1, <1>2, <1>3, <1>4, <1>5, OthersAtLock, LockedStep

LEMMA LateRenewKeeps ==
  ASSUME IInv, NEW w \in Worker, LateRenew(w)
  PROVE  IInv'
<1> USE DEF procVars, fileVars
<1>0. TypeOK /\ TableOK /\ ProcessOK(w) /\ WriteLockFree
  BY DEF IInv, LateRenew
<1>1. PICK call \in late :
        /\ \/ RenewLease(call.job, w, call.at)
           \/ UNCHANGED row
        /\ late' = late \ {call}
  BY DEF LateRenew
<1>2. call.job \in Job /\ call.at \in Nat
  BY <1>0, <1>1 DEF TypeOK
<1>3. /\ row' \in [Job -> Row]
      /\ TableOK'
      /\ \A k \in Job : row'[k].owner = row[k].owner
                        /\ row'[k].attempts = row[k].attempts
  <2>1. CASE RenewLease(call.job, w, call.at)
    BY <1>2, <2>1, RenewalOK DEF LateRenew
  <2>2. CASE UNCHANGED row
    <3>1. \A j \in Job : official'[j] \in {NULL, official[j]}
      BY DEF LateRenew
    <3> QED
      BY <1>0, <2>2, <3>1, TableFrame DEF TypeOK
  <2> QED
    BY <1>1, <2>1, <2>2
<1>4. TypeOK'
  BY <1>0, <1>1, <1>3 DEF TypeOK, LateRenew
<1>5. ProcessOK(w)'
  BY <1>0, <1>3 DEF LateRenew, ProcessOK, JobKnown, SeenIsCurrent,
     GateKeepsOwner, HoldsWriteLock, OwnPart, OwnTemp, OwnFingerprint,
     MovedIsMine, MyPath, MyPart, MyBytes, Working
<1>6. \A v \in Worker \ {w} : SameLocals(v) /\ KeepsFiles(v)
  BY DEF LateRenew, SameLocals, KeepsFiles
<1>7. UNCHANGED clock
  BY DEF LateRenew
<1> QED
  BY <1>0, <1>3, <1>4, <1>5, <1>6, <1>7, OthersAtLock, LockedStep

\* The holder of the write lock is alone: the others have nothing at stake.
LEMMA OthersOfHolder ==
  ASSUME IInv, NEW w \in Worker, HoldsWriteLock(w),
         \A v \in Worker \ {w} : SameLocals(v) /\ KeepsFiles(v),
         \A j \in Job : \/ row'[j].owner \in {w, NULL}
                        \/ /\ row'[j].owner = row[j].owner
                           /\ row'[j].attempts = row[j].attempts
  PROVE  \A v \in Worker \ {w} :
           /\ SameLocals(v) /\ KeepsFiles(v) /\ GivesNoRow(v)
           /\ ~ HoldsWriteLock(v)
<1>1. \A v \in Worker \ {w} : ~ HoldsWriteLock(v)
  BY DEF IInv, OneWriter
<1>2. \A v \in Worker \ {w} : GivesNoRow(v)
  BY RepositoryAssumption DEF GivesNoRow
<1> QED
  BY <1>1, <1>2

LEMMA MoveKeeps ==
  ASSUME IInv, NEW w \in Worker, Move(w)
  PROVE  IInv'
<1> USE DEF Goto, procVars, fileVars
<1>0. /\ TypeOK /\ TableOK /\ ProcessOK(w)
      /\ pc[w] = "gated" /\ HoldsWriteLock(w) /\ job[w] \in Job
  BY DEF IInv, Move, HoldsWriteLock, ProcessOK, JobKnown, Working
<1>1. tmp[MyPath(w)] = MyBytes(w) /\ fp[w] = MyBytes(w)
  BY <1>0 DEF Move, ProcessOK, OwnTemp, OwnFingerprint
<1>2. official' = [official EXCEPT ![job[w]] = MyBytes(w)]
  BY <1>1 DEF Move
<1>3. row[job[w]].status # "succeeded" /\ UNCHANGED row
  <2>1. row[job[w]].owner = w
    BY <1>0 DEF ProcessOK, GateKeepsOwner
  <2> QED
    BY <1>0, <2>1, RowsAreOK, RepositoryAssumption DEF RowOK, Move
<1>4. TypeOK'
  <2>1. MyBytes(w) \in Bytes
    BY <1>0, BytesType DEF TypeOK
  <2> QED
    BY <1>0, <1>2, <2>1 DEF TypeOK, Move, PC, Without
<1>5. TableOK'
  <2>1. RowCoherent' /\ AttemptsBounded' /\ LatestAttemptLands'
    BY <1>0, <1>3 DEF TableOK, RowCoherent, AttemptsBounded, LatestAttemptLands
  <2>2. OfficialIsRegistered'
    BY <1>0, <1>2, <1>3 DEF TypeOK, TableOK, OfficialIsRegistered
  <2> QED
    BY <2>1, <2>2 DEF TableOK
<1>6. ProcessOK(w)'
  <2>1. pc'[w] = "moved" /\ official'[job[w]] = fp[w]
    BY <1>0, <1>1, <1>2 DEF TypeOK, Move
  <2> QED
    BY <1>0, <1>1, <1>3, <2>1 DEF Move, ProcessOK, JobKnown, SeenIsCurrent,
       GateKeepsOwner, HoldsWriteLock, OwnPart, OwnTemp, OwnFingerprint,
       MovedIsMine, MyBytes, Working
<1>7. \A v \in Worker \ {w} : SameLocals(v) /\ KeepsFiles(v)
  BY <1>0 DEF TypeOK, Move, SameLocals, KeepsFiles, Without
<1> QED
  BY <1>0, <1>3, <1>4, <1>5, <1>6, <1>7, OthersOfHolder, LockedStep DEF Move

LEMMA CommitKeeps ==
  ASSUME IInv, NEW w \in Worker, Commit(w)
  PROVE  IInv'
<1> USE DEF Goto, procVars, fileVars
<1> DEFINE j == job[w]
           new == Published(row[j], fp[w])
<1>0. /\ TypeOK /\ TableOK /\ ProcessOK(w)
      /\ pc[w] = "moved" /\ HoldsWriteLock(w) /\ j \in Job
  BY DEF IInv, Commit, HoldsWriteLock, ProcessOK, JobKnown, Working
<1>1. /\ row' = [row EXCEPT ![j] = new]
      /\ UNCHANGED <<clock, official>>
  BY DEF Commit, PublishSuccess
<1>2. fp[w] \in Bytes /\ fp[w].attempt = seen[w].attempts
  <2>1. fp[w] = MyBytes(w) /\ MyBytes(w) \in Bytes
    BY <1>0, BytesType DEF ProcessOK, OwnFingerprint, TypeOK
  <2> QED
    BY <2>1 DEF MyBytes
<1>3. /\ row[j] \in Row /\ RowOK(row[j]) /\ row[j].owner = w
      /\ seen[w].attempts = row[j].attempts
  BY <1>0, RowsAreOK DEF TypeOK, ProcessOK, GateKeepsOwner, SeenIsCurrent,
     Working
<1>4. /\ new \in Row /\ new.status = "succeeded" /\ new.owner = NULL
      /\ new.expires = NULL /\ new.error = NULL /\ new.pdf = fp[w]
      /\ new.attempts = row[j].attempts
  <2>1. new \in Row
    BY <1>2, <1>3, PublishedType
  <2> QED
    BY <1>3, <2>1 DEF Published, Row
<1>5. \A k \in Job : row'[k] = IF k = j THEN new ELSE row[k]
  BY <1>0, <1>1 DEF TypeOK
<1>6. TypeOK'
  BY <1>0, <1>1, <1>4 DEF TypeOK, Commit, PC
<1>7. TableOK'
  <2>1. RowOK(new)
    <3>1. new.pdf # NULL
      BY <1>2, <1>4, NullAssumption
    <3> QED
      BY <1>2, <1>3, <1>4, <3>1 DEF RowOK
  <2>2. \A k \in Job : RowOK(row'[k])
    BY <1>0, <1>5, <2>1, RowsAreOK
  <2>3. RowCoherent' /\ AttemptsBounded' /\ LatestAttemptLands'
    BY <2>2 DEF RowOK, RowCoherent, AttemptsBounded, LatestAttemptLands
  <2>4. OfficialIsRegistered'
    <3>1. official[j] \in {NULL, fp[w]}
      BY <1>0 DEF ProcessOK, MovedIsMine
    <3> QED
      BY <1>0, <1>1, <1>4, <1>5, <3>1 DEF TableOK, OfficialIsRegistered
  <2> QED
    BY <2>3, <2>4 DEF TableOK
<1>8. ProcessOK(w)'
  <2>1. pc'[w] = "unwind" /\ job'[w] = j
    BY <1>0 DEF TypeOK, Commit
  <2>2. (sampled[w] <= clock)' /\ (seen[w].attempts <= MaxAttempts)'
    BY <1>0 DEF ProcessOK, Commit
  <2> QED
    BY <1>0, <2>1, <2>2 DEF ProcessOK, JobKnown, SeenIsCurrent,
       GateKeepsOwner, HoldsWriteLock, OwnPart, OwnTemp, OwnFingerprint,
       MovedIsMine, Working
<1>9. \A v \in Worker \ {w} : SameLocals(v) /\ KeepsFiles(v)
  BY <1>0 DEF TypeOK, Commit, SameLocals, KeepsFiles
<1>10. \A k \in Job : \/ row'[k].owner \in {w, NULL}
                      \/ /\ row'[k].owner = row[k].owner
                         /\ row'[k].attempts = row[k].attempts
  BY <1>4, <1>5
<1> QED
  BY <1>0, <1>1, <1>6, <1>7, <1>8, <1>9, <1>10, OthersOfHolder, LockedStep

-----------------------------------------------------------------------------
(* Time. *)

LEMMA TickKeeps ==
  ASSUME IInv, Tick
  PROVE  IInv'
<1> USE DEF procVars, fileVars
<1>1. TypeOK'
  BY WorkerAssumption DEF IInv, TypeOK, Time, Tick
<1>2. TableOK'
  BY TableFrame DEF Tick
<1>3. \A v \in Worker : ProcessOK(v)'
  <2>1. SUFFICES ASSUME NEW v \in Worker PROVE ProcessOK(v)'
    OBVIOUS
  <2>2. clock \in Nat /\ clock' \in Nat /\ clock <= clock'
    BY DEF IInv, TypeOK, Time, Tick
  <2>3. SameLocals(v) /\ KeepsFiles(v) /\ GivesNoRow(v)
    BY DEF Tick, SameLocals, KeepsFiles, GivesNoRow
  <2>4. UNCHANGED <<row, official>>
    BY DEF Tick
  <2> QED
    BY <2>2, <2>3, <2>4, ProcessFrame
<1>4. OneWriter'
  BY DEF IInv, OneWriter, HoldsWriteLock, Tick
<1> QED
  BY <1>1, <1>2, <1>3, <1>4 DEF IInv

-----------------------------------------------------------------------------
(* The invariant, and what follows from it.                                  *)

\* Rows, processes and files agree, as IInv says, at the start ...
THEOREM InitHolds == Init => IInv
<1> SUFFICES ASSUME Init PROVE IInv
  OBVIOUS
<1>1. TypeOK
  BY NoRowType DEF Init, RowInit, TypeOK, Time, Thread, NoThread, PC
<1>2. RowCoherent /\ AttemptsBounded /\ LatestAttemptLands
      /\ OfficialIsRegistered
  BY DEF Init, RowInit, NoRow, RowCoherent, AttemptsBounded,
         LatestAttemptLands, OfficialIsRegistered
<1>3. \A w \in Worker : ProcessOK(w)
  BY DEF Init, RowInit, NoRow, NoThread, Working, ProcessOK, JobKnown,
         SeenIsCurrent, GateKeepsOwner, HoldsWriteLock, OwnPart, OwnTemp,
         OwnFingerprint, MovedIsMine
<1>4. OneWriter
  BY DEF Init, OneWriter, HoldsWriteLock
<1> QED
  BY <1>1, <1>2, <1>3, <1>4 DEF IInv, TableOK

\* ... and after every step of every process, renewer thread and fault, from
\* any state in which they agree: IInv is inductive.
THEOREM StepKeepsIInv == IInv /\ [Next]_vars => IInv'
<1> SUFFICES ASSUME IInv, [Next]_vars PROVE IInv'
  OBVIOUS
<1>1. ASSUME NEW j \in Job, Submit(j) PROVE IInv'
  BY <1>1, SubmitKeeps
<1>2. ASSUME NEW w \in Worker, MainStep(w) PROVE IInv'
  <2>1. CASE Start(w) \/ Rest(w) \/ Stop(w) \/ ConvertFail(w) \/ StageLost(w)
             \/ KeepResult(w) \/ FingerprintFails(w) \/ MoveFails(w)
             \/ CommitFails(w) \/ Raise(w)
    BY <2>1, JumpKeeps
  <2>2. CASE Poll(w)
    BY <2>2, PollKeeps
  <2>3. CASE Claim(w)
    BY <2>3, ClaimKeeps
  <2>4. CASE ClaimNone(w)
    BY <2>4, ClaimNoneKeeps
  <2>5. CASE SweepOrphan(w)
    BY <2>5, SweepOrphanKeeps
  <2>6. CASE LoadJob(w)
    BY <2>6, LoadJobKeeps
  <2>7. CASE SweepTmp(w)
    BY <2>7, SweepTmpKeeps
  <2>8. CASE SweepOfficial(w)
    BY <2>8, SweepOfficialKeeps
  <2>9. CASE Stage(w)
    BY <2>9, StageKeeps
  <2>10. CASE ConvertOk(w)
    BY <2>10, ConvertOkKeeps
  <2>11. CASE DropFailure(w)
    BY <2>11, DropFailureKeeps
  <2>12. CASE AcceptFailure(w)
    BY <2>12, AcceptFailureKeeps
  <2>13. CASE Record(w)
    BY <2>13, RecordKeeps
  <2>14. CASE DropResult(w)
    BY <2>14, DropResultKeeps
  <2>15. CASE Fingerprint(w)
    BY <2>15, FingerprintKeeps
  <2>16. CASE GateRefuses(w)
    BY <2>16, GateRefusesKeeps
  <2>17. CASE GateHolds(w)
    BY <2>17, GateHoldsKeeps
  <2>18. CASE Move(w)
    BY <2>18, MoveKeeps
  <2>19. CASE Commit(w)
    BY <2>19, CommitKeeps
  <2>20. CASE Undo(w)
    BY <2>20, UndoKeeps
  <2>21. CASE Unwind(w)
    BY <2>21, UnwindKeeps
  <2>22. CASE Crash(w)
    BY <2>22, CrashKeeps
  <2> QED
    BY <1>2, <2>1, <2>2, <2>3, <2>4, <2>5, <2>6, <2>7, <2>8, <2>9, <2>10,
       <2>11, <2>12, <2>13, <2>14, <2>15, <2>16, <2>17, <2>18, <2>19, <2>20,
       <2>21, <2>22 DEF MainStep
<1>3. ASSUME NEW w \in Worker, RenewerStep(w) PROVE IInv'
  BY <1>3, RenewWakeKeeps, RenewHeldKeeps, RenewLostKeeps, RenewRaisesKeeps,
     LateRenewKeeps DEF RenewerStep
<1>4. CASE Tick
  BY <1>4, TickKeeps
<1>5. CASE UNCHANGED vars
  <2> USE <1>5 DEF vars, procVars, fileVars
  <2>1. TypeOK'
    BY DEF IInv, TypeOK
  <2>2. TableOK'
    <3>1. \A j \in Job : official'[j] \in {NULL, official[j]}
      OBVIOUS
    <3> QED
      BY <3>1, TableFrame
  <2>3. \A w \in Worker : ProcessOK(w)'
    BY DEF IInv, ProcessOK, JobKnown, SeenIsCurrent, GateKeepsOwner,
       HoldsWriteLock, OwnPart, OwnTemp, OwnFingerprint, MovedIsMine, MyPath,
       MyPart, MyBytes
  <2>4. OneWriter'
    BY DEF IInv, OneWriter, HoldsWriteLock
  <2> QED
    BY <2>1, <2>2, <2>3, <2>4 DEF IInv
<1> QED
  BY <1>1, <1>2, <1>3, <1>4, <1>5 DEF Next

\* In every behaviour, with any number of jobs, processes and attempts, any
\* lease and any faults, rows, processes and files agree.
THEOREM InvariantHolds == Spec => []IInv
BY InitHolds, StepKeepsIInv, PTL DEF Spec

\* Every variable always has a value of its kind.
THEOREM TypeCorrect == Spec => []TypeOK
<1>1. IInv => TypeOK
  BY DEF IInv
<1> QED
  BY <1>1, InvariantHolds, PTL

\* The columns of a row always agree with its status: no update of the
\* repository leaves a lease, a result or an error behind.
THEOREM RowsCoherent == Spec => []RowCoherent
<1>1. IInv => RowCoherent
  BY DEF IInv, TableOK
<1> QED
  BY <1>1, InvariantHolds, PTL

\* No job is attempted more than max_attempts times, although a claim takes a
\* pending row without looking at its attempts.
THEOREM AttemptsAreBounded == Spec => []AttemptsBounded
<1>1. IInv => AttemptsBounded
  BY DEF IInv, TableOK
<1> QED
  BY <1>1, InvariantHolds, PTL

\* The published result is always that of the attempt started last: the fence
\* of the publish gate stops every late result.
THEOREM LateResultsNeverLand == Spec => []LatestAttemptLands
<1>1. IInv => LatestAttemptLands
  BY DEF IInv, TableOK
<1> QED
  BY <1>1, InvariantHolds, PTL

\* At the official path of a succeeded job there are either the bytes that the
\* row has the fingerprint of, or none.
THEOREM OfficialMatchesFingerprint == Spec => []OfficialIsRegistered
<1>1. IInv => OfficialIsRegistered
  BY DEF IInv, TableOK
<1> QED
  BY <1>1, InvariantHolds, PTL

=============================================================================
