---------------------------- MODULE ProgressProofs ----------------------------
(***************************************************************************)
(* The safety of the worker processes in the long run: the inductive       *)
(* invariant of module Worker survives the passage of time without a       *)
(* bound, processes that are started again, and jobs that come and go.     *)
(***************************************************************************)
EXTENDS ProgressProperties, TimelyProofs, FiniteSetTheorems

USE RepositoryAssumption, NullAssumption, WorkerAssumption, ProgressAssumption

\* The processes of the past do nothing.
GhostRests == pc[Ghost] = "dead"

-----------------------------------------------------------------------------
(* Time that moves into the past.                                            *)

LEMMA EarlierType ==
  ASSUME NEW t \in Nat, NEW floor \in Nat
  PROVE  Earlier(t, floor) \in Nat /\ (floor <= t => Earlier(t, floor) <= t)
BY DEF Earlier

\* A rank is a number, and nothing ranks below what was created at 0.
LEMMA RankType ==
  ASSUME row \in [Job -> Row], NEW j \in Job
  PROVE  Rank(j) \in Nat /\ (row[j].created = 0 => Rank(j) = 0)
<1> DEFINE before == {i \in Job : row[i].status # "absent"
                                  /\ row[i].created < row[j].created}
           times == {row[k].created : k \in before}
<1>1. IsFiniteSet(before)
  BY FS_Subset
<1>2. IsFiniteSet(times)
  <2> DEFINE f == [k \in before |-> row[k].created]
  <2>1. f \in Surjection(before, times)
    BY DEF Surjection
  <2> QED
    BY <1>1, <2>1, FS_Surjection
<1>3. row[j].created = 0 => times = {}
  <2>1. \A k \in Job : row[k].created \in Nat
    BY DEF Row
  <2> QED
    BY <2>1
<1> QED
  BY <1>2, <1>3, FS_CardinalityType, FS_EmptySet DEF Rank

LEMMA AgedType ==
  ASSUME NEW r \in Row, NEW n \in Nat
  PROVE  Aged(r, n) \in Row
<1>1. r.expires # NULL => Earlier(r.expires, 0) \in Nat
  BY EarlierType DEF Row
<1> QED
  BY <1>1 DEF Aged, Row

\* Ageing leaves the columns that the invariants speak of, and the lease where
\* there is one.
LEMMA AgedFields ==
  ASSUME NEW r \in Row, NEW n \in Nat
  PROVE  LET q == Aged(r, n) IN
         /\ q.status = r.status /\ q.attempts = r.attempts
         /\ q.owner = r.owner /\ q.pdf = r.pdf /\ q.error = r.error
         /\ q.created = n
         /\ q.expires = NULL <=> r.expires = NULL
<1>1. r.expires # NULL => Earlier(r.expires, 0) \in Nat
  BY EarlierType DEF Row
<1> QED
  BY <1>1 DEF Aged, Row

LEMMA AgeKeepsTypes ==
  ASSUME IInv, Age
  PROVE  TypeOK'
<1> USE DEF fileVars
<1>0. TypeOK
  BY DEF IInv
<1>1. row' \in [Job -> Row]
  BY <1>0, RankType, AgedType DEF TypeOK, Age
<1>2. seen' \in [Worker -> Row]
  BY <1>0, AgedType DEF TypeOK, Age
<1>3. sampled' \in [Worker -> Time]
  <2>1. \A w \in Worker : sampled[w] \in Nat /\ sampled[w] <= MaxClock
    BY <1>0 DEF TypeOK, Time
  <2>2. \A w \in Worker : Earlier(sampled[w], 0) \in Time
    BY <2>1 DEF Earlier, Time
  <2> QED
    BY <2>2 DEF Age
<1>4. renewer' \in [Worker -> Thread]
  <2>1. ASSUME NEW w \in Worker
        PROVE  [renewer[w] EXCEPT !.at = Earlier(@, 1)] \in Thread
    <3>1. renewer[w] \in Thread
      BY <1>0 DEF TypeOK
    <3>2. Earlier(renewer[w].at, 1) \in Nat
      BY <3>1, EarlierType DEF Thread
    <3> QED
      BY <3>1, <3>2 DEF Thread
  <2> QED
    BY <1>0, <2>1 DEF TypeOK, Age
<1>5. late' \subseteq [owner : Worker, job : Job, at : Nat]
  <2>1. ASSUME NEW call \in late
        PROVE  [call EXCEPT !.at = @ - 1] \in [owner : Worker, job : Job, at : Nat]
    <3>1. call \in [owner : Worker, job : Job, at : Nat]
      BY <1>0 DEF TypeOK
    <3>2. call.at > 1
      BY DEF Age, CallTimes
    <3> QED
      BY <3>1, <3>2
  <2> QED
    BY <2>1 DEF Age
<1> QED
  BY <1>0, <1>1, <1>2, <1>3, <1>4, <1>5 DEF TypeOK, Age

LEMMA AgeKeeps ==
  ASSUME IInv, Age
  PROVE  IInv'
<1> USE DEF fileVars
<1>0. TypeOK /\ TableOK
  BY DEF IInv
<1>1. TypeOK'
  BY AgeKeepsTypes
<1>2. \A j \in Job :
        /\ row[j] \in Row /\ Rank(j) \in Nat
        /\ row[j].created = 0 => Rank(j) = 0
        /\ row'[j] = Aged(row[j], Rank(j))
  BY <1>0, RankType DEF TypeOK, Age
<1>3. TableOK'
  <2>1. ASSUME NEW j \in Job, row[j].status = "absent"
        PROVE  row'[j] = NoRow
    <3>1. row[j] = NoRow /\ NoRow.created = 0
      BY <1>0, <2>1 DEF TableOK, RowCoherent, NoRow
    <3>2. row'[j] = Aged(NoRow, 0)
      BY <1>2, <3>1
    <3> QED
      BY <3>2 DEF Aged, NoRow
  <2>2. RowCoherent'
    BY <1>0, <1>2, <2>1, AgedFields DEF TableOK, RowCoherent
  <2>3. AttemptsBounded' /\ LatestAttemptLands' /\ OfficialIsRegistered'
    BY <1>0, <1>2, AgedFields DEF TableOK, AttemptsBounded,
       LatestAttemptLands, OfficialIsRegistered, Age
  <2> QED
    BY <2>2, <2>3 DEF TableOK
<1>4. ASSUME NEW w \in Worker
      PROVE  ProcessOK(w)'
  <2>0. ProcessOK(w)
    BY DEF IInv
  <2>1. /\ pc'[w] = pc[w] /\ job'[w] = job[w] /\ fp'[w] = fp[w]
        /\ seen'[w].attempts = seen[w].attempts
        /\ renewer'[w].state = renewer[w].state
        /\ UNCHANGED <<clock, tmp, official>>
    <3>1. seen[w] \in Row /\ renewer[w] \in Thread
      BY <1>0 DEF TypeOK
    <3>2. [renewer[w] EXCEPT !.at = Earlier(@, 1)].state = renewer[w].state
      BY <3>1 DEF Thread
    <3> QED
      BY <3>1, <3>2, AgedFields DEF Age
  <2>2. \A j \in Job : /\ row'[j].owner = row[j].owner
                       /\ row'[j].attempts = row[j].attempts
    BY <1>2, AgedFields
  <2>3. JobKnown(w)' /\ (seen[w].attempts <= MaxAttempts)'
    BY <2>0, <2>1 DEF ProcessOK, JobKnown
  <2>4. (sampled[w] <= clock)'
    <3>1. sampled[w] \in Nat /\ clock \in Nat
      BY <1>0 DEF TypeOK, Time
    <3> QED
      BY <2>0, <2>1, <3>1, EarlierType DEF ProcessOK, Age
  <2>5. SeenIsCurrent(w)' /\ GateKeepsOwner(w)'
    <3>1. pc[w] \in Working => job[w] \in Job
      BY <2>0 DEF ProcessOK, JobKnown
    <3> QED
      BY <2>0, <2>1, <2>2, <3>1 DEF ProcessOK, SeenIsCurrent, GateKeepsOwner,
         HoldsWriteLock, Working
  <2>6. /\ (MyPath(w))' = MyPath(w) /\ (MyPart(w))' = MyPart(w)
        /\ (MyBytes(w))' = MyBytes(w)
    BY <2>1 DEF MyPath, MyPart, MyBytes, TmpPath, PartPath
  <2>7. OwnPart(w)' /\ OwnTemp(w)' /\ OwnFingerprint(w)' /\ MovedIsMine(w)'
    BY <2>0, <2>1, <2>6 DEF ProcessOK, OwnPart, OwnTemp, OwnFingerprint,
       MovedIsMine
  <2> QED
    BY <2>3, <2>4, <2>5, <2>7 DEF ProcessOK
<1>5. OneWriter'
  BY DEF IInv, OneWriter, HoldsWriteLock, Age
<1> QED
  BY <1>1, <1>3, <1>4, <1>5 DEF IInv

-----------------------------------------------------------------------------
(* Processes that are started again, and jobs that come and go.              *)

\* The rows of a process that ended pass to Ghost, of which the invariant says
\* nothing that depends on a row.
LEMMA RestartKeeps ==
  ASSUME IInv, GhostRests, NEW w \in Slot, Restart(w)
  PROVE  IInv'
<1> USE DEF fileVars
<1>0. TypeOK /\ TableOK /\ w \in Worker /\ w # Ghost
  BY DEF IInv, Slot
<1>1. \A j \in Job :
        row'[j] = [row[j] EXCEPT !.owner = IF @ = w THEN Ghost ELSE @]
  BY DEF Restart
<1>2. \A j \in Job :
        LET r == row[j]
            q == row'[j] IN
        /\ q \in Row
        /\ q.status = r.status /\ q.attempts = r.attempts
        /\ q.pdf = r.pdf /\ q.error = r.error /\ q.expires = r.expires
        /\ q.owner = IF r.owner = w THEN Ghost ELSE r.owner
        /\ r = NoRow => q = NoRow
  <2> SUFFICES ASSUME NEW j \in Job
               PROVE  LET r == row[j]
                          q == row'[j] IN
                      /\ q \in Row
                      /\ q.status = r.status /\ q.attempts = r.attempts
                      /\ q.pdf = r.pdf /\ q.error = r.error
                      /\ q.expires = r.expires
                      /\ q.owner = IF r.owner = w THEN Ghost ELSE r.owner
                      /\ r = NoRow => q = NoRow
    OBVIOUS
  <2> DEFINE owner == IF row[j].owner = w THEN Ghost ELSE row[j].owner
  <2>1. row[j] \in Row /\ row'[j] = [row[j] EXCEPT !.owner = owner]
    BY <1>0, <1>1 DEF TypeOK
  <2>2. owner \in Worker \cup {NULL}
    BY <2>1, RowFields
  <2>3. row[j] = NoRow => row'[j] = NoRow
    BY <1>0, <2>1 DEF NoRow
  <2> HIDE DEF owner
  <2>4. row'[j] \in Row
    BY <2>1, <2>2 DEF Row
  <2> QED
    BY <2>1, <2>3, <2>4 DEF Row, owner
<1>3. TypeOK'
  <2>1. pc' \in [Worker -> PC]
    BY <1>0 DEF TypeOK, Restart, Goto, PC
  <2>2. row' \in [Job -> Row]
    BY <1>2 DEF Restart
  <2> QED
    BY <1>0, <2>1, <2>2 DEF TypeOK, Restart
<1>4. TableOK'
  <2>1. \A j \in Job : row'[j].owner = NULL <=> row[j].owner = NULL
    BY <1>0, <1>2
  <2>2. RowCoherent'
    <3>1. NoRow.owner = NULL
      BY DEF NoRow
    <3> QED
      BY <1>0, <1>2, <2>1, <3>1 DEF TableOK, RowCoherent
  <2>3. AttemptsBounded' /\ LatestAttemptLands' /\ OfficialIsRegistered'
    BY <1>0, <1>2 DEF TableOK, AttemptsBounded, LatestAttemptLands,
       OfficialIsRegistered, Restart
  <2> QED
    BY <2>2, <2>3 DEF TableOK
<1>5. ASSUME NEW v \in Worker
      PROVE  ProcessOK(v)'
  <2>0. ProcessOK(v)
    BY DEF IInv
  <2>1. CASE v \in {w, Ghost}
    <3>1. pc'[v] \in {"new", "dead"}
      BY <1>0, <2>1 DEF TypeOK, Restart, Goto, GhostRests
    <3>2. JobKnown(v)'
      BY <2>0, <3>1 DEF ProcessOK, JobKnown, Working, Restart
    <3>3. (sampled[v] <= clock)' /\ (seen[v].attempts <= MaxAttempts)'
      BY <2>0 DEF ProcessOK, Restart
    <3> QED
      BY <3>1, <3>2, <3>3 DEF ProcessOK, SeenIsCurrent, GateKeepsOwner,
         HoldsWriteLock, OwnPart, OwnTemp, OwnFingerprint, MovedIsMine, Working
  <2>2. CASE v \notin {w, Ghost}
    <3>1. SameLocals(v) /\ KeepsFiles(v)
      BY <1>0, <2>2 DEF TypeOK, SameLocals, KeepsFiles, Restart, Goto
    <3>2. \A j \in Job : /\ row'[j].owner = v => row[j].owner = v
                         /\ row[j].owner = v => row'[j].owner = v
                         /\ row'[j].attempts = row[j].attempts
      BY <1>2, <2>2
    <3>3. HoldsWriteLock(v) => job[v] \in Job /\ row[job[v]].owner = v
      BY <2>0 DEF ProcessOK, JobKnown, GateKeepsOwner, HoldsWriteLock, Working
    <3>4. clock \in Nat /\ clock' = clock /\ UNCHANGED official
      BY <1>0 DEF TypeOK, Time, Restart
    <3>5. GivesNoRow(v)
      BY <3>2 DEF GivesNoRow
    <3>6. HoldsWriteLock(v) => row'[job[v]].owner = row[job[v]].owner
      BY <3>2, <3>3
    <3> QED
      BY <3>1, <3>4, <3>5, <3>6, ProcessFrame
  <2> QED
    BY <2>1, <2>2
<1>6. OneWriter'
  BY <1>0 DEF IInv, TypeOK, OneWriter, HoldsWriteLock, Restart, Goto
<1> QED
  BY <1>3, <1>4, <1>5, <1>6 DEF IInv

LEMMA RetireKeeps ==
  ASSUME IInv, NEW j \in Job, Retire(j)
  PROVE  IInv'
<1> USE DEF procVars
<1>0. TypeOK /\ TableOK
  BY DEF IInv
<1>1. \A k \in Job :
        /\ row'[k] = IF k = j THEN NoRow ELSE row[k]
        /\ official'[k] = IF k = j THEN NULL ELSE official[k]
  BY <1>0 DEF TypeOK, Retire
<1>2. TypeOK'
  <2>1. row' \in [Job -> Row] /\ official' \in [Job -> Bytes \cup {NULL}]
    BY <1>0, NoRowType DEF TypeOK, Retire
  <2>2. DOMAIN tmp' \subseteq DOMAIN tmp /\ \A p \in DOMAIN tmp' : tmp'[p] = tmp[p]
    BY DEF Retire, Without
  <2> QED
    BY <1>0, <2>1, <2>2 DEF TypeOK, Retire
<1>3. TableOK'
  <2>1. RowCoherent' /\ AttemptsBounded' /\ LatestAttemptLands'
    BY <1>0, <1>1 DEF TableOK, RowCoherent, AttemptsBounded,
       LatestAttemptLands, NoRow
  <2>2. OfficialIsRegistered'
    BY <1>0, <1>1 DEF TableOK, OfficialIsRegistered, NoRow
  <2> QED
    BY <2>1, <2>2 DEF TableOK
<1>4. ASSUME NEW v \in Worker
      PROVE  ProcessOK(v)'
  <2>1. SameLocals(v)
    BY DEF Retire, SameLocals
  <2>2. KeepsFiles(v)
    BY DEF Retire, KeepsFiles, Without
  <2>3. GivesNoRow(v)
    BY <1>1 DEF GivesNoRow, NoRow
  <2>4. job[v] # j /\ UNCHANGED clock /\ clock \in Nat
    BY <1>0 DEF Retire, TypeOK, Time
  <2>5. HoldsWriteLock(v) => job[v] \in Job
    BY DEF IInv, ProcessOK, JobKnown, HoldsWriteLock, Working
  <2>6. HoldsWriteLock(v) =>
          /\ row'[job[v]].owner = row[job[v]].owner
          /\ official'[job[v]] = official[job[v]]
    BY <1>1, <2>4, <2>5
  <2> QED
    BY <2>1, <2>2, <2>3, <2>4, <2>6, ProcessFrame DEF HoldsWriteLock
<1>5. OneWriter'
  BY DEF IInv, OneWriter, HoldsWriteLock, Retire
<1> QED
  BY <1>2, <1>3, <1>4, <1>5 DEF IInv

-----------------------------------------------------------------------------
(* The invariant in the long run.                                            *)

\* No step of a process of today is one of a process of the past.
LEMMA SlotsSpareGhost ==
  ASSUME TypeOK, GhostRests, NEW w \in Slot, MainStep(w) \/ RenewerStep(w)
  PROVE  GhostRests'
<1> USE DEF Goto, procVars, fileVars, GhostRests
<1>1. pc \in [Worker -> PC] /\ w # Ghost /\ w \in Worker
  BY DEF TypeOK, Slot
<1>2. CASE RenewerStep(w)
  BY <1>2 DEF RenewerStep, RenewWake, RenewHeld, RenewLost, RenewRaises,
     LateRenew
<1>3. CASE MainStep(w)
  <2>1. CASE Start(w) \/ Poll(w) \/ Claim(w) \/ ClaimNone(w) \/ LoadJob(w)
               \/ Stop(w) \/ SweepOrphan(w) \/ Rest(w)
    BY <1>1, <2>1 DEF Start, Poll, Claim, ClaimNone, LoadJob, Stop,
       SweepOrphan, Rest
  <2>2. CASE SweepTmp(w) \/ SweepOfficial(w) \/ Stage(w) \/ ConvertOk(w)
               \/ StageLost(w) \/ ConvertFail(w) \/ DropFailure(w)
               \/ AcceptFailure(w) \/ Record(w) \/ DropResult(w)
    BY <1>1, <2>2 DEF SweepTmp, SweepOfficial, Stage, ConvertOk, StageLost,
       ConvertFail, DropFailure, AcceptFailure, Record, DropResult
  <2>3. CASE KeepResult(w) \/ Fingerprint(w) \/ FingerprintFails(w)
               \/ GateRefuses(w) \/ GateHolds(w) \/ Move(w) \/ MoveFails(w)
               \/ Commit(w) \/ CommitFails(w) \/ Undo(w)
               \/ Raise(w) \/ Unwind(w) \/ Crash(w)
    BY <1>1, <2>3 DEF KeepResult, Fingerprint, FingerprintFails, GateRefuses,
       GateHolds, Move, MoveFails, Commit, CommitFails, Undo, Raise, Unwind,
       Crash
  <2> QED
    BY <1>3, <2>1, <2>2, <2>3 DEF MainStep
<1> QED
  BY <1>2, <1>3

LEMMA UploadIsSubmit ==
  ASSUME IInv, NEW j \in Job, Upload(j)
  PROVE  Submit(j)
<1>1. clock \in 0 .. clock
  BY DEF IInv, TypeOK, Time
<1> QED
  BY <1>1 DEF Upload, Submit

\* Every step of the endless queue keeps rows, processes and files in order.
THEOREM ProgressStepKeeps ==
  IInv /\ GhostRests /\ [ProgressNext]_vars => IInv' /\ GhostRests'
<1> SUFFICES ASSUME IInv, GhostRests, [ProgressNext]_vars
             PROVE  IInv' /\ GhostRests'
  OBVIOUS
<1>1. ASSUME NEW j \in Job, Upload(j) PROVE IInv' /\ GhostRests'
  BY <1>1, UploadIsSubmit, SubmitKeeps DEF Upload, procVars, GhostRests
<1>2. ASSUME NEW j \in Job, Retire(j) PROVE IInv' /\ GhostRests'
  BY <1>2, RetireKeeps DEF Retire, procVars, GhostRests
<1>3. ASSUME NEW w \in Slot, MainStep(w) \/ RenewerStep(w)
      PROVE  IInv' /\ GhostRests'
  <2>1. Next
    BY <1>3 DEF Next, Slot
  <2>2. IInv'
    BY <2>1, StepKeepsIInv
  <2> QED
    BY <1>3, <2>2, SlotsSpareGhost DEF IInv
<1>4. ASSUME NEW w \in Slot, Restart(w) PROVE IInv' /\ GhostRests'
  <2>1. GhostRests'
    BY <1>4 DEF Restart, Goto, GhostRests, Slot
  <2> QED
    BY <1>4, <2>1, RestartKeeps
<1>5. CASE Age
  BY <1>5, AgeKeeps DEF Age, GhostRests
<1>6. CASE UNCHANGED vars
  <2>1. IInv'
    BY <1>6, StepKeepsIInv
  <2> QED
    BY <1>6, <2>1 DEF vars, procVars, GhostRests
<1> QED
  BY <1>1, <1>2, <1>3, <1>4, <1>5, <1>6 DEF ProgressNext

LEMMA ProgressInitHolds == ProgressInit => IInv /\ GhostRests
<1> SUFFICES ASSUME ProgressInit PROVE IInv /\ GhostRests
  OBVIOUS
<1>1. TypeOK
  BY NoRowType DEF ProgressInit, TypeOK, Time, Thread, NoThread, PC
<1>2. RowCoherent /\ AttemptsBounded /\ LatestAttemptLands
      /\ OfficialIsRegistered
  BY DEF ProgressInit, NoRow, RowCoherent, AttemptsBounded,
         LatestAttemptLands, OfficialIsRegistered
<1>3. \A w \in Worker : ProcessOK(w)
  BY DEF ProgressInit, NoRow, NoThread, Working, ProcessOK, JobKnown,
         SeenIsCurrent, GateKeepsOwner, HoldsWriteLock, OwnPart, OwnTemp,
         OwnFingerprint, MovedIsMine
<1>4. OneWriter /\ GhostRests
  BY DEF ProgressInit, OneWriter, HoldsWriteLock, GhostRests
<1> QED
  BY <1>1, <1>2, <1>3, <1>4 DEF IInv, TableOK

\* However long the queue runs and however often its processes are started
\* again, rows, processes and files agree.
THEOREM AlwaysInOrder == ProgressSpec => []IInv
BY ProgressInitHolds, ProgressStepKeeps, PTL DEF ProgressSpec

\* What a step of the endless queue may do to a row: what a step of Worker may,
\* and to free the id of a job that ended.
LEMMA ProgressRows ==
  ASSUME IInv, [ProgressNext]_vars, NEW j \in Job
  PROVE  \/ RowStep(row[j], row'[j])
         \/ Recycle /\ row[j].status \in {"succeeded", "failed"}
<1>1. row \in [Job -> Row] /\ row[j] \in Row
  BY DEF IInv, TypeOK
<1>2. CASE [Next]_vars
  BY <1>2, EveryStepIsRowStep
<1>3. CASE \E k \in Job : Upload(k)
  BY <1>2, <1>3, UploadIsSubmit DEF Next
<1>4. CASE \E w \in Slot : MainStep(w) \/ RenewerStep(w)
  BY <1>2, <1>4 DEF Next, Slot
<1>5. CASE \E k \in Job : Retire(k)
  BY <1>1, <1>5 DEF Retire, RowStep, Untouched
<1>6. CASE \E w \in Slot : Restart(w)
  <2>1. PICK w \in Slot : Restart(w)
    BY <1>6
  <2> DEFINE owner == IF row[j].owner = w THEN Ghost ELSE row[j].owner
  <2>2. row'[j] = [row[j] EXCEPT !.owner = owner]
    BY <2>1 DEF Restart
  <2> HIDE DEF owner
  <2> QED
    BY <1>1, <2>2 DEF Row, RowStep, Untouched
<1>7. CASE Age
  BY <1>1, <1>7, RankType, AgedFields DEF Age, RowStep, Untouched, IInv, TypeOK
<1> QED
  BY <1>2, <1>3, <1>4, <1>5, <1>6, <1>7 DEF ProgressNext

\* Nor is a lease ever taken over before its end: neither the passage of time
\* nor a restart starts an attempt.
THEOREM LeasesOutlastRestarts == ProgressSpec => NoStolenLease
<1> DEFINE Fair == \A j \in Job : /\ row[j].owner # NULL
                                  /\ row'[j].attempts # row[j].attempts
                                  => row[j].expires < clock
<1>1. IInv /\ [ProgressNext]_vars => Fair
  <2> SUFFICES ASSUME IInv, [ProgressNext]_vars, NEW j \in Job,
                      row[j].owner # NULL,
                      row'[j].attempts # row[j].attempts
               PROVE  row[j].expires < clock
    OBVIOUS
  <2>1. RowOK(row[j]) /\ row[j].status \notin {"succeeded", "failed"}
    BY RowsAreOK DEF IInv, RowOK
  <2>2. RowStep(row[j], row'[j])
    BY <2>1, ProgressRows
  <2> QED
    BY <2>1, <2>2 DEF RowStep, Untouched, Inserted, Taken, Delivered, Dropped,
       RowOK
<1>2. IInv /\ [ProgressNext]_vars => [Fair]_vars
  BY <1>1
<1> QED
  BY <1>2, AlwaysInOrder, PTL DEF ProgressSpec, NoStolenLease

\* Also in the long run, what a client sees of the jobs is a behaviour of
\* JobLifecycle: a restart, or time that passes, is no step for it.  (With ids
\* that are recycled a job of JobLifecycle would stand for one after another.)
THEOREM LongRunImplementsLifecycle ==
  ASSUME ~ Recycle
  PROVE  ProgressSpec => ImplementsLifecycle
<1> DEFINE bar == [j \in Job |-> Abstract(row[j])]
<1>1. ProgressInit => Lifecycle!Init
  BY DEF ProgressInit, NoRow, Lifecycle!Init
<1>2. IInv /\ IInv' /\ [ProgressNext]_vars => [Lifecycle!Next]_bar
  BY ProgressRows, RowStepsAreNext
<1> QED
  BY <1>1, <1>2, AlwaysInOrder, PTL DEF ProgressSpec, ImplementsLifecycle,
     Lifecycle!Spec, Abstract, Result

-----------------------------------------------------------------------------
(* Leases and files in the long run.                                         *)

ClockStands == clock = MaxClock

\* What Age does to the times on record, above their floors.
LEMMA AgedTimes ==
  ASSUME IInv, Age, NEW w \in Worker
  PROVE  /\ UNCHANGED <<clock, official>>
         /\ pc'[w] = pc[w] /\ job'[w] = job[w] /\ fp'[w] = fp[w]
         /\ renewer'[w].state = renewer[w].state
         /\ sampled[w] > 0 => sampled'[w] = sampled[w] - 1
         /\ renewer[w].state = "wait" /\ renewer[w].at > 1 =>
              renewer'[w].at = renewer[w].at - 1
         /\ clock \in Nat /\ sampled[w] \in Nat /\ renewer[w].at \in Nat
<1>1. /\ renewer[w] \in Thread /\ sampled[w] \in Nat /\ clock \in Nat
      /\ sampled'[w] = Earlier(sampled[w], 0)
      /\ renewer'[w] = IF renewer[w].state \in {"wait", "call"}
                       THEN [renewer[w] EXCEPT !.at = Earlier(@, 1)]
                       ELSE renewer[w]
  BY DEF IInv, TypeOK, Time, Age
<1>2. renewer'[w].state = renewer[w].state
  BY <1>1 DEF Thread
<1>3. renewer[w].state = "wait" => renewer'[w].at = Earlier(renewer[w].at, 1)
  BY <1>1 DEF Thread
<1>4. renewer[w].at \in Nat
  BY <1>1 DEF Thread
<1> QED
  BY <1>1, <1>2, <1>3, <1>4 DEF Age, Earlier, fileVars

LEMMA AgedLeases ==
  ASSUME IInv, Age, NEW j \in Job
  PROVE  /\ row'[j].owner = row[j].owner
         /\ row'[j].status = row[j].status /\ row'[j].pdf = row[j].pdf
         /\ \A t \in Nat : row[j].expires = t /\ t > 0 =>
                           row'[j].expires = t - 1
<1>1. row[j] \in Row /\ Rank(j) \in Nat /\ row'[j] = Aged(row[j], Rank(j))
  BY RankType DEF IInv, TypeOK, Age
<1>2. ASSUME NEW t \in Nat, row[j].expires = t, t > 0
      PROVE  row'[j].expires = t - 1
  <2>1. row'[j].expires = Earlier(t, 0)
    BY <1>1, <1>2 DEF Aged, Row
  <2> QED
    BY <1>2, <2>1 DEF Earlier
<1> QED
  BY <1>1, <1>2, AgedFields

LEMMA AgeKeepsClaims ==
  ASSUME Prompt, IInv, ClaimInv, ClockStands, Age
  PROVE  ClaimInv'
<1>1. late' = {} /\ \A w \in Worker : StartsInTime(w)
  BY DEF Age, TimeMayPass, Prompt, ClaimInv
<1>2. ASSUME NEW w \in Worker PROVE ClaimOK(w)'
  <2>1. ClaimOK(w) /\ StartsInTime(w)
    BY <1>1 DEF ClaimInv
  <2>2. RenewsLater(w)'
    BY <2>1, AgedTimes DEF ClaimOK, RenewsLater
  <2>3. pc[w] \in Claiming \cup {"claim"} =>
          /\ sampled[w] > 0 /\ sampled'[w] = sampled[w] - 1
          /\ clock + RenewEvery < sampled'[w] + Lease
    <3>1. SUFFICES ASSUME pc[w] \in Claiming \cup {"claim"}
                   PROVE  /\ sampled[w] > 0
                          /\ clock + RenewEvery < sampled[w] - 1 + Lease
      BY AgedTimes
    <3>2. clock + 1 + RenewEvery < sampled[w] + Lease
      BY <2>1, <3>1 DEF StartsInTime, Claiming
    <3> QED
      BY <3>2, AgedTimes DEF ClockStands
  <2>4. LeaseIsYoung(w)'
    BY <2>3, AgedTimes DEF LeaseIsYoung, Claiming
  <2>5. LeaseAsClaimed(w)'
    <3>1. SUFFICES ASSUME pc[w] \in Claiming
                   PROVE  /\ row'[job[w]].owner = w
                          /\ row'[job[w]].expires = sampled'[w] + Lease
      BY AgedTimes DEF LeaseAsClaimed
    <3>2. /\ job[w] \in Job /\ row[job[w]].owner = w
          /\ row[job[w]].expires = sampled[w] + Lease
      BY <2>1, <3>1 DEF ClaimOK, LeaseAsClaimed, Claiming, IInv, ProcessOK,
         JobKnown, Working
    <3>3. sampled[w] + Lease \in Nat /\ sampled[w] + Lease > 0
          /\ sampled'[w] = sampled[w] - 1
      BY <2>3, <3>1, AgedTimes
    <3>4. row'[job[w]].expires = (sampled[w] + Lease) - 1
      BY <3>2, <3>3, AgedLeases
    <3> QED
      BY <3>2, <3>3, <3>4, AgedLeases, AgedTimes
  <2> QED
    BY <2>2, <2>4, <2>5 DEF ClaimOK
<1> QED
  BY <1>1, <1>2 DEF ClaimInv

LEMMA AgeKeepsLeases ==
  ASSUME Timely, IInv, ClaimInv, LeaseKept, ClockStands, Age
  PROVE  LeaseKept'
<1> SUFFICES ASSUME NEW w \in Worker
             PROVE  StartIsNear(w)' /\ KeepsLease(w)'
  BY DEF LeaseKept
<1>1. StartsInTime(w) /\ RenewsInTime(w) /\ KeepsLease(w)
  BY DEF Age, TimeMayPass, Timely, Prompt, LeaseKept
<1>2. StartIsNear(w)'
  <2>1. SUFFICES ASSUME pc[w] \in Claiming \cup {"claim"}
                 PROVE  clock + RenewEvery < sampled'[w] + Lease
    BY AgedTimes DEF StartIsNear, Claiming
  <2>2. clock + 1 + RenewEvery < sampled[w] + Lease
    BY <1>1, <2>1 DEF StartsInTime, Claiming
  <2>3. sampled[w] > 0
    BY <2>2, AgedTimes DEF ClockStands
  <2> QED
    BY <2>2, <2>3, AgedTimes
<1>3. KeepsLease(w)'
  <2>1. SUFFICES ASSUME Engaged(w)
                 PROVE  /\ row'[job[w]].owner = w
                        /\ renewer'[w].state = "wait"
                        /\ clock <= renewer'[w].at
                        /\ renewer'[w].at < row'[job[w]].expires
    BY AgedTimes DEF KeepsLease, Engaged, Converting
  <2>2. /\ job[w] \in Job /\ row[job[w]].expires \in Nat
        /\ row[job[w]].owner = w
        /\ renewer[w].state = "wait" /\ clock < renewer[w].at
        /\ renewer[w].at < row[job[w]].expires
    BY <1>1, <2>1, EngagedTypes DEF KeepsLease, RenewsInTime
  <2>3. /\ renewer[w].at > 1 /\ renewer'[w].at = renewer[w].at - 1
        /\ renewer[w].at \in Nat /\ clock \in Nat
    BY <2>2, AgedTimes DEF ClockStands
  <2>4. row'[job[w]].expires = row[job[w]].expires - 1
    BY <2>2, <2>3, AgedLeases
  <2> QED
    BY <2>2, <2>3, <2>4, AgedLeases, AgedTimes
<1> QED
  BY <1>2, <1>3

\* A restart and a retired job leave those alone who are at work: nothing of
\* theirs changes, nor the row they own.
SparesWorkers ==
  /\ UNCHANGED <<clock, job, sampled, renewer, late, fp>>
  /\ \A u \in Worker : \/ pc'[u] = pc[u]
                       \/ pc[u] = "dead" /\ pc'[u] = "new"
  /\ \A u \in Worker :
       pc[u] # "dead" /\ job[u] \in Job /\ row[job[u]].owner = u =>
         row'[job[u]] = row[job[u]]

LEMMA RestartSpares ==
  ASSUME IInv, NEW w \in Slot, Restart(w)
  PROVE  SparesWorkers /\ UNCHANGED official
<1>1. /\ UNCHANGED <<clock, job, sampled, renewer, late, fp, official>>
      /\ pc[w] = "dead" /\ pc' = [pc EXCEPT ![w] = "new"]
      /\ pc \in [Worker -> PC] /\ row \in [Job -> Row]
  BY DEF Restart, Goto, fileVars, IInv, TypeOK
<1>2. ASSUME NEW j \in Job, row[j].owner # w PROVE row'[j] = row[j]
  BY <1>1, <1>2 DEF Restart, Row
<1> QED
  BY <1>1, <1>2 DEF SparesWorkers

LEMMA RetireSpares ==
  ASSUME IInv, NEW j \in Job, Retire(j)
  PROVE  SparesWorkers
<1>1. /\ UNCHANGED <<clock, pc, job, sampled, renewer, late, fp>>
      /\ row \in [Job -> Row] /\ \A u \in Worker : job[u] # j
  BY DEF Retire, procVars, IInv, TypeOK
<1> QED
  BY <1>1 DEF SparesWorkers, Retire

LEMMA SparedKeep ==
  ASSUME IInv, ClaimInv, SparesWorkers
  PROVE  ClaimInv' /\ (LeaseKept => LeaseKept')
<1>1. ASSUME NEW w \in Worker
      PROVE  /\ ClaimOK(w)'
             /\ LeaseKept => StartIsNear(w)' /\ KeepsLease(w)'
  <2>1. ClaimOK(w) /\ (LeaseKept => StartIsNear(w) /\ KeepsLease(w))
    BY DEF ClaimInv, LeaseKept
  <2>2. pc'[w] = pc[w] \/ (pc[w] = "dead" /\ pc'[w] = "new")
    BY DEF SparesWorkers
  <2>3. pc[w] \in Claiming \/ Engaged(w) => job[w] \in Job /\ pc[w] # "dead"
    BY DEF IInv, ProcessOK, JobKnown, Engaged, Converting, Claiming, Working
  <2>4. row[job[w]].owner = w /\ (pc[w] \in Claiming \/ Engaged(w)) =>
          row'[job[w]] = row[job[w]]
    BY <2>3 DEF SparesWorkers
  <2>5. ClaimOK(w)'
    BY <2>1, <2>2, <2>4 DEF SparesWorkers, ClaimOK, LeaseIsYoung,
       LeaseAsClaimed, RenewsLater, Claiming
  <2>6. LeaseKept => StartIsNear(w)' /\ KeepsLease(w)'
    BY <2>1, <2>2, <2>4 DEF SparesWorkers, StartIsNear, KeepsLease, Engaged,
       Converting, Claiming
  <2> QED
    BY <2>5, <2>6
<1> QED
  BY <1>1 DEF ClaimInv, LeaseKept, SparesWorkers

\* Files: Age and Restart touch none, Retire one of nobody.
LEMMA SparedFiles ==
  ASSUME IInv, FilesOK, SparesWorkers,
         \A j \in Job : row'[j].status = "succeeded" =>
           /\ row[j].status = "succeeded" /\ row'[j].pdf = row[j].pdf
           /\ official'[j] = official[j],
         \A w \in Worker : job[w] \in Job =>
           official'[job[w]] = official[job[w]]
  PROVE  FilesOK'
<1>1. SucceededHasFile'
  BY DEF FilesOK, SucceededHasFile
<1>2. ASSUME NEW w \in Worker PROVE MovedStays(w)'
  <2>1. SUFFICES ASSUME pc'[w] = "moved"
                 PROVE  official'[job[w]] = fp[w]
    BY DEF MovedStays, SparesWorkers
  <2>2. pc[w] = "moved" /\ job[w] \in Job
    BY <2>1 DEF SparesWorkers, IInv, ProcessOK, JobKnown, Working
  <2> QED
    BY <2>2 DEF FilesOK, MovedStays
<1> QED
  BY <1>1, <1>2 DEF FilesOK

LEMMA RestartKeepsFiles ==
  ASSUME IInv, FilesOK, NEW w \in Slot, Restart(w)
  PROVE  FilesOK'
<1>1. SparesWorkers /\ UNCHANGED official
  BY RestartSpares
<1>2. ASSUME NEW j \in Job
      PROVE  row'[j].status = row[j].status /\ row'[j].pdf = row[j].pdf
  <2> DEFINE owner == IF row[j].owner = w THEN Ghost ELSE row[j].owner
  <2>1. row[j] \in Row /\ row'[j] = [row[j] EXCEPT !.owner = owner]
    BY DEF Restart, IInv, TypeOK
  <2> HIDE DEF owner
  <2> QED
    BY <2>1 DEF Row
<1> QED
  BY <1>1, <1>2, SparedFiles

LEMMA RetireKeepsFiles ==
  ASSUME IInv, FilesOK, NEW j \in Job, Retire(j)
  PROVE  FilesOK'
<1>1. SparesWorkers
  BY RetireSpares
<1>2. \A k \in Job : /\ k # j => row'[k] = row[k] /\ official'[k] = official[k]
                    /\ row'[j].status = "absent"
  BY DEF Retire, IInv, TypeOK, NoRow
<1>3. \A w \in Worker : job[w] # j
  BY DEF Retire
<1> QED
  BY <1>1, <1>2, <1>3, SparedFiles

LEMMA AgeKeepsFiles ==
  ASSUME IInv, FilesOK, Age
  PROVE  FilesOK'
<1>1. SucceededHasFile'
  BY AgedLeases DEF FilesOK, SucceededHasFile, Age, fileVars
<1>2. \A w \in Worker : MovedStays(w)'
  BY DEF FilesOK, MovedStays, Age, fileVars
<1> QED
  BY <1>1, <1>2 DEF FilesOK

\* The layers of TimelyProofs in the long run.

LEMMA ProgressKeepsClaims ==
  ASSUME Prompt, IInv, ClaimInv, ClockStands, [ProgressNext]_vars
  PROVE  ClaimInv' /\ (Timely /\ LeaseKept => LeaseKept')
<1>1. CASE [Next]_vars
  BY <1>1, ClaimStep, LeaseStep
<1>2. CASE \E j \in Job : Upload(j)
  BY <1>1, <1>2, UploadIsSubmit DEF Next
<1>3. CASE \E w \in Slot : MainStep(w) \/ RenewerStep(w)
  BY <1>1, <1>3 DEF Next, Slot
<1>4. CASE \E j \in Job : Retire(j)
  BY <1>4, RetireSpares, SparedKeep
<1>5. CASE \E w \in Slot : Restart(w)
  BY <1>5, RestartSpares, SparedKeep
<1>6. CASE Age
  BY <1>6, AgeKeepsClaims, AgeKeepsLeases
<1> QED
  BY <1>1, <1>2, <1>3, <1>4, <1>5, <1>6 DEF ProgressNext

LEMMA ProgressKeepsFiles ==
  ASSUME Lossless, IInv, FileInv, ClockStands, [ProgressNext]_vars
  PROVE  FileInv'
<1>1. CASE [Next]_vars
  BY <1>1, FileStep
<1>2. CASE \E j \in Job : Upload(j)
  BY <1>1, <1>2, UploadIsSubmit DEF Next
<1>3. CASE \E w \in Slot : MainStep(w) \/ RenewerStep(w)
  BY <1>1, <1>3 DEF Next, Slot
<1>4. CASE (\E j \in Job : Retire(j)) \/ (\E w \in Slot : Restart(w)) \/ Age
  <2>1. ClaimInv' /\ (Timely => LeaseKept')
    BY ProgressKeepsClaims DEF Lossless, FileInv
  <2>2. FilesOK'
    BY <1>4, RetireKeepsFiles, RestartKeepsFiles, AgeKeepsFiles DEF FileInv
  <2>3. \A w \in Worker : pc'[w] = pc[w] \/ pc'[w] = "new"
    BY <1>4 DEF Retire, Restart, Goto, Age, procVars, IInv, TypeOK
  <2> QED
    BY <2>1, <2>2, <2>3 DEF FileInv
<1> QED
  BY <1>1, <1>2, <1>3, <1>4 DEF ProgressNext

LEMMA ClockStandsStill ==
  ASSUME ClockStands, [ProgressNext]_vars
  PROVE  ClockStands'
<1>1. CASE \E w \in Slot : MainStep(w) \/ RenewerStep(w)
  BY <1>1 DEF ClockStands, MainStep, RenewerStep, Start, Poll, Claim,
     ClaimNone, LoadJob, Stop,
     SweepOrphan, Rest, SweepTmp, SweepOfficial, Stage, ConvertOk,
     StageLost, ConvertFail, DropFailure, AcceptFailure, Record, DropResult,
     KeepResult, Fingerprint, FingerprintFails, GateRefuses, GateHolds,
     Move, MoveFails, Commit, CommitFails, Undo, Raise, Unwind, Crash,
     RenewWake, RenewHeld, RenewLost, RenewRaises, LateRenew
<1> QED
  BY <1>1 DEF ClockStands, ProgressNext, Upload, Retire, Restart, Age, vars

LEMMA ProgressInitFiles == ProgressInit => FileInv /\ ClockStands
<1> SUFFICES ASSUME ProgressInit PROVE FileInv /\ ClockStands
  OBVIOUS
<1>1. /\ late = {} /\ ClockStands
      /\ \A j \in Job : row[j].status = "absent"
      /\ \A w \in Worker : /\ pc[w] \in {"new", "dead"}
                           /\ renewer[w].state = "off"
  BY DEF ProgressInit, NoRow, NoThread, ClockStands
<1>2. ClaimInv
  BY <1>1 DEF ClaimInv, ClaimOK, LeaseIsYoung, LeaseAsClaimed, RenewsLater,
     Claiming
<1>3. LeaseKept
  BY <1>1 DEF LeaseKept, StartIsNear, KeepsLease, Engaged, Converting, Claiming
<1>4. FilesOK
  BY <1>1 DEF FilesOK, SucceededHasFile, MovedStays
<1> QED
  BY <1>1, <1>2, <1>3, <1>4 DEF FileInv

\* However often processes are killed and started again, a job that succeeded
\* has its file as long as its row is there.
THEOREM ResultsOutlastRestarts ==
  ASSUME Lossless
  PROVE  ProgressSpec => []SucceededHasFile
<1>1. ProgressInit => IInv /\ GhostRests /\ FileInv /\ ClockStands
  BY ProgressInitHolds, ProgressInitFiles
<1>2. (IInv /\ GhostRests /\ FileInv /\ ClockStands) /\ [ProgressNext]_vars
        => (IInv /\ GhostRests /\ FileInv /\ ClockStands)'
  BY ProgressStepKeeps, ProgressKeepsFiles, ClockStandsStill
<1>3. FileInv => SucceededHasFile
  BY DEF FileInv, FilesOK
<1> QED
  BY <1>1, <1>2, <1>3, PTL DEF ProgressSpec

\* Nor do two processes ever convert one job, though processes are started
\* again while the rows of the old ones still say processing.
THEOREM ConvertersStayAlone ==
  ASSUME Timely
  PROVE  ProgressSpec => []OneConverter
<1> DEFINE Long == /\ IInv /\ GhostRests /\ ClaimInv /\ LeaseKept
                   /\ ClockStands
<1>1. ProgressInit => Long
  BY ProgressInitHolds, ProgressInitFiles DEF FileInv
<1>2. Long /\ [ProgressNext]_vars => Long'
  <2>1. Prompt
    BY DEF Timely
  <2> QED
    BY <2>1, ProgressStepKeeps, ProgressKeepsClaims, ClockStandsStill
<1>3. Long => OneConverter
  BY DEF LeaseKept, KeepsLease, Engaged, OneConverter
<1> QED
  BY <1>1, <1>2, <1>3, PTL DEF ProgressSpec
=============================================================================
