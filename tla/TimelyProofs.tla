---------------------------- MODULE TimelyProofs ----------------------------
(***************************************************************************)
(* What rests on time.                                                     *)
(*                                                                         *)
(* Three layers, each with its inductive invariant:                        *)
(*   - ClaimInv: a process that cleans up still has the lease it claimed a *)
(*     moment ago.  The clean-up does not look at the row.                 *)
(*   - LeaseKept: a process keeps its lease up to the end of its           *)
(*     conversion, its publication and the undo of that.                   *)
(*   - FileInv: a succeeded job has its file.                              *)
(* Each is proved from the faults that it needs to be absent, and from no  *)
(* more; workers may be killed throughout.                                 *)
(***************************************************************************)
EXTENDS RefinementProofs

\* No process is delayed before its clean-up, and no renewal is left behind.
Prompt == Faults \cap {"stall", "slowRenew"} = {}

\* Nor does a renewal raise or come after the end of the lease.
Timely == Prompt /\ "error" \notin Faults /\ RenewEvery < Lease

\* Nobody undoes a publication, or only while it has its lease.
Lossless == Prompt /\ ("commitError" \notin Faults \/ Timely)

\* Between its claim and its clean-up a process has the lease it claimed.
Claiming == {"claimed", "loaded", "swept"}

LeaseIsYoung(w) ==
  pc[w] \in Claiming \cup {"claim"} => clock < sampled[w] + Lease

LeaseAsClaimed(w) ==
  pc[w] \in Claiming =>
    row[job[w]].owner = w /\ row[job[w]].expires = sampled[w] + Lease

\* Nobody renews before the clean-up is over.
RenewsLater(w) ==
  pc[w] \in Claiming \cup {"new", "idle", "claim", "rest", "dead"} =>
    renewer[w].state = "off"

ClaimOK(w) == LeaseIsYoung(w) /\ LeaseAsClaimed(w) /\ RenewsLater(w)

ClaimInv == late = {} /\ \A w \in Worker : ClaimOK(w)

\* The renewer will start before the lease ends ...
StartIsNear(w) ==
  pc[w] \in Claiming \cup {"claim"} => clock + RenewEvery < sampled[w] + Lease

\* ... and from then on the next renewal is due before it does.
Engaged(w) == Converting(w) \/ pc[w] = "undo"

KeepsLease(w) ==
  Engaged(w) =>
    /\ row[job[w]].owner = w
    /\ renewer[w].state \in {"wait", "call"}
    /\ renewer[w].state = "call" => renewer[w].at = clock
    /\ clock <= renewer[w].at
    /\ renewer[w].at < row[job[w]].expires

LeaseKept == \A w \in Worker : StartIsNear(w) /\ KeepsLease(w)

\* Whoever undoes a publication still has the job.
UndoOwns == \A w \in Worker : pc[w] = "undo" => row[job[w]].owner = w

\* Between its move and its commit the file of a process stays.
MovedStays(w) == pc[w] = "moved" => official[job[w]] = fp[w]

FilesOK == SucceededHasFile /\ \A w \in Worker : MovedStays(w)

FileInv ==
  /\ ClaimInv
  /\ "commitError" \notin Faults => \A w \in Worker : pc[w] # "undo"
  /\ Timely => LeaseKept
  /\ FilesOK

-----------------------------------------------------------------------------

LEMMA InitFiles == Init => FileInv
<1> SUFFICES ASSUME Init PROVE FileInv
  OBVIOUS
<1>1. \A j \in Job : row[j].status = "absent"
  BY DEF Init, RowInit, NoRow
<1>2. late = {} /\ \A w \in Worker : pc[w] = "new" /\ renewer[w].state = "off"
  BY DEF Init, NoThread
<1>3. ClaimInv
  BY <1>2 DEF ClaimInv, ClaimOK, LeaseIsYoung, LeaseAsClaimed, RenewsLater,
     Claiming
<1>4. LeaseKept
  BY <1>2 DEF LeaseKept, StartIsNear, KeepsLease, Engaged, Converting, Claiming
<1>5. FilesOK
  BY <1>1, <1>2 DEF FilesOK, SucceededHasFile, MovedStays
<1> QED
  BY <1>2, <1>3, <1>4, <1>5 DEF FileInv

\* A step of v leaves a row alone that somebody else has a valid lease on.
LeavesLeased(v) ==
  \A j \in Job :
    row[j].owner \in Worker \ {v} /\ clock < row[j].expires => row'[j] = row[j]

LEMMA ReapLeavesLeased ==
  ASSUME IInv, NEW v \in Worker, NEW j \in Job,
         row[j].owner # NULL, clock < row[j].expires
  PROVE  ~ Expired(row[j], sampled[v])
<1>1. /\ row[j].expires \in Nat /\ clock \in Nat
      /\ sampled[v] \in Nat /\ sampled[v] <= clock
  <2>1. RowOK(row[j]) /\ row[j] \in Row
    BY RowsAreOK DEF IInv, TypeOK
  <2> QED
    BY <2>1, RowFields DEF RowOK, IInv, TypeOK, Time, ProcessOK
<1> QED
  BY <1>1 DEF Expired

LEMMA StepLeavesLeased ==
  ASSUME IInv, late = {}, NEW v \in Worker, MainStep(v) \/ RenewerStep(v)
  PROVE  LeavesLeased(v)
<1> SUFFICES ASSUME NEW j \in Job, row[j].owner \in Worker \ {v},
                    clock < row[j].expires
             PROVE  row'[j] = row[j]
  BY DEF LeavesLeased
<1>1. row \in [Job -> Row] /\ RowOK(row[j]) /\ row[j].owner # NULL
  BY RowsAreOK, RepositoryAssumption DEF IInv, TypeOK
<1>2. /\ ~ Exhausted(row[j], sampled[v])
      /\ ~ Eligible(row[j], sampled[v])
  BY <1>1, ReapLeavesLeased DEF Exhausted, Eligible, RowOK
<1>3. \A now : ~ Holds(row[j], v, now)
  BY DEF Holds
<1>4. CASE Claim(v)
  <2>1. PICK k \in Job : ClaimNextJob(k, v, sampled[v])
    BY <1>4 DEF Claim
  <2>2. k # j
    BY <1>2, <2>1 DEF ClaimNextJob, Oldest
  <2> QED
    BY <1>2, <2>1, <2>2 DEF ClaimNextJob, AfterReap
<1>5. CASE ClaimNone(v)
  BY <1>2, <1>5 DEF ClaimNone, ClaimNothing, AfterReap
<1>6. CASE Record(v)
  BY <1>1, <1>3, <1>6 DEF Record, RecordFailure
<1>7. CASE Commit(v)
  <2>1. row[job[v]].owner = v
    BY <1>7 DEF Commit, IInv, ProcessOK, GateKeepsOwner, HoldsWriteLock
  <2> QED
    BY <1>1, <1>7, <2>1 DEF Commit, PublishSuccess
<1>8. CASE RenewHeld(v)
  BY <1>1, <1>3, <1>8 DEF RenewHeld, RenewLease
<1>9. CASE ~ (Claim(v) \/ ClaimNone(v) \/ Record(v) \/ Commit(v)
              \/ RenewHeld(v))
  <2>1. UNCHANGED row
    BY <1>9 DEF MainStep, RenewerStep, Start, Poll, LoadJob, Stop,
       SweepOrphan, Rest, SweepTmp, SweepOfficial, Stage, ConvertOk,
       StageLost, ConvertFail, DropFailure, AcceptFailure, DropResult,
       KeepResult, Fingerprint, FingerprintFails, GateRefuses, GateHolds,
       Move, MoveFails, CommitFails, Undo, Raise, Unwind, Crash, RenewWake,
       RenewLost, RenewRaises, LateRenew
  <2> QED
    BY <2>1
<1> QED
  BY <1>4, <1>5, <1>6, <1>7, <1>8, <1>9

-----------------------------------------------------------------------------
(* One step of v, seen by another process u.                               *)

SameProcess(u) ==
  /\ clock' = clock
  /\ pc'[u] = pc[u] /\ job'[u] = job[u] /\ fp'[u] = fp[u]
  /\ sampled'[u] = sampled[u] /\ renewer'[u] = renewer[u]

LEMMA OthersStay ==
  ASSUME IInv, NEW v \in Worker, MainStep(v) \/ RenewerStep(v),
         NEW u \in Worker \ {v}
  PROVE  SameProcess(u)
<1> USE DEF SameProcess, procVars, Goto, IInv, TypeOK
<1>1. CASE Start(v) \/ Poll(v) \/ Claim(v) \/ ClaimNone(v) \/ LoadJob(v)
           \/ Stop(v) \/ SweepOrphan(v) \/ Rest(v) \/ SweepTmp(v)
           \/ SweepOfficial(v)
  BY <1>1 DEF Start, Poll, Claim, ClaimNone, LoadJob, Stop, SweepOrphan, Rest,
              SweepTmp, SweepOfficial, ClaimNextJob, ClaimNothing
<1>2. CASE Stage(v) \/ ConvertOk(v) \/ StageLost(v) \/ ConvertFail(v)
           \/ DropFailure(v) \/ AcceptFailure(v) \/ Record(v)
           \/ DropResult(v) \/ KeepResult(v) \/ Fingerprint(v)
           \/ FingerprintFails(v)
  BY <1>2 DEF Stage, ConvertOk, StageLost, ConvertFail, DropFailure,
              AcceptFailure, Record, DropResult, KeepResult, Fingerprint,
              FingerprintFails
<1>3. CASE GateRefuses(v) \/ GateHolds(v) \/ Move(v) \/ MoveFails(v)
           \/ Commit(v) \/ CommitFails(v) \/ Undo(v) \/ Raise(v)
  BY <1>3 DEF GateRefuses, GateHolds, Move, MoveFails, Commit, CommitFails,
              Undo, Raise
<1>4. CASE Unwind(v) \/ Crash(v)
  BY <1>4 DEF Unwind, Crash, Forget
<1>5. CASE RenewerStep(v)
  BY <1>5 DEF RenewerStep, RenewWake, RenewHeld, RenewLost, RenewRaises,
              LateRenew, SetRenewer
<1> QED
  BY <1>1, <1>2, <1>3, <1>4, <1>5 DEF MainStep

-----------------------------------------------------------------------------
(* Up to the end of the clean-up.                                            *)

LEMMA OthersKeepClaims ==
  ASSUME IInv, ClaimInv, NEW v \in Worker, MainStep(v) \/ RenewerStep(v),
         NEW u \in Worker \ {v}
  PROVE  ClaimOK(u)'
<1>1. SameProcess(u) /\ ClaimOK(u) /\ ProcessOK(u)
  BY OthersStay DEF ClaimInv, IInv
<1>2. LeaseIsYoung(u)' /\ RenewsLater(u)'
  BY <1>1 DEF SameProcess, ClaimOK, LeaseIsYoung, RenewsLater
<1>3. LeaseAsClaimed(u)'
  <2>1. SUFFICES ASSUME pc[u] \in Claiming
                 PROVE  row'[job[u]] = row[job[u]]
    BY <1>1 DEF SameProcess, ClaimOK, LeaseAsClaimed
  <2>2. job[u] \in Job
    BY <1>1, <2>1 DEF Claiming, ProcessOK, JobKnown, Working
  <2>3. row[job[u]].owner = u /\ clock < row[job[u]].expires
    BY <1>1, <2>1 DEF ClaimOK, LeaseAsClaimed, LeaseIsYoung
  <2> QED
    BY <2>2, <2>3, StepLeavesLeased DEF LeavesLeased, ClaimInv
<1> QED
  BY <1>2, <1>3 DEF ClaimOK

LEMMA ActorKeepsClaims ==
  ASSUME Prompt, IInv, ClaimInv, NEW v \in Worker,
         MainStep(v) \/ RenewerStep(v)
  PROVE  ClaimOK(v)' /\ late' = {}
<1> USE DEF Goto, Claiming, ClaimOK
<1>1. /\ TypeOK /\ ClaimOK(v) /\ late = {}
      /\ clock \in Nat /\ sampled[v] \in Nat
  BY DEF ClaimInv, IInv, TypeOK, Time
<1>2. CASE Poll(v)
  <2>1. clock < clock + Lease
    BY <1>1, RepositoryAssumption
  <2> QED
    BY <1>1, <1>2, <2>1
       DEF Poll, TypeOK, LeaseIsYoung, LeaseAsClaimed, RenewsLater
<1>3. CASE Claim(v)
  <2>1. PICK k \in Job :
          /\ row' = [AfterReap(sampled[v]) EXCEPT
                       ![k] = Claimed(row[k], v, sampled[v])]
          /\ job' = [job EXCEPT ![v] = k]
    BY <1>3 DEF Claim, ClaimNextJob
  <2>2. row'[k] = Claimed(row[k], v, sampled[v]) /\ job'[v] = k
    BY <1>1, <2>1 DEF AfterReap, TypeOK
  <2>3. row'[k].owner = v /\ row'[k].expires = sampled[v] + Lease
    BY <1>1, <2>2 DEF TypeOK, Claimed, LeaseUntil, Row
  <2> QED
    BY <1>1, <1>3, <2>2, <2>3
       DEF Claim, TypeOK, LeaseIsYoung, LeaseAsClaimed, RenewsLater
<1>4. CASE LoadJob(v) \/ SweepTmp(v)
  BY <1>1, <1>4
     DEF LoadJob, SweepTmp, TypeOK, LeaseIsYoung, LeaseAsClaimed, RenewsLater
<1>5. CASE Unwind(v) \/ Crash(v) \/ Stop(v)
  <2>1. late' = {} /\ pc'[v] \in {"idle", "dead"}
        /\ renewer'[v].state = "off"
    BY <1>1, <1>5
       DEF Unwind, Crash, Stop, Forget, NoThread, Prompt, TypeOK, RenewsLater
  <2> QED
    BY <2>1 DEF LeaseIsYoung, LeaseAsClaimed, RenewsLater
<1>6. CASE RenewerStep(v)
  <2>1. late' = {} /\ UNCHANGED <<clock, pc, job, sampled>>
        /\ renewer[v].state # "off"
    BY <1>1, <1>6 DEF RenewerStep, RenewWake, RenewHeld, RenewLost,
       RenewRaises, LateRenew, procVars
  <2> QED
    BY <1>1, <2>1 DEF LeaseIsYoung, LeaseAsClaimed, RenewsLater
<1>7. CASE Start(v) \/ ClaimNone(v) \/ SweepOrphan(v) \/ Rest(v)
  BY <1>1, <1>7
     DEF Start, ClaimNone, SweepOrphan, Rest, procVars, TypeOK, LeaseIsYoung,
         LeaseAsClaimed, RenewsLater
<1>8. CASE ~ (Poll(v) \/ Claim(v) \/ LoadJob(v) \/ SweepTmp(v)
              \/ Unwind(v) \/ Crash(v) \/ Stop(v) \/ RenewerStep(v)
              \/ Start(v) \/ ClaimNone(v) \/ SweepOrphan(v) \/ Rest(v))
  <2>1. /\ late' = late
        /\ pc'[v] \in {"convert", "staged", "converted", "failed", "record",
                       "fingerprint", "publish", "gated", "moved", "undo",
                       "unwind"}
    BY <1>1, <1>8 DEF MainStep, SweepOfficial, Stage, ConvertOk, StageLost,
       ConvertFail, DropFailure, AcceptFailure, Record, DropResult,
       KeepResult, Fingerprint, FingerprintFails, GateRefuses, GateHolds,
       Move, MoveFails, Commit, CommitFails, Undo, Raise, TypeOK
  <2> QED
    BY <1>1, <2>1 DEF LeaseIsYoung, LeaseAsClaimed, RenewsLater
<1> QED
  BY <1>2, <1>3, <1>4, <1>5, <1>6, <1>7, <1>8

LEMMA TickKeepsClaims ==
  ASSUME Prompt, IInv, ClaimInv, Tick
  PROVE  ClaimInv'
<1>1. /\ UNCHANGED <<row, pc, job, sampled, renewer, late>>
      /\ clock' = clock + 1 /\ \A w \in Worker : StartsInTime(w)
  BY DEF Tick, TimeMayPass, Prompt, procVars
<1>2. ASSUME NEW w \in Worker PROVE ClaimOK(w)'
  <2>1. ClaimOK(w) /\ clock \in Nat /\ sampled[w] \in Nat
    BY DEF ClaimInv, IInv, TypeOK, Time
  <2>2. LeaseIsYoung(w)'
    BY <1>1, <2>1, RepositoryAssumption, WorkerAssumption
       DEF LeaseIsYoung, Claiming, StartsInTime
  <2> QED
    BY <1>1, <2>1, <2>2 DEF ClaimOK, LeaseAsClaimed, RenewsLater
<1> QED
  BY <1>1, <1>2 DEF ClaimInv

LEMMA SubmitKeepsClaims ==
  ASSUME IInv, ClaimInv, NEW j \in Job, Submit(j)
  PROVE  ClaimInv'
<1>1. /\ UNCHANGED <<clock, pc, job, sampled, renewer, late>>
      /\ row[j].status = "absent" /\ row \in [Job -> Row]
      /\ \A k \in Job : k # j => row'[k] = row[k]
  BY DEF Submit, CreateJob, procVars, IInv, TypeOK
<1>2. row[j].owner = NULL
  BY <1>1, RowsAreOK DEF IInv, RowOK
<1>3. ASSUME NEW w \in Worker PROVE ClaimOK(w)'
  <2>1. ClaimOK(w) /\ (pc[w] \in Claiming => job[w] \in Job)
    BY DEF ClaimInv, IInv, ProcessOK, JobKnown, Claiming, Working
  <2>2. pc[w] \in Claiming => row'[job[w]] = row[job[w]]
    BY <1>1, <1>2, <2>1, RepositoryAssumption DEF ClaimOK, LeaseAsClaimed
  <2> QED
    BY <1>1, <2>1, <2>2 DEF ClaimOK, LeaseIsYoung, LeaseAsClaimed, RenewsLater
<1> QED
  BY <1>1, <1>3 DEF ClaimInv

\* ClaimInv is inductive together with IInv: a process that cleans up does so
\* within the lease it claimed, whatever the others do meanwhile.
THEOREM ClaimStep ==
  ASSUME Prompt
  PROVE  IInv /\ ClaimInv /\ [Next]_vars => ClaimInv'
<1> SUFFICES ASSUME IInv, ClaimInv, [Next]_vars PROVE ClaimInv'
  OBVIOUS
<1>1. ASSUME NEW j \in Job, Submit(j) PROVE ClaimInv'
  BY <1>1, SubmitKeepsClaims
<1>2. ASSUME NEW v \in Worker, MainStep(v) \/ RenewerStep(v) PROVE ClaimInv'
  BY <1>2, ActorKeepsClaims, OthersKeepClaims DEF ClaimInv
<1>3. CASE Tick
  BY <1>3, TickKeepsClaims
<1>4. CASE UNCHANGED vars
  BY <1>4 DEF vars, procVars, ClaimInv, ClaimOK, LeaseIsYoung,
     LeaseAsClaimed, RenewsLater
<1> QED
  BY <1>1, <1>2, <1>3, <1>4 DEF Next

\* The finding about the clean-up has no other cause than delay: with every
\* other fault it takes away no file of a succeeded job.
THEOREM SweepsSpareResults ==
  ASSUME Prompt
  PROVE  Spec => SweepSparesResults
<1> DEFINE Spared == \A w \in Worker :
                       pc[w] = "swept" /\ pc'[w] = "convert" =>
                         row[job[w]].status # "succeeded"
<1>1. Init => IInv /\ ClaimInv
  BY InitHolds, InitFiles DEF FileInv
<1>2. (IInv /\ ClaimInv) /\ [Next]_vars => (IInv /\ ClaimInv)'
  BY ClaimStep, StepKeepsIInv
<1>3. IInv /\ ClaimInv => Spared
  <2> SUFFICES ASSUME IInv, ClaimInv, NEW w \in Worker, pc[w] = "swept"
               PROVE  row[job[w]].status # "succeeded"
    OBVIOUS
  <2>1. row[job[w]].owner = w /\ job[w] \in Job
    BY DEF ClaimInv, ClaimOK, LeaseAsClaimed, Claiming, IInv, ProcessOK,
       JobKnown, Working
  <2> QED
    BY <2>1, RowsAreOK, RepositoryAssumption DEF IInv, RowOK
<1>4. IInv /\ ClaimInv => [Spared]_vars
  BY <1>3
<1> QED
  BY <1>1, <1>2, <1>4, PTL DEF Spec, SweepSparesResults

-----------------------------------------------------------------------------
(* Up to the end of the conversion, and of what comes after it.              *)

\* A process that is engaged has a job, and numbers for times.
LEMMA EngagedTypes ==
  ASSUME IInv, NEW w \in Worker
  PROVE  /\ clock \in Nat /\ sampled[w] \in Nat /\ renewer[w].at \in Nat
         /\ Engaged(w) /\ KeepsLease(w) =>
              /\ job[w] \in Job
              /\ row[job[w]].status = "processing"
              /\ row[job[w]].expires \in Nat
<1>1. clock \in Nat /\ sampled[w] \in Nat /\ renewer[w].at \in Nat
  BY DEF IInv, TypeOK, Time, Thread
<1>2. ASSUME Engaged(w), KeepsLease(w)
      PROVE  /\ job[w] \in Job
             /\ row[job[w]].status = "processing"
             /\ row[job[w]].expires \in Nat
  <2>1. job[w] \in Job
    BY <1>2 DEF IInv, ProcessOK, JobKnown, Engaged, Converting, Working
  <2>2. RowOK(row[job[w]]) /\ row[job[w]] \in Row /\ row[job[w]].owner = w
    BY <1>2, <2>1, RowsAreOK DEF IInv, TypeOK, KeepsLease
  <2>3. row[job[w]].status = "processing" /\ row[job[w]].expires # NULL
    BY <2>2, RepositoryAssumption DEF RowOK
  <2> QED
    BY <2>1, <2>2, <2>3, RowFields
<1> QED
  BY <1>1, <1>2

LEMMA OthersKeepLease ==
  ASSUME IInv, ClaimInv, LeaseKept, NEW v \in Worker,
         MainStep(v) \/ RenewerStep(v), NEW u \in Worker \ {v}
  PROVE  StartIsNear(u)' /\ KeepsLease(u)'
<1>1. SameProcess(u) /\ StartIsNear(u) /\ KeepsLease(u)
  BY OthersStay DEF LeaseKept
<1>2. StartIsNear(u)'
  BY <1>1 DEF SameProcess, StartIsNear
<1>3. KeepsLease(u)'
  <2>1. SUFFICES ASSUME Engaged(u)
                 PROVE  row'[job[u]] = row[job[u]]
    BY <1>1 DEF SameProcess, KeepsLease, Engaged, Converting
  <2>2. /\ job[u] \in Job /\ row[job[u]].expires \in Nat
        /\ clock \in Nat /\ renewer[u].at \in Nat
    BY <1>1, <2>1, EngagedTypes
  <2>3. row[job[u]].owner = u /\ clock < row[job[u]].expires
    BY <1>1, <2>1, <2>2 DEF KeepsLease
  <2> QED
    BY <2>2, <2>3, StepLeavesLeased DEF LeavesLeased, ClaimInv
<1> QED
  BY <1>2, <1>3

LEMMA ActorKeepsLease ==
  ASSUME Timely, IInv, ClaimInv, LeaseKept, NEW v \in Worker,
         MainStep(v) \/ RenewerStep(v)
  PROVE  StartIsNear(v)' /\ KeepsLease(v)'
<1> USE DEF Goto, Claiming, Engaged
<1>1. /\ TypeOK /\ ClaimOK(v) /\ late = {}
      /\ StartIsNear(v) /\ KeepsLease(v)
      /\ clock \in Nat /\ sampled[v] \in Nat
      /\ RenewEvery \in Nat /\ Lease \in Nat /\ RenewEvery < Lease
  BY EngagedTypes, WorkerAssumption, RepositoryAssumption
     DEF LeaseKept, ClaimInv, IInv, Timely
<1>2. CASE Poll(v)
  BY <1>1, <1>2 DEF Poll, TypeOK, StartIsNear, KeepsLease, Converting
<1>3. CASE Claim(v) \/ LoadJob(v) \/ SweepTmp(v)
  BY <1>1, <1>3
     DEF Claim, LoadJob, SweepTmp, TypeOK, StartIsNear, KeepsLease, Converting
<1>4. CASE SweepOfficial(v)
  BY <1>1, <1>4
     DEF SweepOfficial, NextRenewal, TypeOK, StartIsNear, KeepsLease,
         Converting, ClaimOK, LeaseAsClaimed
<1>5. CASE RenewWake(v)
  <2>1. /\ UNCHANGED <<clock, row, pc, job, sampled>>
        /\ renewer'[v] = [state |-> "call", at |-> clock]
        /\ clock >= renewer[v].at
    BY <1>1, <1>5 DEF RenewWake, SetRenewer, procVars, TypeOK
  <2>2. KeepsLease(v)'
    <3>1. SUFFICES ASSUME Engaged(v)
                   PROVE  clock < row[job[v]].expires
      BY <1>1, <2>1 DEF KeepsLease, Converting
    <3> QED
      BY <1>1, <2>1, <3>1, EngagedTypes DEF KeepsLease
  <2> QED
    BY <1>1, <2>1, <2>2 DEF StartIsNear
<1>6. CASE RenewHeld(v)
  <2>1. /\ UNCHANGED <<clock, pc, job, sampled>>
        /\ renewer'[v] = [state |-> "wait", at |-> clock + RenewEvery]
        /\ renewer[v].state = "call"
        /\ row' = [row EXCEPT ![job[v]].expires = renewer[v].at + Lease]
    BY <1>1, <1>6 DEF RenewHeld, RenewLease, SetRenewer, NextRenewal,
       LeaseUntil, procVars, TypeOK
  <2>2. KeepsLease(v)'
    <3>1. SUFFICES ASSUME Engaged(v)
                   PROVE  /\ row'[job[v]].owner = v
                          /\ row'[job[v]].expires = clock + Lease
      BY <1>1, <2>1 DEF KeepsLease, Converting
    <3>2. /\ job[v] \in Job /\ renewer[v].at = clock
          /\ row[job[v]].owner = v
      BY <1>1, <2>1, <3>1, EngagedTypes DEF KeepsLease
    <3> QED
      BY <1>1, <2>1, <3>2 DEF TypeOK, Row
  <2> QED
    BY <1>1, <2>1, <2>2 DEF StartIsNear
<1>7. CASE RenewLost(v)
  <2>1. ~ Engaged(v)
    <3>1. SUFFICES ASSUME Engaged(v) PROVE FALSE
      OBVIOUS
    <3>2. /\ row[job[v]].status = "processing"
          /\ row[job[v]].expires \in Nat /\ row[job[v]].owner = v
          /\ renewer[v].at < row[job[v]].expires
      BY <1>1, <3>1, EngagedTypes DEF KeepsLease
    <3> QED
      BY <1>7, <3>2, EngagedTypes, RepositoryAssumption
         DEF RenewLost, Holds
  <2> QED
    BY <1>1, <1>7, <2>1 DEF RenewLost, procVars, StartIsNear, KeepsLease,
       Converting
<1>8. CASE RenewRaises(v) \/ LateRenew(v) \/ Raise(v)
  BY <1>1, <1>8 DEF RenewRaises, LateRenew, Raise, Timely
<1>9. CASE ~ (Poll(v) \/ Claim(v) \/ LoadJob(v) \/ SweepTmp(v)
              \/ SweepOfficial(v) \/ RenewerStep(v) \/ Raise(v))
  <2>1. /\ pc'[v] \notin Claiming \cup {"claim"}
        /\ Engaged(v)' => /\ Engaged(v)
                             /\ UNCHANGED <<clock, row, job, renewer>>
    BY <1>1, <1>9 DEF MainStep, Start, ClaimNone, Stop, SweepOrphan, Rest,
       Stage, ConvertOk, StageLost, ConvertFail, DropFailure, AcceptFailure,
       Record, DropResult, KeepResult, Fingerprint, FingerprintFails,
       GateRefuses, GateHolds, Move, MoveFails, Commit, CommitFails, Undo,
       Unwind, Crash, procVars, Converting, TypeOK
  <2> QED
    BY <1>1, <2>1 DEF StartIsNear, KeepsLease
<1> QED
  BY <1>2, <1>3, <1>4, <1>5, <1>6, <1>7, <1>8, <1>9 DEF RenewerStep

LEMMA TickKeepsLease ==
  ASSUME Timely, IInv, LeaseKept, Tick
  PROVE  LeaseKept'
<1>1. /\ UNCHANGED <<row, pc, job, sampled, renewer>> /\ clock' = clock + 1
      /\ \A w \in Worker : StartsInTime(w) /\ RenewsInTime(w)
  BY DEF Tick, TimeMayPass, Timely, Prompt, procVars
<1>2. ASSUME NEW w \in Worker PROVE StartIsNear(w)' /\ KeepsLease(w)'
  <2>1. /\ StartIsNear(w) /\ KeepsLease(w) /\ clock \in Nat
        /\ sampled[w] \in Nat /\ renewer[w].at \in Nat
        /\ RenewEvery \in Nat /\ Lease \in Nat
    BY EngagedTypes, WorkerAssumption, RepositoryAssumption DEF LeaseKept
  <2>2. StartIsNear(w)'
    BY <1>1, <2>1 DEF StartIsNear, Claiming, StartsInTime
  <2>3. KeepsLease(w)'
    BY <1>1, <2>1 DEF KeepsLease, Engaged, Converting, RenewsInTime
  <2> QED
    BY <2>2, <2>3
<1> QED
  BY <1>1, <1>2 DEF LeaseKept

LEMMA SubmitKeepsLease ==
  ASSUME IInv, LeaseKept, NEW j \in Job, Submit(j)
  PROVE  LeaseKept'
<1>1. /\ UNCHANGED <<clock, pc, job, sampled, renewer>>
      /\ row[j].status = "absent" /\ row \in [Job -> Row]
      /\ \A k \in Job : k # j => row'[k] = row[k]
  BY DEF Submit, CreateJob, procVars, IInv, TypeOK
<1>2. ASSUME NEW w \in Worker, Engaged(w)
      PROVE  row'[job[w]] = row[job[w]]
  BY <1>1, <1>2, EngagedTypes DEF LeaseKept
<1> QED
  BY <1>1, <1>2 DEF LeaseKept, StartIsNear, KeepsLease, Engaged, Converting

\* LeaseKept is inductive together with IInv and ClaimInv: each renewal comes
\* before the end of the lease, and nobody else touches a row with a lease.
THEOREM LeaseStep ==
  ASSUME Timely
  PROVE  IInv /\ ClaimInv /\ LeaseKept /\ [Next]_vars => LeaseKept'
<1> SUFFICES ASSUME IInv, ClaimInv, LeaseKept, [Next]_vars PROVE LeaseKept'
  OBVIOUS
<1>1. ASSUME NEW j \in Job, Submit(j) PROVE LeaseKept'
  BY <1>1, SubmitKeepsLease
<1>2. ASSUME NEW v \in Worker, MainStep(v) \/ RenewerStep(v) PROVE LeaseKept'
  BY <1>2, ActorKeepsLease, OthersKeepLease DEF LeaseKept
<1>3. CASE Tick
  BY <1>3, TickKeepsLease
<1>4. CASE UNCHANGED vars
  BY <1>4 DEF vars, procVars, LeaseKept, StartIsNear, KeepsLease, Converting,
     Engaged, Claiming
<1> QED
  BY <1>1, <1>2, <1>3, <1>4 DEF Next

\* No two live processes convert, fingerprint or publish the same job, though
\* any of them may be killed and any COMMIT may fail.
THEOREM ConvertersAreAlone ==
  ASSUME Timely
  PROVE  Spec => []OneConverter
<1>1. Init => IInv /\ ClaimInv /\ LeaseKept
  BY InitHolds, InitFiles DEF FileInv
<1>2. (IInv /\ ClaimInv /\ LeaseKept) /\ [Next]_vars
        => (IInv /\ ClaimInv /\ LeaseKept)'
  <2>1. Prompt
    BY DEF Timely
  <2> QED
    BY <2>1, ClaimStep, StepKeepsIInv, LeaseStep
<1>3. IInv /\ ClaimInv /\ LeaseKept => OneConverter
  BY DEF LeaseKept, KeepsLease, Engaged, OneConverter
<1> QED
  BY <1>1, <1>2, <1>3, PTL DEF Spec

-----------------------------------------------------------------------------
(* The files of succeeded jobs.                                              *)

\* What a step of v does at official paths: it takes away or puts there only
\* the file of a job that v owns.
LEMMA StepTouchesOwnFile ==
  ASSUME IInv, ClaimInv, UndoOwns, NEW v \in Worker,
         MainStep(v) \/ RenewerStep(v), NEW j \in Job,
         official'[j] # official[j]
  PROVE  row[j].owner = v /\ row'[j] = row[j]
<1>1. official \in [Job -> Bytes \cup {NULL}]
  BY DEF IInv, TypeOK
<1>2. CASE SweepOfficial(v)
  BY <1>1, <1>2
     DEF SweepOfficial, ClaimInv, ClaimOK, LeaseAsClaimed, Claiming
<1>3. CASE Move(v)
  BY <1>1, <1>3
     DEF Move, IInv, ProcessOK, GateKeepsOwner, HoldsWriteLock
<1>4. CASE Undo(v)
  BY <1>1, <1>4 DEF Undo, UndoOwns, fileVars
<1>5. CASE ~ (SweepOfficial(v) \/ Move(v) \/ Undo(v))
  <2>1. UNCHANGED official
    BY <1>1, <1>5 DEF MainStep, RenewerStep, Start, Poll, LoadJob, Stop,
       Claim, ClaimNone, Record, Commit,
       SweepOrphan, Rest, SweepTmp, Stage, ConvertOk,
       StageLost, ConvertFail, DropFailure, AcceptFailure, DropResult,
       KeepResult, Fingerprint, FingerprintFails, GateRefuses, GateHolds,
       MoveFails, CommitFails, Raise, Unwind, Crash, RenewWake,
       RenewHeld, RenewLost, RenewRaises, LateRenew, fileVars
  <2> QED
    BY <2>1
<1> QED
  BY <1>2, <1>3, <1>4, <1>5

\* Only a Commit makes a job succeed.
LEMMA OnlyCommitDelivers ==
  ASSUME IInv, late = {}, NEW v \in Worker, MainStep(v) \/ RenewerStep(v),
         ~ Commit(v), NEW j \in Job, row'[j].status = "succeeded"
  PROVE  row[j].status = "succeeded"
<1>1. row \in [Job -> Row]
  BY DEF IInv, TypeOK
<1>2. ASSUME NEW now \in Nat, AfterReap(now)[j].status = "succeeded"
      PROVE  row[j].status = "succeeded"
  BY <1>1, <1>2 DEF AfterReap, Reaped, Row
<1>3. sampled[v] \in Nat
  BY DEF IInv, TypeOK, Time
<1>4. CASE Claim(v)
  <2>1. PICK k \in Job :
          row' = [AfterReap(sampled[v]) EXCEPT
                    ![k] = Claimed(row[k], v, sampled[v])]
    BY <1>4 DEF Claim, ClaimNextJob
  <2>2. Claimed(row[k], v, sampled[v]).status = "processing"
    BY <1>1 DEF Claimed, Row
  <2>3. row'[j] = AfterReap(sampled[v])[j] \/ j = k
    BY <2>1 DEF AfterReap
  <2>4. j # k
    BY <2>1, <2>2 DEF AfterReap
  <2> QED
    BY <1>2, <1>3, <2>3, <2>4
<1>5. CASE ClaimNone(v)
  BY <1>2, <1>3, <1>5 DEF ClaimNone, ClaimNothing
<1>6. CASE Record(v)
  BY <1>1, <1>6 DEF Record, RecordFailure, FailureRecorded, Row
<1>7. CASE RenewHeld(v)
  BY <1>1, <1>7 DEF RenewHeld, RenewLease, Row
<1>8. CASE ~ (Claim(v) \/ ClaimNone(v) \/ Record(v) \/ RenewHeld(v))
  <2>1. UNCHANGED row
    BY <1>8 DEF MainStep, RenewerStep, Start, Poll, LoadJob, Stop,
       SweepOrphan, Rest, SweepTmp, SweepOfficial, Stage, ConvertOk,
       StageLost, ConvertFail, DropFailure, AcceptFailure, DropResult,
       KeepResult, Fingerprint, FingerprintFails, GateRefuses, GateHolds,
       Move, MoveFails, CommitFails, Undo, Raise, Unwind, Crash, RenewWake,
       RenewLost, RenewRaises, LateRenew
  <2> QED
    BY <2>1
<1> QED
  BY <1>4, <1>5, <1>6, <1>7, <1>8

LEMMA StepKeepsResults ==
  ASSUME IInv, IInv', ClaimInv, UndoOwns, FilesOK, NEW v \in Worker,
         MainStep(v) \/ RenewerStep(v)
  PROVE  SucceededHasFile'
<1> SUFFICES ASSUME NEW j \in Job, row'[j].status = "succeeded"
             PROVE  official'[j] = row'[j].pdf
  BY DEF SucceededHasFile
<1>1. SUFFICES official'[j] # NULL
  BY DEF IInv, TableOK, OfficialIsRegistered
<1>2. CASE row[j].status = "succeeded"
  <2>1. row[j].owner = NULL /\ row[j].pdf # NULL
    BY <1>2, RowsAreOK DEF IInv, RowOK
  <2>2. official[j] = row[j].pdf
    BY <1>2 DEF FilesOK, SucceededHasFile
  <2> QED
    BY <2>1, <2>2, StepTouchesOwnFile, RepositoryAssumption
<1>3. CASE row[j].status # "succeeded"
  <2>1. Commit(v)
    BY <1>3, OnlyCommitDelivers DEF ClaimInv
  <2>2. j = job[v] /\ pc[v] = "moved"
    BY <1>3, <2>1 DEF Commit, PublishSuccess, IInv, TypeOK
  <2>3. official'[j] = fp[v]
    BY <2>1, <2>2 DEF Commit, fileVars, FilesOK, MovedStays
  <2>4. fp[v] = MyBytes(v) /\ MyBytes(v) \in Bytes
    BY <2>2, BytesType DEF IInv, TypeOK, ProcessOK, OwnFingerprint
  <2> QED
    BY <2>3, <2>4, NullAssumption
<1> QED
  BY <1>2, <1>3

LEMMA StepKeepsMoved ==
  ASSUME IInv, ClaimInv, UndoOwns, FilesOK, NEW v \in Worker,
         MainStep(v) \/ RenewerStep(v), NEW u \in Worker
  PROVE  MovedStays(u)'
<1>1. ProcessOK(u) /\ MovedStays(u) /\ TypeOK
  BY DEF IInv, FilesOK
<1>2. CASE u # v
  <2>1. SameProcess(u)
    BY <1>2, OthersStay
  <2>2. SUFFICES ASSUME pc[u] = "moved"
                 PROVE  official'[job[u]] = official[job[u]]
    BY <1>1, <2>1 DEF SameProcess, MovedStays
  <2>3. job[u] \in Job /\ row[job[u]].owner = u
    BY <1>1, <2>2 DEF ProcessOK, JobKnown, Working, GateKeepsOwner,
       HoldsWriteLock
  <2> QED
    BY <1>2, <2>3, StepTouchesOwnFile
<1>3. CASE u = v /\ Move(v)
  <2>1. official'[job[v]] = fp[v]
    BY <1>1, <1>3 DEF Move, TypeOK, ProcessOK, OwnTemp, OwnFingerprint,
       JobKnown, Working
  <2> QED
    BY <1>1, <1>3, <2>1 DEF Move, MovedStays
<1>4. CASE u = v /\ RenewerStep(v)
  BY <1>1, <1>4 DEF RenewerStep, RenewWake, RenewHeld, RenewLost, RenewRaises,
     LateRenew, procVars, fileVars, MovedStays
<1>5. CASE u = v /\ SweepOrphan(v)
  BY <1>1, <1>5 DEF SweepOrphan, procVars, MovedStays
<1>6. CASE u = v /\ ~ (Move(v) \/ RenewerStep(v) \/ SweepOrphan(v))
  <2>1. pc'[v] # "moved"
    BY <1>1, <1>6 DEF MainStep, Start, Poll, Claim, ClaimNone, LoadJob, Stop,
       Rest, SweepTmp, SweepOfficial, Stage, ConvertOk, StageLost,
       ConvertFail, DropFailure, AcceptFailure, Record, DropResult,
       KeepResult, Fingerprint, FingerprintFails, GateRefuses, GateHolds,
       MoveFails, Commit, CommitFails, Undo, Raise, Unwind, Crash, Goto, TypeOK
  <2> QED
    BY <1>6, <2>1 DEF MovedStays
<1> QED
  BY <1>2, <1>3, <1>4, <1>5, <1>6

LEMMA SubmitKeepsFiles ==
  ASSUME IInv, FilesOK, NEW j \in Job, Submit(j)
  PROVE  FilesOK'
<1>1. /\ UNCHANGED <<pc, job, fp, official>>
      /\ row \in [Job -> Row]
      /\ \A k \in Job : k # j => row'[k] = row[k]
      /\ row'[j].status = "pending"
  BY NoRowType DEF Submit, CreateJob, procVars, fileVars, IInv, TypeOK, NoRow
<1> QED
  BY <1>1 DEF FilesOK, SucceededHasFile, MovedStays

\* Without a COMMIT that raises nothing is ever undone.
LEMMA NothingToUndo ==
  ASSUME IInv, "commitError" \notin Faults,
         \A w \in Worker : pc[w] # "undo",
         NEW v \in Worker, MainStep(v) \/ RenewerStep(v)
  PROVE  \A w \in Worker : pc'[w] # "undo"
<1> SUFFICES ASSUME NEW w \in Worker PROVE pc'[w] # "undo"
  OBVIOUS
<1>1. CASE w # v
  BY <1>1, OthersStay DEF SameProcess
<1>2. CASE w = v
  BY <1>2 DEF IInv, TypeOK, MainStep, RenewerStep, Start, Poll, Claim,
     ClaimNone, LoadJob, Stop, SweepOrphan,
     Rest, SweepTmp, SweepOfficial, Stage, ConvertOk, StageLost,
     ConvertFail, DropFailure, AcceptFailure, Record, DropResult,
     KeepResult, Fingerprint, FingerprintFails, GateRefuses, GateHolds, Move,
     MoveFails, Commit, CommitFails, Undo, Raise, Unwind, Crash, RenewWake,
     RenewHeld, RenewLost, RenewRaises, LateRenew, Goto, procVars
<1> QED
  BY <1>1, <1>2

LEMMA FileInvUndoes ==
  ASSUME Lossless, FileInv
  PROVE  UndoOwns
BY DEF Lossless, FileInv, LeaseKept, KeepsLease, Engaged, UndoOwns

\* Files of succeeded jobs and of processes about to commit stay, given that
\* clean-up and undo happen under the lease.
LEMMA WorkerKeepsFiles ==
  ASSUME Lossless, IInv, FileInv, NEW v \in Worker,
         MainStep(v) \/ RenewerStep(v)
  PROVE  FilesOK'
<1>1. IInv' /\ UndoOwns /\ ClaimInv /\ FilesOK
  BY StepKeepsIInv, FileInvUndoes DEF Next, FileInv
<1> QED
  BY <1>1, StepKeepsResults, StepKeepsMoved DEF FilesOK

-----------------------------------------------------------------------------
(* What follows. *)

\* FileInv is inductive together with IInv: whoever removes an official file,
\* be it to clean up or to undo, owns its job, and a job that succeeded has no
\* owner.
THEOREM FileStep ==
  ASSUME Lossless
  PROVE  IInv /\ FileInv /\ [Next]_vars => FileInv'
<1> SUFFICES ASSUME IInv, FileInv, [Next]_vars PROVE FileInv'
  OBVIOUS
<1>1. ClaimInv'
  BY ClaimStep DEF Lossless, FileInv
<1>2. Timely => LeaseKept'
  BY LeaseStep DEF FileInv
<1>3. /\ "commitError" \notin Faults => \A w \in Worker : pc'[w] # "undo"
      /\ FilesOK'
  <2>1. ASSUME NEW j \in Job, Submit(j)
        PROVE  UNCHANGED pc /\ FilesOK'
    BY <2>1, SubmitKeepsFiles DEF Submit, procVars, FileInv
  <2>2. ASSUME NEW v \in Worker, MainStep(v) \/ RenewerStep(v)
        PROVE  /\ "commitError" \notin Faults =>
                     \A w \in Worker : pc'[w] # "undo"
               /\ FilesOK'
    BY <2>2, WorkerKeepsFiles, NothingToUndo DEF FileInv
  <2>3. CASE Tick \/ UNCHANGED vars
    BY <2>3 DEF Tick, vars, procVars, fileVars, FileInv, FilesOK,
       SucceededHasFile, MovedStays
  <2> QED
    BY <2>1, <2>2, <2>3 DEF Next, FileInv
<1> QED
  BY <1>1, <1>2, <1>3 DEF FileInv

LEMMA FilesAreKept ==
  ASSUME Lossless
  PROVE  Spec => [](IInv /\ FileInv)
<1>1. Init => IInv /\ FileInv
  BY InitHolds, InitFiles
<1>2. (IInv /\ FileInv) /\ [Next]_vars => (IInv /\ FileInv)'
  BY FileStep, StepKeepsIInv
<1> QED
  BY <1>1, <1>2, PTL DEF Spec

\* A succeeded job keeps its file: no clean-up of a later attempt, of another
\* process or after a crash removes it, and no undo of a COMMIT that failed.
THEOREM ResultsStay ==
  ASSUME Lossless
  PROVE  Spec => []SucceededHasFile
<1>1. IInv /\ FileInv => SucceededHasFile
  BY DEF FileInv, FilesOK
<1> QED
  BY <1>1, FilesAreKept, PTL

\* The undo of a COMMIT that failed takes away no file of a succeeded job as
\* long as renewals are in time: the process still has its lease then, although
\* it has no lock.
THEOREM UndosSpareResults ==
  ASSUME Timely
  PROVE  Spec => UndoSparesResults
<1> DEFINE Spared == \A w \in Worker :
                       /\ pc[w] = "undo" /\ pc'[w] = "unwind"
                       /\ row[job[w]].status = "succeeded"
                       => official'[job[w]] = official[job[w]]
<1>1. IInv /\ FileInv => Spared
  <2> SUFFICES ASSUME IInv, FileInv, NEW w \in Worker, pc[w] = "undo"
               PROVE  row[job[w]].status # "succeeded"
    OBVIOUS
  <2>1. row[job[w]].owner = w /\ job[w] \in Job
    BY FileInvUndoes DEF Timely, Lossless, UndoOwns, IInv, ProcessOK, JobKnown, Working
  <2> QED
    BY <2>1, RowsAreOK, RepositoryAssumption DEF IInv, RowOK
<1>2. IInv /\ FileInv => [Spared]_vars
  BY <1>1
<1>3. Lossless
  BY DEF Timely, Lossless
<1> QED
  BY <1>2, <1>3, FilesAreKept, PTL DEF Spec, UndoSparesResults

-----------------------------------------------------------------------------
(* Renewals.                                                                 *)

\* No renewal waits: it runs in the tick that it was begun in.
Punctual == "slowRenew" \notin Faults

CallsNow(w) == renewer[w].state = "call" => renewer[w].at = clock

\* A lease ends at most one lease from now.
LeaseWithin(j) == row[j].owner # NULL => row[j].expires <= clock + Lease

RenewalInv ==
  /\ late = {}
  /\ \A w \in Worker : CallsNow(w)
  /\ \A j \in Job : LeaseWithin(j)

\* What a step of v may do to a lease: end it, begin it, or renew it.
LeaseMoves(v, j) ==
  \/ row'[j] = row[j]
  \/ row'[j].owner = NULL
  \/ /\ row'[j].attempts = row[j].attempts + 1
     /\ row'[j].expires = sampled[v] + Lease
  \/ /\ renewer[v].state = "call"
     /\ row'[j] = [row[j] EXCEPT !.expires = renewer[v].at + Lease]

LEMMA StepMovesLease ==
  ASSUME IInv, late = {}, NEW v \in Worker, MainStep(v) \/ RenewerStep(v),
         NEW j \in Job
  PROVE  LeaseMoves(v, j)
<1> USE DEF LeaseMoves
<1>1. row \in [Job -> Row] /\ row[j] \in Row
  BY DEF IInv, TypeOK
<1>2. \A now : AfterReap(now)[j] = row[j] \/ AfterReap(now)[j].owner = NULL
  BY <1>1 DEF AfterReap, Reaped, Row
<1>3. CASE Claim(v)
  <2>1. PICK k \in Job :
          row' = [AfterReap(sampled[v]) EXCEPT
                    ![k] = Claimed(row[k], v, sampled[v])]
    BY <1>3 DEF Claim, ClaimNextJob
  <2>2. CASE j = k
    <3>1. row'[j] = Claimed(row[j], v, sampled[v])
      BY <2>1, <2>2 DEF AfterReap
    <3> QED
      BY <1>1, <3>1 DEF Claimed, LeaseUntil, Row
  <2>3. CASE j # k
    BY <1>2, <2>1, <2>3 DEF AfterReap
  <2> QED
    BY <2>2, <2>3
<1>4. CASE ClaimNone(v)
  BY <1>2, <1>4 DEF ClaimNone, ClaimNothing
<1>5. CASE Record(v)
  BY <1>1, <1>5 DEF Record, RecordFailure, FailureRecorded, Row
<1>6. CASE Commit(v)
  BY <1>1, <1>6 DEF Commit, PublishSuccess, Published, Row
<1>7. CASE RenewHeld(v)
  BY <1>1, <1>7 DEF RenewHeld, RenewLease, LeaseUntil
<1>8. CASE ~ (Claim(v) \/ ClaimNone(v) \/ Record(v) \/ Commit(v)
              \/ RenewHeld(v))
  <2>1. UNCHANGED row
    BY <1>8 DEF MainStep, RenewerStep, Start, Poll, LoadJob, Stop,
       SweepOrphan, Rest, SweepTmp, SweepOfficial, Stage, ConvertOk,
       StageLost, ConvertFail, DropFailure, AcceptFailure, DropResult,
       KeepResult, Fingerprint, FingerprintFails, GateRefuses, GateHolds,
       Move, MoveFails, CommitFails, Undo, Raise, Unwind, Crash, RenewWake,
       RenewLost, RenewRaises, LateRenew
  <2> QED
    BY <2>1
<1> QED
  BY <1>3, <1>4, <1>5, <1>6, <1>7, <1>8

\* The numbers in a lease and its renewal.
LEMMA LeaseNumbers ==
  ASSUME IInv, NEW j \in Job
  PROVE  /\ row[j] \in Row /\ clock \in Nat /\ Lease \in Nat
         /\ row[j].attempts \in Nat
         /\ row[j].owner # NULL => row[j].expires \in Nat
         /\ \A w \in Worker : /\ sampled[w] \in Nat /\ sampled[w] <= clock
                              /\ renewer[w].at \in Nat
<1>1. row[j] \in Row /\ RowOK(row[j])
  BY RowsAreOK DEF IInv, TypeOK
<1>2. row[j].attempts \in Nat /\ (row[j].owner # NULL => row[j].expires \in Nat)
  BY <1>1, RowFields DEF RowOK
<1>3. \A w \in Worker : /\ sampled[w] \in Nat /\ sampled[w] <= clock
                        /\ renewer[w].at \in Nat
  BY DEF IInv, TypeOK, ProcessOK, Time, Thread
<1> QED
  BY <1>1, <1>2, <1>3, RepositoryAssumption DEF IInv, TypeOK, Time

LEMMA StepKeepsRenewals ==
  ASSUME Punctual, IInv, RenewalInv, NEW v \in Worker,
         MainStep(v) \/ RenewerStep(v)
  PROVE  RenewalInv'
<1>1. TypeOK /\ late = {} /\ clock' = clock
  <2>1. UNCHANGED clock
    BY DEF MainStep, RenewerStep, Start, Poll, Claim, ClaimNone, LoadJob, Stop,
       SweepOrphan, Rest, SweepTmp, SweepOfficial, Stage, ConvertOk,
       StageLost, ConvertFail, DropFailure, AcceptFailure, Record, DropResult,
       KeepResult, Fingerprint, FingerprintFails, GateRefuses, GateHolds,
       Move, MoveFails, Commit, CommitFails, Undo, Raise, Unwind, Crash,
       RenewWake, RenewHeld, RenewLost, RenewRaises, LateRenew
  <2> QED
    BY <2>1 DEF IInv, RenewalInv
<1>2. \A u \in Worker \ {v} : CallsNow(u)'
  BY OthersStay DEF SameProcess, RenewalInv, CallsNow
<1>3. CallsNow(v)' /\ late' = {}
  <2>1. CASE SweepOfficial(v) \/ Unwind(v) \/ Crash(v) \/ Stop(v)
    BY <1>1, <2>1 DEF SweepOfficial, Unwind, Crash, Stop, Forget, NoThread,
       Punctual, RenewalInv, CallsNow, TypeOK
  <2>2. CASE RenewerStep(v)
    BY <1>1, <2>2 DEF RenewerStep, RenewWake, RenewHeld, RenewLost,
       RenewRaises, LateRenew, SetRenewer, CallsNow, TypeOK
  <2>3. CASE ~ (SweepOfficial(v) \/ Unwind(v) \/ Crash(v) \/ Stop(v)
                \/ RenewerStep(v))
    <3>1. UNCHANGED <<renewer, late>>
      BY <2>3 DEF MainStep, Start, Poll, Claim, ClaimNone, LoadJob,
         SweepOrphan, Rest, SweepTmp, Stage, ConvertOk,
         StageLost, ConvertFail, DropFailure, AcceptFailure, Record,
         DropResult, KeepResult, Fingerprint, FingerprintFails, GateRefuses,
         GateHolds, Move, MoveFails, Commit, CommitFails, Undo, Raise, procVars
    <3> QED
      BY <1>1, <3>1 DEF RenewalInv, CallsNow
  <2> QED
    BY <2>1, <2>2, <2>3
<1>4. ASSUME NEW j \in Job PROVE LeaseWithin(j)'
  <2>1. LeaseMoves(v, j) /\ LeaseWithin(j) /\ CallsNow(v)
    BY StepMovesLease DEF RenewalInv
  <2> QED
    BY <1>1, <2>1, LeaseNumbers DEF LeaseMoves, LeaseWithin, CallsNow, Row
<1> QED
  BY <1>2, <1>3, <1>4 DEF RenewalInv

LEMMA RenewalStep ==
  ASSUME Punctual
  PROVE  IInv /\ RenewalInv /\ [Next]_vars => RenewalInv'
<1> SUFFICES ASSUME IInv, RenewalInv, [Next]_vars PROVE RenewalInv'
  OBVIOUS
<1>1. ASSUME NEW j \in Job, Submit(j) PROVE RenewalInv'
  <2>1. /\ UNCHANGED <<clock, renewer, late>> /\ row \in [Job -> Row]
        /\ \A k \in Job : k # j => row'[k] = row[k]
        /\ row'[j].owner = NULL
    BY <1>1, NoRowType DEF Submit, CreateJob, procVars, NoRow, IInv, TypeOK
  <2> QED
    BY <2>1 DEF RenewalInv, CallsNow, LeaseWithin
<1>2. ASSUME NEW v \in Worker, MainStep(v) \/ RenewerStep(v)
      PROVE  RenewalInv'
  BY <1>2, StepKeepsRenewals
<1>3. CASE Tick
  <2>1. /\ UNCHANGED <<row, renewer, late>> /\ clock' = clock + 1
        /\ \A w \in Worker : RenewsInTime(w)
    BY <1>3 DEF Tick, TimeMayPass, Punctual
  <2>2. \A w \in Worker : CallsNow(w)'
    BY <2>1 DEF RenewsInTime, CallsNow
  <2>3. ASSUME NEW j \in Job PROVE LeaseWithin(j)'
    BY <2>1, LeaseNumbers DEF RenewalInv, LeaseWithin
  <2> QED
    BY <2>1, <2>2, <2>3 DEF RenewalInv
<1>4. CASE UNCHANGED vars
  BY <1>4 DEF vars, RenewalInv, CallsNow, LeaseWithin
<1> QED
  BY <1>1, <1>2, <1>3, <1>4 DEF Next

\* The finding about renewals has no other cause than the call that stop()
\* leaves behind: with every other fault renew_lease only extends.
THEOREM RenewalsExtend ==
  ASSUME Punctual
  PROVE  Spec => RenewalExtends
<1> DEFINE Extended == \A j \in Job :
                         /\ row[j].owner # NULL
                         /\ row'[j].owner = row[j].owner
                         /\ row'[j].attempts = row[j].attempts
                         => row'[j].expires >= row[j].expires
<1>1. Init => IInv /\ RenewalInv
  <2>1. Init => RenewalInv
    BY DEF Init, RowInit, NoRow, NoThread, RenewalInv, CallsNow, LeaseWithin
  <2> QED
    BY <2>1, InitHolds
<1>2. (IInv /\ RenewalInv) /\ [Next]_vars => (IInv /\ RenewalInv)'
  BY RenewalStep, StepKeepsIInv
<1>3. IInv /\ RenewalInv /\ [Next]_vars => Extended
  <2> SUFFICES ASSUME IInv, RenewalInv, [Next]_vars, NEW j \in Job,
                      row[j].owner # NULL, row'[j].owner = row[j].owner,
                      row'[j].attempts = row[j].attempts
               PROVE  row'[j].expires >= row[j].expires
    OBVIOUS
  <2>1. ASSUME NEW v \in Worker, MainStep(v) \/ RenewerStep(v)
        PROVE  row'[j].expires >= row[j].expires
    <3>1. LeaseMoves(v, j) /\ LeaseWithin(j) /\ CallsNow(v)
      BY <2>1, StepMovesLease DEF RenewalInv
    <3> QED
      BY <3>1, LeaseNumbers DEF LeaseMoves, LeaseWithin, CallsNow, Row
  <2>2. CASE \E k \in Job : Submit(k)
    <3>1. PICK k \in Job : Submit(k)
      BY <2>2
    <3>2. j # k
      BY <3>1, RowsAreOK DEF Submit, CreateJob, IInv, RowOK
    <3> QED
      BY <3>1, <3>2, LeaseNumbers DEF Submit, CreateJob, IInv, TypeOK
  <2>3. CASE Tick \/ UNCHANGED vars
    BY <2>3, LeaseNumbers DEF Tick, vars
  <2> QED
    BY <2>1, <2>2, <2>3 DEF Next
<1>4. IInv /\ RenewalInv => [[Next]_vars => Extended]_vars
  BY <1>3
<1> QED
  BY <1>1, <1>2, <1>4, PTL DEF Spec, RenewalExtends
=============================================================================
