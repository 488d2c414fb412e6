------------------------------ MODULE Progress ------------------------------
(***************************************************************************)
(* The worker processes of module Worker for as long as the queue runs:    *)
(* without an end of time, with processes that are started again, with a   *)
(* stream of jobs that does not end, and with the fairness under which a   *)
(* job must end too.                                                       *)
(*                                                                         *)
(* The statements only compare times with each other and with now.  The    *)
(* clock therefore stands still at MaxClock, and when time passes every    *)
(* time on record moves one tick into the past (Age).  A time that is so   *)
(* far back that no comparison can tell it from an earlier one stays where *)
(* it is, so that the states are finite.                                   *)
(***************************************************************************)
EXTENDS Worker, FiniteSets

CONSTANTS
  Ghost,    \* the owner id of every process of the past
  Recycle   \* whether the id of a job that ended may stand for a new job

ASSUME ProgressAssumption ==
  /\ Ghost \in Worker
  /\ Recycle \in BOOLEAN
  /\ IsFiniteSet(Job)
  /\ MaxClock \in Nat \ {0}
  /\ Lease <= MaxClock + RenewEvery + 1   \* the depth of StartsInTime

\* The places where a worker process runs, one process at a time in each.
Slot == Worker \ {Ghost}

ProgressInit ==
  /\ clock = MaxClock
  /\ row = [j \in Job |-> NoRow]
  /\ pc = [w \in Worker |-> IF w = Ghost THEN "dead" ELSE "new"]
  /\ job = [w \in Worker |-> NULL]
  /\ seen = [w \in Worker |-> NoRow]
  /\ sampled = [w \in Worker |-> 0]
  /\ fp = [w \in Worker |-> NULL]
  /\ renewer = [w \in Worker |-> NoThread]
  /\ late = {}
  /\ tmp = [p \in {} |-> NULL]
  /\ official = [j \in Job |-> NULL]

-----------------------------------------------------------------------------
(* The passage of time.                                                      *)

Earlier(t, floor) == IF t > floor THEN t - 1 ELSE floor

\* Of created_at only the order counts: its rank among the rows.
Rank(j) ==
  Cardinality({row[k].created : k \in {i \in Job :
                 row[i].status # "absent" /\ row[i].created < row[j].created}})

Aged(r, rank) ==
  [r EXCEPT !.expires = IF @ = NULL THEN NULL ELSE Earlier(@, 0),
            !.created = rank]

\* A call that waits for the write lock gives up after its busy timeout, so
\* the time that it sampled is never further back than the comparisons reach.
CallTimes ==
  {sampled[w] : w \in {v \in Worker : pc[v] \in {"claim", "record", "publish"}}}
  \cup {renewer[w].at : w \in {v \in Worker : renewer[v].state = "call"}}
  \cup {call.at : call \in late}

Age ==
  /\ TimeMayPass
  /\ \A t \in CallTimes : t > 1
  /\ row' = [j \in Job |-> Aged(row[j], Rank(j))]
  /\ seen' = [w \in Worker |-> Aged(seen[w], 0)]
  /\ sampled' = [w \in Worker |-> Earlier(sampled[w], 0)]
  /\ renewer' = [w \in Worker |->
                   IF renewer[w].state \in {"wait", "call"}
                   THEN [renewer[w] EXCEPT !.at = Earlier(@, 1)]
                   ELSE renewer[w]]
  /\ late' = {[call EXCEPT !.at = @ - 1] : call \in late}
  /\ UNCHANGED <<clock, pc, job, fp, fileVars>>

-----------------------------------------------------------------------------
(* Processes and jobs that come after others.                                *)

\* A process is started where one ended.  Its owner id is a fresh uuid: what
\* the rows say of the old one is about nobody who lives.
Restart(w) ==
  /\ w \in Slot
  /\ pc[w] = "dead"
  /\ Goto(w, "new")
  /\ row' = [j \in Job |-> [row[j] EXCEPT !.owner = IF @ = w THEN Ghost ELSE @]]
  /\ UNCHANGED <<clock, job, seen, sampled, fp, renewer, late, fileVars>>

\* The API inserts a row.
Upload(j) ==
  /\ WriteLockFree
  /\ CreateJob(j, clock)
  /\ UNCHANGED <<clock, procVars, renewer, late, fileVars>>

\* Rows stay for ever and ids are not used again; but a job that has ended and
\* that nobody works on takes part in nothing any more, so its id is free to
\* stand for the next one.
Retire(j) ==
  /\ Recycle
  /\ row[j].status \in {"succeeded", "failed"}
  /\ \A w \in Worker : job[w] # j
  /\ \A call \in late : call.job # j
  /\ row' = [row EXCEPT ![j] = NoRow]
  /\ tmp' = Without({p \in DOMAIN tmp : p.job = j})
  /\ official' = [official EXCEPT ![j] = NULL]
  /\ UNCHANGED <<clock, procVars, renewer, late>>

-----------------------------------------------------------------------------
ProgressNext ==
  \/ \E j \in Job : Upload(j) \/ Retire(j)
  \/ \E w \in Slot : MainStep(w) \/ RenewerStep(w) \/ Restart(w)
  \/ Age

\* What a process does between two claims unless it is killed, stopped or hit
\* by an error.
Proceed(w) ==
  \/ Start(w) \/ LoadJob(w) \/ Rest(w)
  \/ SweepTmp(w) \/ SweepOfficial(w)
  \/ Stage(w) \/ ConvertOk(w) \/ StageLost(w) \/ ConvertFail(w)
  \/ DropFailure(w) \/ AcceptFailure(w) \/ Record(w)
  \/ DropResult(w) \/ KeepResult(w) \/ Fingerprint(w) \/ FingerprintFails(w)
  \/ GateRefuses(w) \/ GateHolds(w) \/ Move(w) \/ MoveFails(w)
  \/ Commit(w) \/ Undo(w) \/ Unwind(w)

Renew(w) == RenewWake(w) \/ RenewHeld(w) \/ RenewLost(w) \/ LateRenew(w)

\* Time passes; a process that ended is started again; no statement waits for
\* ever for a write lock that is free again and again; no fault hits the same
\* step for ever; and a worker that finds no job again and again has, in the
\* end, waited for the hour after which it sweeps.
Fairness ==
  /\ SF_vars(Age)
  /\ \A w \in Slot :
       /\ WF_vars(Restart(w))
       /\ SF_vars(Poll(w))
       /\ SF_vars(Claim(w) \/ ClaimNone(w))
       /\ SF_vars(Proceed(w))
       /\ SF_vars(SweepOrphan(w))
       /\ WF_vars(Renew(w))

ProgressSpec == ProgressInit /\ [][ProgressNext]_vars /\ Fairness
=============================================================================
