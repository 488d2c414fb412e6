---------------------------- MODULE JobLifecycle ----------------------------
(***************************************************************************)
(* What the render queue promises about a job, with no worker, lease, file *)
(* or clock in sight: a submitted job is attempted at most MaxAttempts     *)
(* times, ends succeeded or failed and never leaves that end, and its      *)
(* result is the product of the attempt that was the last one to start.    *)
(***************************************************************************)
EXTENDS Integers

CONSTANTS Job, MaxAttempts

VARIABLE state     \* state[j].result is the attempt that was published, or 0

Status == {"absent", "pending", "processing", "succeeded", "failed"}

State == [status : Status, attempts : 0 .. MaxAttempts,
          result : 0 .. MaxAttempts]

Init == state = [j \in Job |-> [status |-> "absent", attempts |-> 0,
                                result |-> 0]]

\* The ways in which one job may go from s to t.

Submitted(s, t) ==
  /\ s.status = "absent"
  /\ t = [s EXCEPT !.status = "pending"]

\* A pending job is started, or a job being processed is started again.
Attempted(s, t) ==
  /\ s.status \in {"pending", "processing"}
  /\ s.attempts < MaxAttempts
  /\ t = [status |-> "processing", attempts |-> s.attempts + 1,
           result |-> s.result]

Finished(s, t) ==
  /\ s.status = "processing"
  /\ t = [status |-> "succeeded", attempts |-> s.attempts,
           result |-> s.attempts]

Requeued(s, t) ==
  /\ s.status = "processing"
  /\ s.attempts < MaxAttempts
  /\ t = [s EXCEPT !.status = "pending"]

GivenUp(s, t) ==
  /\ s.status = "processing"
  /\ s.attempts = MaxAttempts
  /\ t = [s EXCEPT !.status = "failed"]

\* One claim may give up several jobs and start another, so a step is a
\* change of any set of jobs.
Next ==
  /\ state' \in [Job -> State]
  /\ \A j \in Job :
       \/ state'[j] = state[j]
       \/ Submitted(state[j], state'[j])
       \/ Attempted(state[j], state'[j])
       \/ Finished(state[j], state'[j])
       \/ Requeued(state[j], state'[j])
       \/ GivenUp(state[j], state'[j])

Spec == Init /\ [][Next]_state
=============================================================================
