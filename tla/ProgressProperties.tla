-------------------------- MODULE ProgressProperties --------------------------
(***************************************************************************)
(* What must happen in the end.                                            *)
(***************************************************************************)
EXTENDS Progress, WorkerProperties

\* Every job that was accepted ends succeeded or failed, whatever is killed,
\* delayed or fails, and however many jobs come after it: a job whose worker
\* died is retried or given up by a later claim, and a job that waits is
\* claimed before the jobs that were uploaded later.
EveryJobEnds ==
  \A j \in Job :
    row[j].status \in {"pending", "processing"}
      ~> row[j].status \in {"succeeded", "failed"}

\* A job with an attempt left is delivered once nothing goes wrong any more,
\* even if its worker was killed at any place before: the retry finds the
\* lease over, cleans up, and publishes.
Undisturbed == \A w \in Slot : pc[w] \notin {"failed", "dead"}
RetryDelivers ==
  \A j \in Job :
    [](/\ row[j].status \in {"pending", "processing"}
       /\ row[j].attempts < MaxAttempts
       /\ []Undisturbed
       => <>(row[j].status = "succeeded"))

\* What an attempt left in the tmp directory is removed in the end, also when
\* its job was given up and no later attempt cleans up after it.
ResidueVanishes ==
  \A j \in Job :
    []<>(\A p \in DOMAIN tmp : p.job # j)
=============================================================================
