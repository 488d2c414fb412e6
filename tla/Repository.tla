----------------------------- MODULE Repository -----------------------------
(***************************************************************************)
(* The jobs table of app/models.py and the lease protocol that             *)
(* app/repository.py runs on it: every SQL statement is an operator on a   *)
(* row, or an action on the table.  Each action is one committed           *)
(* transaction; SQLite admits one writer at a time, so it is atomic.       *)
(*                                                                         *)
(* The statements compare the lease with a time that the caller sampled    *)
(* BEFORE the transaction obtained the write lock (now = now_utc() is the  *)
(* first line of each function).  The actions therefore take that time as  *)
(* the parameter now, and never read the clock themselves.                 *)
(***************************************************************************)
EXTENDS Integers

CONSTANTS
  Job,          \* job ids (uuid4, never reused)
  Worker,       \* owner ids: one per worker PROCESS, a restart gets a new one
  MaxAttempts,  \* settings.max_attempts
  Lease,        \* settings.lease_seconds, in ticks
  NULL          \* SQL NULL and Python None

VARIABLES
  clock,        \* the wall clock shared by every process of the host
  row           \* the jobs table

ASSUME RepositoryAssumption ==
  /\ MaxAttempts \in Nat \ {0}
  /\ Lease \in Nat \ {0}
  /\ NULL \notin Nat
  /\ NULL \notin Worker
  /\ NULL \notin Job

(***************************************************************************)
(* The bytes one conversion produced, which is also what their size and    *)
(* SHA-256 identify: LibreOffice stamps every document it renders, so two  *)
(* conversions never produce the same file.                                *)
(***************************************************************************)
Bytes == [owner : Worker, attempt : Nat]

Status == {"absent", "pending", "processing", "succeeded", "failed"}

\* error_code and error_message as one value: the two reasons that the code
\* stores, both under the code CONVERSION_FAILED.
Error == {"render", "lost"}

ASSUME NullAssumption == NULL \notin Bytes \cup Error

Row == [status   : Status,
        attempts : Nat,
        owner    : Worker \cup {NULL},    \* lease_owner
        expires  : Nat \cup {NULL},       \* lease_expires_at
        pdf      : Bytes \cup {NULL},     \* pdf_path, pdf_size, pdf_sha256
        error    : Error \cup {NULL},
        created  : Nat]                   \* created_at

\* No row with that id (status "absent" stands for its absence).
NoRow == [status |-> "absent", attempts |-> 0, owner |-> NULL,
          expires |-> NULL, pdf |-> NULL, error |-> NULL, created |-> 0]

RowInit == clock = 0 /\ row = [j \in Job |-> NoRow]

-----------------------------------------------------------------------------
\* WHERE clauses.  A definition that comes right before the one it resembles,
\* here and below, is a faulty variant of it: nothing uses it but the tests
\* that a property notices the fault.

\* status = 'processing' AND lease_expires_at < :now
ExpiredAtBoundary(r, now) ==
  /\ r.status = "processing"
  /\ r.expires # NULL
  /\ r.expires <= now
Expired(r, now) ==
  /\ r.status = "processing"
  /\ r.expires # NULL
  /\ r.expires < now

\* ... AND attempts >= :max
ExhaustedLate(r, now) == Expired(r, now) /\ r.attempts > MaxAttempts
Exhausted(r, now) == Expired(r, now) /\ r.attempts >= MaxAttempts

\* The sub-select of the claim.
EligibleOnce(r, now) == r.status = "pending"
EligibleForever(r, now) == r.status = "pending" \/ Expired(r, now)
EligibleWhenFailed(r, now) ==
  \/ r.status \in {"pending", "failed"}
  \/ Expired(r, now) /\ r.attempts < MaxAttempts
EligibleWhenHeld(r, now) ==
  \/ r.status = "pending"
  \/ r.status = "processing" /\ r.attempts < MaxAttempts
Eligible(r, now) ==
  \/ r.status = "pending"
  \/ Expired(r, now) /\ r.attempts < MaxAttempts

\* lease_owner = :owner AND status = 'processing' AND lease_expires_at > :now
HoldsAnyOwner(r, owner, now) ==
  /\ r.status = "processing"
  /\ r.expires # NULL
  /\ r.expires > now
Holds(r, owner, now) ==
  /\ r.owner = owner
  /\ r.status = "processing"
  /\ r.expires # NULL
  /\ r.expires > now

-----------------------------------------------------------------------------
\* SET clauses: the row after the UPDATE.

LeaseUntilReversed(now) == now - Lease
LeaseUntil(now) == now + Lease

Reaped(r) ==
  [r EXCEPT !.status = "failed", !.owner = NULL, !.expires = NULL,
            !.error = "lost"]

Claimed(r, owner, now) ==
  [r EXCEPT !.status = "processing", !.owner = owner,
            !.expires = LeaseUntil(now), !.attempts = @ + 1]

PublishedKeepingError(r, pdf) ==
  [r EXCEPT !.status = "succeeded", !.pdf = pdf, !.owner = NULL,
            !.expires = NULL]
Published(r, pdf) ==
  [r EXCEPT !.status = "succeeded", !.pdf = pdf, !.owner = NULL,
            !.expires = NULL, !.error = NULL]

\* new_status: the last allowed attempt is terminal, an earlier one requeues.
FailureRecordedEarly(r, attempts) ==
  [r EXCEPT !.status = IF attempts + 1 >= MaxAttempts THEN "failed"
                       ELSE "pending",
            !.owner = NULL, !.expires = NULL, !.error = "render"]
FailureRecorded(r, attempts) ==
  [r EXCEPT !.status = IF attempts >= MaxAttempts THEN "failed" ELSE "pending",
            !.owner = NULL, !.expires = NULL, !.error = "render"]

-----------------------------------------------------------------------------
\* Transactions.

\* created_at is a default, evaluated before the INSERT is sent.
CreateJob(j, now) ==
  /\ row[j].status = "absent"
  /\ row' = [row EXCEPT ![j] = [NoRow EXCEPT !.status = "pending",
                                             !.created = now]]

AfterReap(now) ==
  [j \in Job |-> IF Exhausted(row[j], now) THEN Reaped(row[j]) ELSE row[j]]

\* ORDER BY created_at, id LIMIT 1; ids are random, so a tie may go either way.
Newest(j, now) ==
  /\ Eligible(row[j], now)
  /\ \A k \in Job : Eligible(row[k], now) => row[j].created >= row[k].created
Oldest(j, now) ==
  /\ Eligible(row[j], now)
  /\ \A k \in Job : Eligible(row[k], now) => row[j].created <= row[k].created

ClaimNextJob(j, owner, now) ==
  /\ Oldest(j, now)
  /\ row' = [AfterReap(now) EXCEPT ![j] = Claimed(row[j], owner, now)]

ClaimNothing(now) ==
  /\ \A j \in Job : ~ Eligible(row[j], now)
  /\ row' = AfterReap(now)

RenewLease(j, owner, now) ==
  /\ Holds(row[j], owner, now)
  /\ row' = [row EXCEPT ![j].expires = LeaseUntil(now)]

\* The gate of publish_success; PublishSuccess is the UPDATE it lets through.
PublishGateOpen(r, owner, now) == r.status = "processing" /\ r.pdf = NULL
PublishGate(r, owner, now) == Holds(r, owner, now) /\ r.pdf = NULL

PublishSuccess(j, pdf) == row' = [row EXCEPT ![j] = Published(row[j], pdf)]

\* attempts is the caller's copy (job.attempts), not the column.
RecordFailure(j, owner, now, attempts) ==
  row' = IF Holds(row[j], owner, now)
         THEN [row EXCEPT ![j] = FailureRecorded(row[j], attempts)]
         ELSE row
=============================================================================
