# Verification of the filing-document render queue

The program accepts DOCX files over HTTP, keeps one row per job in a SQLite
table, and lets any number of worker processes convert them to PDF. There is no
broker and no lock server: mutual exclusion rests on conditional `UPDATE`s, on
a lease with a wall-clock end, on a thread that renews it, and on the rename of
a file inside an open transaction. This directory models that protocol in TLA+,
checks small instances with TLC, liveness included, and proves the central
safety properties with TLAPS for any number of jobs, workers and attempts, any
lease and any combination of faults. The check of an upload, the schema
migration at start-up and the acceptance run against the whole system have models
of their own.

## 1. Inventory

| Component | Source | State it keeps | Operations |
|---|---|---|---|
| Job repository | `app/repository.py`, `app/models.py` | the `jobs` table: status, attempts, lease owner and end, PDF path with size and SHA-256, error | `create_job`, `claim_next_job` (with `_reap_exhausted`), `renew_lease`, `publish_success`, `record_failure`, `get_job` |
| Worker process | `app/worker.py` | per process: owner id, current job, its session's copy of the row, temp path, fingerprint | `run_forever`, `process_job`, `_sweep_orphan_tmp`, SIGTERM |
| Lease renewer | `app/worker.py` `LeaseRenewer` | per process: stop and lost events, one thread | `start`, `_run`, `stop` |
| Artifact storage | `app/storage.py` | `source/`, `tmp/`, `pdf/` on a shared volume | paths, `atomic_write_bytes`, `cleanup_job_tmp`, `file_fingerprint`, `remove_quiet` |
| Converter | `app/converter.py` | a profile directory and a subprocess per call, a staged file | `convert_docx_to_pdf` |
| HTTP API | `app/api.py`, `schemas.py`, `errors.py` | none of its own | upload, status, download |
| Upload validation | `app/validation.py`, `app/api.py` | per request: the bytes held, the place in the container | `_read_capped`, `validate_docx` |
| Database start-up | `app/db.py` | the schema | `init_db`, `_add_pdf_fingerprint_columns` |
| Settings | `app/config.py` | environment | limits, lease, intervals |
| Acceptance run | `verify/` | a script's position | uploads, downloads, kills and restarts the worker, changes files |
| Images, compose file | `docker/`, `docker-compose.yml` | none of the queue's own | order of starts, restarts |

### How the components interact

- The API and every worker share the table and the storage volume, and nothing
  else. The API inserts a `pending` row; a worker finds it by polling.
- A worker's main thread and its renewer thread use separate sessions. They
  share two events: `_stop` (main to renewer) and `lost` (renewer to main).
- `publish_success` is the one place where table and storage change together:
  conditional `UPDATE`, `os.replace` onto the official path, `COMMIT`. SQLite's
  write lock is held from the first to the last, but the storage is not covered
  by it: `cleanup_job_tmp` of another process may remove files in between.
- Nobody is told that a worker died. Its row stays `processing` until a later
  claim finds the lease ended, and takes the job over or gives it up.

### What is hard

- *Time*: each repository function samples the time first and then waits, up to
  30 s, for the write lock. All comparisons use a time in the past.
- *Stale copies*: the session of `process_job` reads the row once, after the
  claim; `record_failure` decides on that copy.
- *Overtaking*: a stalled worker goes on after another one took its job, with
  temp files, an official path and a database row that it still believes its
  own.
- *Abandoned threads*: `stop()` gives up on a renewer thread after 5 s, its
  renewal may run later, in the middle of a later attempt.
- *Crashes* between any two of: claim, clean-up, conversion, gate, move,
  commit.
- *Partial failure*: a commit that raises after the file moved; a conversion
  whose temp file another worker removed.
- *Progress without a supervisor*: nothing but the claims of other processes
  moves a job whose worker died, and nothing but their clean-up and their idle
  sweep removes what it left.
- *A body of unknown length and content*: the limit falls into the middle of a
  read, and the library reports broken containers in more than one way.
- *Concurrent migration*: every process runs `init_db`, and the driver commits
  each DDL statement on its own.

### What makes it correct

| Component | Properties |
|---|---|
| Repository | columns agree with the status; attempts bounded; a lease is taken only after its end; terminal states are final |
| Worker | the result that lands is that of the latest attempt; with renewals in time one converter per job; failures of the holder are recorded |
| Storage | the official bytes are the registered ones; a succeeded job has its file; clean-up removes garbage only |
| API | a download delivers the registered bytes or an error; a row never exists without its source file |
| Upload validation | exactly the documents within the limit are accepted; no more than the limit is held |
| Start-up | nobody serves on an incomplete schema; every start order and crash ends with the full one |
| System | a submitted job ends succeeded or failed; a job with an attempt left is delivered once nothing goes wrong; no residue stays; the acceptance script passes wherever its kill hits |

PROJECT.json lists the hazards behind these properties at their lines.

## 2. Modules

| Module | Role |
|---|---|
| `Repository` | the jobs table; one operator per `WHERE` and `SET` clause, one action per transaction |
| `Worker` | EXTENDS `Repository`: worker processes, renewer threads, temp and official files, faults, clock; the specification `Spec` |
| `JobLifecycle` | abstract specification: what a client may rely on, without workers, leases, files or time |
| `WorkerProperties` | all properties, the inductive invariant `IInv`, the refinement mapping to `JobLifecycle` |
| `MCWorker` | symmetry for TLC; the `.cfg` files give the instances |
| `WorkerProofs` | `IInv` is inductive, and what follows from it |
| `RefinementProofs` | `NoStolenLease`, and that `Spec` implements `JobLifecycle` |
| `TimelyProofs` | what rests on time: `SucceededHasFile` and `OneConverter`, and which delay or fault each finding on files needs |
| `Api` | EXTENDS `Worker`: upload, status and download by clients next to the workers, damage to published files, crash of the API; the specification `ApiSpec` |
| `ApiProperties` | what clients may rely on, and the invariant `ApiInv` |
| `MCApi` | instances of `Api` for TLC |
| `ApiProofs` | `ApiSpec` implements `Spec`; `ApiInv` is inductive, and what follows from it; `DownloadWorks` |
| `Progress` | EXTENDS `Worker`: the same steps without an end of time, with processes that are started again, jobs without end, and fairness; the specification `ProgressSpec` |
| `ProgressProperties` | what must happen in the end |
| `ProgressProofs` | the safety of `ProgressSpec`: `IInv`, `NoStolenLease`, the refinement, and `TimelyProofs` with restarts and without an end of time |
| `Acceptance` | EXTENDS `Progress` and `Api`: the acceptance script as one more process, next to the API and a worker; the specification `AcceptanceSpec` |
| `AcceptanceProofs` | the script is a client and a hand that `Api` and `Progress` allow, so their invariants hold under it; no check of it fails |
| `Upload` | what `POST /jobs` does with a body before it touches shared state: the capped read and the look into the container; its properties |
| `UploadProofs` | the verdict on an upload is that of the reference |
| `Startup` | `init_db` by the API and the workers, with the order of the compose file or without, and with kills; its properties |
| `StartupProofs` | the safety properties of `Startup` |

### How the model corresponds to the code

**Rows.** `row[j]` is the row of job `j`; status `absent` stands for no row.
`pdf` stands for `pdf_path`, `pdf_size` and `pdf_sha256` together, which the
code always writes together: the path is a function of the job, size and hash
identify the bytes. Bytes are named by the conversion that produced them
(worker, attempt): two conversions of one document differ, as LibreOffice puts
a creation time in each. `error` keeps which of the two reasons is stored.
`updated_at`, file names and messages are left out.

**Transactions.** SQLite admits one writer and the code issues each
transaction's first write after its clock read, so every repository call
is two steps: one samples the time into `sampled[w]` (or `renewer[w].at`), one
runs the transaction when no process holds the write lock. Anything may happen
in between, the clock included. `publish_success` keeps the lock while it
touches the storage and takes the steps `GateHolds`, `Move`, `Commit`, each
with its failure: `GateRefuses`, `MoveFails`, `CommitFails` followed by `Undo`,
which runs *after* the rollback released the lock.

**Processes.** `pc[w]` is the place of the main thread. The labels in order:
`idle`, `claim`, `claimed` (committed, not loaded), `loaded`, `swept` (temp
files removed, official path not yet), `convert`, `staged`, `converted`,
`fingerprint`, `publish`, `gated`, `moved`, `unwind`; a failing conversion goes
`convert`, `failed`, `record`, `unwind`; `rest` follows an empty claim. A
process that is killed never comes back; its restart is another element of
`Worker`, since the owner id holds a fresh uuid.

**Renewer.** `renewer[w]` is `off`, `wait` (until `at`), `call` (inside
`renew_lease` with time `at`) or `lost`. `Unwind` is `renewer.stop()`; a thread
caught inside its call is moved to `late`, from where `LateRenew` runs the one
renewal it had begun, whatever its process does by then.

**Files.** `tmp` maps existing temp paths to bytes, `official` maps a job to the
bytes at its official path or NULL. Paths are records of the parts that the
code puts in the name.

**Faults** are a constant, so that a run can say which it needs: `crash`,
`error` (a database call or file operation raises), `commitError`, `stall` (a
process is delayed between claim and clean-up for as long as a lease) and
`slowRenew` (a renewer is delayed past its interval, or its call past the 5 s of
`stop()`).

**API.** `ApiSpec` composes the workers with clients: its steps are those of
`Worker` without `Submit`, which `Insert` implements. A request of client `c` is
at `at[c]`; it is split where it looks at shared state again. An upload goes
`idle`, `insert` (source file written), `inserted` (row committed, not read
again), `idle`; a download goes `idle`, `found` (row loaded), `present` (isfile
was true), `read`, `idle`. `heard` and `cached` are what a client was told and
given: they are the only trace of an answer, so that the properties are about
what clients know, and not about response codes. `form` says what somebody did
to a published file; `Archived` are jobs published before fingerprints existed,
whose rows no statement touches.

**The long run.** `Progress` replaces the bounded clock by a moving one: the
clock stands at `MaxClock`, and `Age` moves every time on record one tick into
the past. The statements only compare times with each other and with now, so
nothing can tell the difference; a time too far back to matter stays where it is,
and of `created_at` only the order is kept (`Rank`). `Restart` starts a process
where one ended. Its owner id is fresh: the rows of the old one pass to `Ghost`,
an owner that never moves, and the place can be used again. `Retire` frees the id
of a job that has ended and that nobody works on, so that two ids carry a stream
of jobs without end (`Recycle`).

**The acceptance run.** `Acceptance` is `verify/acceptance.py` as a table of
steps: `Uploads`, `Waits` and `Downloads` say what each request is about, which
answers the script accepts and where it goes next. A request is carried out by
the actions of `Api`, one by one, while the worker goes on; `Judge` ends the
script at the first check that fails. `Kill` and `StartAgain` are `docker kill`
and `docker start`. `AsTheFixtures` says which document renders.

**Uploads.** In `Upload` a body is its length and what zipfile finds in it:
`directory` and the members in order, each `sound`, `bad` (BadZipFile) or such that
reading it `raises` something else. `read` counts the bytes taken, `kept` those in
`chunks`; `next` is the member that `testzip` reads next. `testzip` opens members by
name, so of several with one name only the last is read (`Opened`). `Api` starts
with an upload whose `verdict` is `accept`; all other verdicts end the request.

**Start-up.** `Startup` keeps the columns of the table and, per process, the
columns it found missing. `ordered` is whether compose starts the containers
(the API first, the workers once it is healthy) or somebody starts them in any
order. A process can be killed between any two statements.

**Faulty variants.** Right before some definitions stands a variant with a
plausible bug (`ExpiredAtBoundary` before `Expired`, `TmpPathPerJob` before
`TmpPath`). The specification uses none of them; they exist to test that each
property notices the bug it is there for.

## 3. Runs

The runs of `MCWorker` and `MCApi` use the symmetry of workers and clients; the
others (`ProgressProperties`, `Acceptance`, `Startup`, `Upload`) take their
module as it is, without symmetry. Deadlock checking is off where the system may
come to rest (bounded clock, attempts used up, workers stopped, script ended, verdict given) and
on for `startup`.

| Run | Question | Result |
|---|---|---|
| `worker_faults` | two workers, one job, two attempts, all faults together: type and row invariants, attempt bound, latest attempt lands, official bytes are the registered ones, `IInv`, no stolen lease, refinement of `JobLifecycle` | holds |
| `progress_timely` | two places, renewals in time, processes that are killed, stopped and started again: one converter per job, and a job with an attempt left is delivered once nothing goes wrong | holds |
| `progress_faults` | one place, all faults for ever: the job ends, and its residue in the tmp directory vanishes | holds |
| `progress_stream` | jobs without end, one place, kills and a lease that always runs out: every job ends, no stolen lease, `IInv` | holds |
| `api_clients` | two workers that overtake each other, crashes, failing operations and damage, under a client's requests: what a client was told and given stays true, no row without source, `ApiInv`; a succeeded job has its file, and a download of an undamaged one delivers it | holds |
| `startup` | three processes on an empty, an old or a current database: nobody serves on an incomplete table, no start fails in the order of the compose file, `SchemaInv`, everybody comes to serve | holds |
| `acceptance` | the whole script: no check fails, and it passes in the end | holds |
| `upload` | bodies around the limit, containers with sound, bad and unreadable members: the verdict is that of the reference, and the limit is exact | holds |
| `found_stale_sweep` | the clean-up removes only unreferenced files | violated |
| `found_undo` | the undo of a failed commit removes only uncommitted files | violated |
| `found_failure_dropped` | a failed conversion is recorded while the lease is valid | violated |
| `found_late_renewal` | a renewal never makes a lease shorter | violated |

### Bounds

- *Two workers.* A hazard needs an overtaken process and its overtaker; with two
  attempts no third process gets a lease. In the runs of `MCWorker` and `MCApi`
  one element of `Worker` is one process lifetime; in the runs of `Progress` it is
  a place (next to `Ghost`) where process after process runs.
- *One or two jobs.* Jobs meet only in a claim: order, reaping, a process that
  changes jobs. `progress_stream` has two at a time and no end of them.
- *One place for the liveness runs under faults and under load.* A job that one
  process alone brings to its end is also brought to its end by several that take
  turns; `progress_timely` has two, with kills only.
- *Two attempts.* The first may be retried and the last may not: both sides of
  `attempts >= max_attempts`. The acceptance run has three, as in the compose
  file.
- *`Lease = 2`, `RenewEvery = 1`, `MaxClock = 4`* in `worker_faults`. The
  comparisons are strict on both sides, so a lease passes through valid, at its
  end, and over. Four ticks hold claim, end, take-over, and reaping or a second
  result. `progress_timely` and `acceptance` have a lease of three, so that it
  outlives several renewals; `progress_stream` has one of one
  tick, to afford the second job.
- *`MaxClock` in `Progress`* is not a bound on time but how far back times are
  told apart. It has to reach as far as the leases that are compared, which
  `ProgressAssumption` says: `Lease <= MaxClock + RenewEvery + 1`.
- *`Lease = 2`, `MaxClock = 3`* in `api_clients`: a lease is renewed, ends and is
  taken over before the loser publishes. `stall`, `commitError` and `slowRenew` are
  off, for `SucceededHasFile`; what the other invariants say under them is proved.
- *One client* in the API runs: clients share nothing but the tables, and each
  property is about one client at a time. Jobs published before fingerprints
  existed (`Archived`) appear in `acceptance`.
- The clock of `Worker` is the only unbounded counter; `MaxClock` is a guard of
  `Tick` alone and the proofs hold for every value of it.
- *Three processes* in `startup`: the API, which migrates, and two workers that
  may race with it and with each other for each of the two columns.
- *A limit of 5, reads of 2, bodies of up to 8* in `upload`: the limit falls between
  two reads and bodies end before, at and after it. Three members hold both required
  parts and a third, in any order or twice.
- Symmetry is over workers only, which are compared for equality alone, and in
  runs of safety properties only.

### Assumptions on time

- *One clock.* All processes run on one host, as in `docker-compose.yml`, and
  the clock does not go backwards.
- `StartsInTime` (without `stall`) and `RenewsInTime` (without `slowRenew`) say
  that a worker starts its renewer, and a renewer renews, soon enough. They are
  guards of the passage of time and appear only in runs that ask what holds under
  them. Theorems that rest on them say so in a hypothesis (`Prompt`, `Timely`,
  `Lossless`, `Punctual` or `AsComposed`, section 5); no other theorem needs them.
- `CallTimes`: a call that waits for the write lock gives up after the busy
  timeout (30 s, the length of a lease), so that `Age` does not pass while one
  has sampled its time further back than the comparisons reach.
- `PassTime`: from the kill to the download right after it the acceptance script
  takes a few seconds, less than what is left of the 30 s lease; and the heavy
  document keeps LibreOffice busy until the kill (`AsTheFixtures`), which is what
  `heavy_docx` is made for.
- `_sweep_orphan_tmp` removes files an hour old. Without `stall` no live attempt
  has such a file (conversion is limited to minutes); with it, any file may go.

### Fairness

`Spec` and `ApiSpec` state none: there every process may stop anywhere, and the
properties are safety properties. `ProgressSpec` assumes

- that time passes again and again (`SF(Age)`);
- that a process that ended is started again (`WF(Restart)`): by the restart
  policy or, as `docker-compose.yml` says `restart: "no"` for the worker, by a
  person;
- that a polling worker's claim gets the write lock in the end (`SF(Poll)`,
  `SF(Claim \/ ClaimNone)`), as SQLite's busy handler tries for 30 s and the loop
  of `run_forever` tries again after every exception;
- that a worker comes forward through an iteration unless it is killed or a step
  raises (`SF(Proceed)`), and that no fault hits the same place for ever:
  a machine on which the same line always fails delivers nothing;
- that a worker that finds no job again and again sweeps (`SF(SweepOrphan)`):
  `run_forever` does so every ten minutes;
- that a renewer thread runs (`WF(Renew)`).

Faults themselves have no fairness: they may or may not happen. `AcceptanceSpec`
assumes the same of its one worker and of time, and that the script goes on.
`Startup` assumes that a process that is down or failed is started again and is
not killed at the same statement for ever.

## 4. What the runs found

The central promise holds under every fault: late results never land and the
official bytes never differ from the registered ones. No job is left behind,
under any of the faults, and in whatever order processes start they come to serve
on a complete table. Four statements of the comments are not true of the code.

1. **A stalled clean-up deletes a published file** (`found_stale_sweep`).
   `cleanup_job_tmp` runs before the renewer starts and does not look at the
   job. A process that is delayed there for longer than its lease removes the
   file another process published meanwhile; the succeeded job answers
   `ARTIFACT_MISSING` for good.
2. **The undo of a failed commit runs without the lock** (`found_undo`).
   `db.rollback()` comes before `os.replace(final_pdf, tmp_pdf)`; a publication
   that fits in between is undone in the storage and stays in the table.
3. **A late failure is not recorded** (`found_failure_dropped`, with no fault at
   all). `record_failure` reads the lease from the session's identity map, which
   does not know the renewals. A conversion that fails more than `lease_seconds`
   after the claim, as each timeout does, is dropped; the job waits for
   its lease to end, and finally fails as "worker lost".
4. **A late renewal shortens a lease** (`found_late_renewal`). `stop()` waits 5 s
   for a renewal in progress and then leaves it behind. It may run after the same
   process recorded a failure and claimed the job again; the owner matches, and
   the end of the new lease moves back to the old time plus `lease_seconds`. If
   that is over before the clean-up of the new attempt, the first finding follows
   with a shorter delay: the configuration of `found_stale_sweep` with
   `Faults = {"slowRenew"}`, `MaxAttempts = 3`, `Lease = 3` and `MaxClock = 5` shows
   it.

The third finding is also why `EveryJobEnds` is worth its run: a job whose failure
is dropped, each time, still ends, because the reaper gives it up.

A start may fail, and `startup` shows when: two processes that both find a column
missing both add it, and the slower one stops with an exception. Under
`docker-compose.yml` that cannot happen (`ComposeStartsClean`), as only the API is
up until the table is complete; started by hand, a worker that fails so has to be
started again, and then serves (`EveryoneServes`).

1, 2 and 4 are the only ways by which the queue itself loses the file of a
succeeded job, and each is proved, for every instance, to need the cause named here:

- without `stall` and `slowRenew` the clean-up removes no file of a succeeded job,
  whatever crashes, raises or fails to commit (`SweepsSpareResults`);
- with renewals in time, which are not if one raises, the undo of a failed COMMIT
  removes none either, though it runs without the lock (`UndosSpareResults`): it is
  the lease that protects it, and the second finding needs a lease that has ended;
- without `slowRenew` a renewal never shortens a lease, whatever else is delayed
  (`RenewalsExtend`).

So if nobody is delayed, and either no COMMIT of a publish fails or renewals are in
time, a succeeded job always has its file (`ResultsStay`), also when processes are
killed and started again for ever (`ResultsOutlastRestarts`).

A comment that is not true to the letter, but does no harm: "publication is refused
the instant the lease lapses" (`app/repository.py:180-181`). The gate compares with a
time sampled before the wait for the write lock, so that for up to 30 s after its end
a lease can be published under, as long as nobody has claimed the job. `renew_lease`
samples its time in the same place. `NoStolenLease` and `LatestAttemptLands` hold
nevertheless.

`Upload` has the verdict `INTERNAL_ERROR`, which the docstring of `validate_docx` does
not foresee ("Any failure raises ValueError carrying a stable error code"): only
`BadZipFile` and `OSError` become `NOT_A_ZIP`, while a broken deflate stream raises
`zlib.error`, an encrypted member `RuntimeError`, and a member name that is not UTF-8
`UnicodeDecodeError`. Which of two broken members comes first decides the answer; a
job is created in neither case (`AcceptsDocumentsOnly`).

## 5. Proofs

The proofs assume only the named assumptions of the modules:
`RepositoryAssumption`, `WorkerAssumption`, `ApiAssumption`, `ProgressAssumption`,
`StartupAssumption` and `UploadAssumption` (types of the constants; `Job` is finite in `Progress`, where
`Rank` counts rows) `NullAssumption` and `ContentAssumption` (NULL is none of the values). Elsewhere `Job`, and
`Worker`, `Client` and `Process`, may be infinite, and `Faults` may be any subset of the faults
unless a hypothesis says otherwise:

| Hypothesis | Meaning |
|---|---|
| `Punctual` | no `slowRenew`: no renewal is left behind |
| `Prompt` | nor `stall`: no process is delayed before its clean-up |
| `Timely` | `Prompt`, no `error` (a renewal that raises is one too late), and a renewal interval shorter than the lease |
| `Lossless` | `Prompt`, and no `commitError` or else `Timely` |
| `AsComposed` | `Timely`, one worker process at a time, and more than one attempt, as in `docker-compose.yml` |

`crash` is allowed under each of them.

| Theorem | Statement |
|---|---|
| `InitHolds`, `StepKeepsIInv`, `InvariantHolds` | `Spec => []IInv` |
| `TypeCorrect` | `Spec => []TypeOK` |
| `RowsCoherent` | `Spec => []RowCoherent` |
| `AttemptsAreBounded` | `Spec => []AttemptsBounded` |
| `LateResultsNeverLand` | `Spec => []LatestAttemptLands` |
| `OfficialMatchesFingerprint` | `Spec => []OfficialIsRegistered` |
| `LeasesAreNotStolen` | `Spec => NoStolenLease` |
| `WorkersImplementLifecycle` | `Spec => Lifecycle!Spec` |
| `ApiStepKeeps`, `ApiInvariantHolds` | `ApiSpec => [](IInv /\ ApiInv)` |
| `ApiImplementsWorker` | `ApiSpec => Spec`, so all of the above holds next to the API |
| `SourcesPrecedeRows` | `ApiSpec => []SourcePrecedesRow` |
| `DeliveriesAreRegistered` | `ApiSpec => []DeliveredIsRegistered` |
| `NewsStayTrue` | `ApiSpec => []NewsStaysTrue` |
| `ClaimStep`, `SweepsSpareResults` | `Prompt` implies that every step keeps `ClaimInv`, and that no clean-up takes a file from a succeeded job |
| `LeaseStep`, `ConvertersAreAlone` | `Timely` implies `Spec => []OneConverter` |
| `FileStep`, `ResultsStay` | `Lossless` implies `Spec => []SucceededHasFile` |
| `UndosSpareResults` | `Timely` implies that no undo takes a file from a succeeded job |
| `RenewalStep`, `RenewalsExtend` | `Punctual` implies that no renewal of `Spec` shortens a lease |
| `DownloadStep`, `DownloadsWork` | `Lossless` implies `ApiSpec => []DownloadWorks` |
| `ProgressStepKeeps`, `AlwaysInOrder` | `ProgressSpec => []IInv` |
| `LeasesOutlastRestarts` | `ProgressSpec => NoStolenLease` |
| `LongRunImplementsLifecycle` | `ProgressSpec => Lifecycle!Spec`, if ids are not recycled |
| `ResultsOutlastRestarts` | `Lossless` implies `ProgressSpec => []SucceededHasFile` |
| `ConvertersStayAlone` | `Timely` implies `ProgressSpec => []OneConverter` |
| `ScriptKeepsOrder` | `AcceptanceSpec => [](IInv /\ ApiInv)` |
| `ScriptRunsProgress` | `AcceptanceSpec => ProgressInit /\ [][ProgressNext]_vars` |
| `NoCheckEverFails` | `AsComposed` implies `AcceptanceSpec => []NoCheckFails` |
| `SchemaStep`, `SchemaInvariant` | `Startup!Spec => []SchemaInv` |
| `FullSchemaServed`, `ComposeIsClean` | `Startup!Spec => []ServesFullSchema`, `[]ComposeStartsClean` |
| `UploadStep`, `UploadInvariant` | `Upload!Spec => []UploadInv` |
| `OnlyDocumentsAccepted`, `LimitKept` | `Upload!Spec => []AcceptsDocumentsOnly`, `[]LimitIsExact` |

None of the safety invariants is inductive alone. What has to be added are facts
about processes in the middle of an iteration, collected in `ProcessOK(w)`:

- The bound on attempts needs `SeenIsCurrent`. A failure is requeued by the
  attempts of a stale copy; that is harmless because whenever the row still
  names the process as owner, nobody claimed it since, so the copy's attempts
  are right even if its lease is not.
- `LatestAttemptLands` needs `SeenIsCurrent` at the gate, and `GateKeepsOwner`
  with `OneWriter` from the gate to the commit: the write lock keeps
  everybody else from the row.
- `OfficialIsRegistered` needs that what is moved is what was fingerprinted
  (`OwnPart`, `OwnTemp`, `OwnFingerprint`: temp paths carry owner and
  attempt, so other processes may remove but never replace a file there), and
  that until the commit the moved file may vanish but not change
  (`MovedIsMine`).
- `sampled[w] <= clock` is what makes `NoStolenLease` true: a claim compares
  with the past, so it errs on the side of the old holder.

The step theorem has three kinds of actions. Private steps change only what
belongs to one process (`PrivateStep`); steps that write the table run with the
lock free or held by the actor (`LockedStep`); and `ProcessFrame` carries
`ProcessOK` of every other process over a step of `w`. `RefinementProofs` reuses
the invariant: `RowStep` classifies what one step may do to one row, and each
class is a step of `JobLifecycle` or a stutter.

The API needs one fact about rows, and gets it from the refinement: a job that
exists goes on existing, and a finished row is final (`RowsMoveOn`, from
`RowStep`). So the copy of the row that a download loaded is still true when it
compares the bytes with it (`DownloadOK`). `ApiInv` and `IInv` are preserved
together: `IInv` holds after a step because an API step is `Submit` or a stutter
for the workers, and that the inserted row carries a time that is not in the
future comes from `ApiInv` (`UploadOK`).

`TimelyProofs` is about the places where the code relies on time alone: the
clean-up removes the official file without a look at the row, and the undo of a
failed COMMIT without the lock. It has three layers, each proved from the faults
that it needs to be absent and from no more.

- `ClaimInv` (under `Prompt`) says why the row still belongs to the process at its
  clean-up: its lease is the one it claimed (`LeaseAsClaimed`) and has not ended
  (`LeaseIsYoung`, from the guard of `Tick`); no step of another process touches a
  row with a valid lease (`StepLeavesLeased`); and nobody, the process itself
  included, renews it meanwhile (`RenewsLater`, `late = {}`, which `slowRenew`
  would break).
- `LeaseKept` (under `Timely`) carries this on to the end of the conversion, the
  publication and its undo: the next renewal is due before the lease ends
  (`KeepsLease`). So two processes that convert one job would both own its row, and
  whoever undoes a publication still has the job (`UndoOwns`).
- `FileInv` (under `Lossless`): a step takes an official file away only from a job
  that the actor owns (`StepTouchesOwnFile`), and a succeeded job has no owner. The
  file that a commit registers is there because `Move` put it there and nobody else
  owns the row (`MovedStays`).

`RenewalInv` (under `Punctual`) is separate: a renewal runs in the tick in which it
was begun (`CallsNow`), so it writes the present plus `Lease`, and no lease on record
ends later than that (`LeaseWithin`).

`DownloadsWork` adds what one download sees between its reads (`ReadOK`): no step of
the workers changes the file of a succeeded job, since both it and the row are the same
before and after, so a file that is sound now was sound when it was read.

In `Progress` a step of a process is a step of `Worker`, and an upload is a
`Submit`, so the proofs need only say why the three new actions keep `IInv`. `Age`
changes no field that an invariant reads other than whether there is a lease
(`AgedFields`), and no row exists that ranks below one created at 0, so an absent
row stays `NoRow` (`RankType`). `Restart` hands rows to `Ghost`, of whom
`ProcessOK` says nothing that depends on a row as long as it rests; hence the
second half of the invariant, `GhostRests`. `Retire` needs that nobody who holds
the write lock works on the job. The layers of `TimelyProofs` survive because
`Age` moves all times that they compare by the same step: a time that could stop
at its floor is one that `CallTimes` or the guards of the passage of time keep
above it (`AgedTimes`). `Restart` and `Retire` change nothing of a process at work,
nor the row that it owns (`RestartSpares`, `RetireSpares`).

`AcceptanceProofs` has two parts. The first is a composition: a step under the
script is a request of a client, a step of the worker, a restart, a hand on a
published file, or time (`SystemStep`), hence one of `Progress` or a stutter for the
workers; and `ApiInv`, proved for `ApiSpec`, is kept also by the steps that
`ApiSpec` does not have. The one fact that the script adds is that the row of an
upload is inserted in the tick in which its source was written (`InsertsNow`).

The second part is the script itself. `ScriptInv` says what each place of the script
may rely on: which request is under way (`RequestOK`), that an answer is one that is
accepted there (`ReplyOK`), how the files were left (`FilesAsLeft`), and for the heavy
document (`HeavyOK`) that its first attempt is in the hands of the worker until the
kill, is nobody's but still leased until the request after it, and is over when the
result is waited for: there the job has had two attempts, and it has succeeded
before the script goes on. Where the worker may be at each place follows from
`LeaseKept`: it never loses the job it works on, so neither publication nor
clean-up fails (`NothingIsLost`). From the kill to the restart nobody attends to the
row, and that its lease has not ended is the guard of `PassTime`. `ScriptInv` was
checked with TLC, on the instance of `acceptance` with two attempts, before it was
proved.

`SchemaInv` adds to `ServesFullSchema` what a process has found: columns are never
taken away, so what it found is still there, and with what it has to add the table
is complete (`PlanComplete`); in the order of the compose file, everybody else is
down until the table is complete (`AloneUntilHealthy`).

`UploadInv` says what the handler knows at each place: before a verdict all that was
read is kept (`BodyKnown`), so a container is looked at only if its whole body is
within the limit, and the members before `next` are sound (`MembersKnown`).

### Checked by TLC only

All of liveness: `EveryJobEnds`, `RetryDelivers`, `ResidueVanishes`, `ScriptEnds`,
`EveryoneServes`. Liveness under fairness and ENABLED are beyond the proof system, and
so is induction over data; no module of the project declares a recursive operator.
Every invariant that a passing run checks is also proved. With ids that are recycled
(`progress_stream`) a job of `JobLifecycle` would stand for one after another, so the
refinement is stated without (`~ Recycle`).

## 6. Not modelled

- Headers, and response bodies other than status, fingerprint and PDF; the `.part`
  file of an upload, which nothing reads and nothing removes.
- The content of DOCX and PDF files beyond what zipfile says of it, and file names.
- The LibreOffice subprocess and its profile directory: a conversion yields a PDF, a
  `ConversionError`, or another exception.
- Reading settings from the environment; the index that `create_all` makes, which
  a crash right after `CREATE TABLE` leaves out for good: it changes the speed of
  a claim, not its result.
- Loss of data that SQLite reported as committed (`synchronous=NORMAL` in WAL
  mode may lose the last commits in a power failure), clocks that go backwards
  or differ between hosts.
- Of the acceptance run: rejected uploads, deadlines (that they are met is only
  that the script ends), the wording of requests, and the bytes of the fixtures. Of
  the deployment: images, the build gate, volumes, ports.

## 7. Plan

1. *Done*: `Repository`, `Worker`, `JobLifecycle`, properties, proofs.
2. *Done*: `Api`, properties, proofs.
3. *Done*: `Startup`, properties, proofs.
4. *Done*: `Upload`, properties, proofs.
5. *Done*: `Progress`, liveness, proofs of its safety; `Acceptance`.
6. *Done*: `TimelyProofs`, for `Spec` and for `ProgressSpec`.
7. *Done*: `AcceptanceProofs`.
8. Next: that the third finding has renewals as its only cause (a failure within the
   lease as claimed is recorded), and `DownloadWorks` for the script and the endless
   queue.
