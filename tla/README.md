# GlacierVault in TLA+

GlacierVault backs directories up with rustic into a hot S3 bucket and a
Glacier Deep Archive bucket, keeps a catalog of the snapshots in SQLite, and
restores them after Glacier has thawed the packs. This directory holds TLA+
models of its server (`src/api`) and of the warm-up wrapper (`src/docker`),
configurations that check them with TLC, and theorems checked by TLAPS.

## The system

| Component | State | Operations |
|---|---|---|
| Restore manager (`restore/restore.go`, `resume.go`) | rows of `restore_jobs`; one goroutine per live job; the reconciliation of this process | create, drive rustic with a line hook, claim and send the warm-up notification, record the result, triage and resume after a restart |
| Warm-up plan and wrapper (`restore/warmup_plan.go`, `docker/glaciervault-warmup.sh`) | `warmup-plan.txt`, the batch counter file, attempts; copies in S3 | size batches, expiry and deadline; per batch submit, wait, retry, print the sentinel |
| Backup jobs (`server/router.go`, `scheduler/scheduler.go`, `engine/cancel.go`, `cmd/server/main.go`) | rows of `backup_jobs`; goroutines; the cancel registry | run now, run by cron, cancel, record, sync the catalog, reconcile at startup |
| Snapshot catalog (`catalog/*.go`) | `snapshots`, `file_index`, the map `idxProg` | sync, browse with background indexing, rebuild, delete |
| Rustic engine (`engine/rustic.go`) | child processes; log ring buffers | backup, restore, snapshots, ls, forget, prune |
| Notifications (`notify/notify.go`) | `notification_config` | send through apprise, in a goroutine |
| Scheduler table (`scheduler/scheduler.go`) | cron entries per definition | start, reload |
| Job log stream (`server/router.go`) | ring buffer, lines sent | server-sent events until the job ends |
| CloudFront path (`cloudfront/*.go`, `server/cloudfront.go`) | the `cf_*` columns of `aws_config`, distributions and bucket policies in AWS, the local proxy, a provisioning flag | enable, provision, rotate key, save, reload proxy, disable, serve a request |
| Deployment (`server/router.go`, `provisioning/*.go`) | `aws_config`, `rustic.toml`, both copies of the repository password, `setup_complete`, a row of `backup_jobs` | bootstrap, deploy, CloudFront, configuration, `rustic init` |
| Sessions (`server/router.go`, `server/totp.go`, `auth/*.go`) | `app_config` (hash, epoch, TOTP), `login_attempts`, `api_tokens` | log in, second factor, change password, log out everywhere |
| Frontend, encryption, OIDC, migrations | | not modelled, see the end |

They interact through rows of SQLite (every statement is atomic, few belong to
a transaction), through goroutines that outlive the request that spawned them,
through child processes killed by contexts, and through the process maps
`jobCancels`, `jobBufs` and `idxProg`, which a restart empties.

What is hard in this code: goroutines that check a row and later write it; a
container restart between any two statements of a restore that takes days; a
deadline that kills rustic but not the wrapper below it; statements whose
error is dropped because their context is over; a cancel racing the end of a
backup; lists of snapshots used after others have changed the repository.
`PROJECT.json` lists these hazards one by one, each with its line and the
properties that cover it.

## The modules

**RestoreLifecycle** models one restore job per element of `Jobs`. A *run* is
a goroutine in `Manager.run`, started by `Initiate` or by the resume after a
restart, and both may exist for one job when the asynchronous reconciliation
picks up a job that is alive. `row` is the table; `pc`, `total`, `batch`,
`expired` are a run's locals and its rustic child; `lines` is the pipe between
rustic and the line hook and `hook` the hook's place between setting a status
and claiming the notification. A statement with the run's own context goes
through `InTime`, which drops it after the deadline; the failure update uses a
fresh context and does not. `need[j]` is how many batches the snapshot needs,
anything from none to what the index holds. History variables record what
really happened: Batch jobs submitted, packs thawed, files restored, notices
sent. When `ComputeWarmupPlan` cannot count the packs it uses one batch
(`fellBack`). A deadline, or a death of its own (`RusticDies`), takes rustic
away but not the wrapper below it, which keeps the pipe open: the run is then
an `orphan` until the wrapper ends. `Restart` loses every goroutine and keeps
the rows.

**WarmupPlan** translates the arithmetic of `warmup_plan.go`;
**WarmupBatches** puts it in time: the wrapper works through the batches, S3
thaws each pack at any moment (within 48 h of the request if `prompt`), every
copy lives `ExpiryDays` from its own thaw, an attempt is retried when its
budget is over, and the download starts after the last needed batch. The
deadline and the give-up are actions. The plan is the one computed from the
index or the one batch of the fallback; `Planned` singles out the restores
whose plan covers what they need. RestoreLifecycle abstracts this module:
it keeps that a batch is thawed or not and that rustic may fail or be killed
at any time. S3 appears as the action `Thaw` and the operators `Due`, `Live`
and `WithinSLA`; these and `Frozen` are marked external in the map.

**BackupJobs** models run-now and cron runs of overlapping jobs. `pc` follows
the two callers, which differ in one important order: Run now records the
completion, then syncs with a fresh context; the scheduler syncs first with
the twelve-hour context and then records. `RusticWrites` separates the moment
the snapshot exists from the moment rustic exits. Cancel is three steps, check
the registry, mark the row, kill. `DeleteDefinition` is the transaction that
detaches rows. A snapshot is named by the job that wrote it, so `catalog` and
`repo` are indexed by jobs. `Restart` includes the reconciliation of
`backup_jobs`, which main runs before it serves requests.

**Catalog** models `snapshots` (`catalog`: row id to snapshot) and `file_index`
(`indexed`), the sync after a backup, the background indexing of a browse,
the browse itself in its two halves (`PassCheck`, then the query, `Answer`),
deletion (forget, then a transaction that an abandoned request skips), and the
rebuild with its separate statements. A snapshot in `empty` lists nothing and
so never counts as indexed (`IsIndexed` counts rows). It composes what
BackupJobs keeps simple: there the sync never meets a deletion of a snapshot.

**ScheduleReload** models the requests that create, edit and delete
definitions and the reloads they spawn. An edit is up to three statements
(schedule, the columns only a run looks at, the enabled flag), each skipped
once the client has gone; then `pc` goes to `load` (read the definitions,
outside the mutex) and `loaded` (replace the entries, under it). `cron` holds
the daemon's entries and `entries` the scheduler's map of their ids, which
`Reload` needs to remove them. History variables number the reads and remember
which one the table was built from. Firing an entry is `BackupJobs!CronFires`.

**JobLog** models the ring buffer of one job, the log saved with its row and
one connection of `handleStreamJob`, whose poll is two steps (send the lines,
read the status). A line is its writer and its place in the log. The second
writer is the restore with the same row number: `jobBufs` has one key for both.

**CloudFrontPath** has one step per call to AWS of `EnsureReady`, `Ensure` and
`RotateKey`, any of which may fail, then `Save` (read, merge, write) and
`Manager.Reload`, which reads the configuration, then the key, then the bucket
(`ReloadLoad`, `ReloadKey`, `ReloadStart`) under a mutex that `Save` and
`Disable` do not take. `dists` records
which key each distribution trusts and whether it was tagged, `taken` the names
CloudFront refuses to give out twice, `policy` the distribution that each
bucket lets in. `Answer` is what the proxy replies to a request.

**Deployment** composes it: `Procs` serve requests to deploy, enable, disable
and restore, a deployment goes through the steps of CloudFrontPath between the
creation of the stack and the rustic configuration, and goes on when they fail.
`Restart` includes the reload and the reconciliation that main runs first. A
restore keeps its choice of a download path through the thaw. History
variables say that two runs overlapped or the stack changed (`overlapped`) and
that a set-up server was deployed again (`again`).

**JobLedger** and **LogFeed** are abstract specifications: what the table of
jobs promises its readers (entered once as running, one verdict that stands,
the user told of a success exactly when that is the verdict, a crash fails
what runs), and what the stream promises a client (lines appended in order,
one last event with the verdict of the row, then nothing). BackupJobs and
JobLog implement them (`ImplementsLedger`, `StreamIsFeed`), as TLC checks on
the instances below and TLAPS proves for all.

**RestoreLifecycleProofs**, **RestoreOutcomeProofs**, **WarmupBatchesProofs**,
**BackupJobsProofs**, **CatalogProofs**, **ScheduleReloadProofs**,
**JobLogProofs** and **DeploymentProofs** hold the theorems. The modules `MC*`
extend a model for TLC and say why its instance is large enough; the `.cfg`
files give the constants and choose what is checked.

Definitions marked `Mutant:` in a comment are plausible wrong versions of the
definition that follows them (a dropped guard, an off-by-one). No
specification uses them; each is named in `PROJECT.json` with the property
that fails when it takes the place of the right one, which shows that the
property depends on that line of code.

## The runs

| Run | Instance | What it shows |
|---|---|---|
| `restore` | one job, index of two batches, one restart | the warm-up notification is sent at most once and never while a needed pack is frozen (the fallback plan aside); `completed` implies restored files; no row is left under way without a goroutine or a pending triage, unless this process lost its last UPDATE to the deadline; a restore as large as the index is always announced; every restore ends, after the next restart if its last UPDATE was lost |
| `warmup` | 0, 1000, 1001, 2400 packs, two packs per batch, a 24 h clock step | with a prompt S3 and a counted index every copy reaches the download and all but its last planned day, neither attempts nor deadline run out, and the deadline leaves the planned days; with a slow S3, or under the fallback plan, the warm-up still ends |
| `backup` | two jobs, one definition, one restart | the table implements JobLedger; a terminal status is final; a running row has a goroutine; the kill that follows the mark of a cancel cannot miss; a clean completion is catalogued (a sync under way or cut off by a restart aside, and the sync of any later backup makes up for that one); a cancelled job's goroutine ends even if rustic hangs; a scheduled job ends |
| `catalog` | one snapshot, two row ids, two rebuilds, any number of restarts | a listing never outlives its row; a browse shows a snapshot that has files as empty only if it was deleted meanwhile or a rebuild has emptied the index; a successful rebuild has indexed all it selected; an indexing ends |
| `schedule` | one definition, three requests, one restart | no definition has two entries; a quiet cron table is what the saved definitions ask for whenever the last reload applied is the last to have read |
| `job_log` | three lines of buffer, a log of up to five, one restart | the stream implements LogFeed; a log that fits comes without a gap and without being stuck; the stream of a completed or failed job ends |
| `deployment` | one stack, two processes, three requests, one restart | the proxy serves what is saved; a stack has one distribution; an enabled path can read packs and list the bucket, whichever calls failed before; a complete setup opens its repository; every request ends and no row of a deployment stays running |
| `job_log_shared` | as `job_log` | *violated*: the log saved with a backup may hold lines of a restore |
| `restore_signal` | as `restore` | *violated*: a restore with fewer batches than the index never prints the sentinel, contrary to docs/design.md |
| `catalog_repair` | one rebuild | *violated*: a rebuild cannot add a snapshot that the catalog misses |
| `redeploy` | as `deployment` | *violated*: deploying a set-up server again replaces both copies of the password, and `rustic init` then refuses the repository |
| `restore_egress` | as `deployment` | *violated*: a restore that chose the proxy has nothing to fall back to when a disable stops it during the thaw |

The five violated properties state what the documentation or a comment says;
`PROJECT.json` quotes each line under "findings".

Two more disagreements are part of the models but of no run. The reconciliation
of the restores is not awaited, so it may find a row that a request of this very
process has created and mark it failed as interrupted, while its goroutine goes
on (`ReconcileRow`; resume.go:16-17 says no goroutine is alive for such a row);
the goroutine's own verdict then replaces that one. And a reload that read the
definitions before a disable may apply after the reload of the disable
(`ReloadReads`, `ReloadApplies`): the entry of the disabled definition is back
until the next reload (docs/pages.md:27 says the button pauses the schedule).

Bounds, and why they are enough:

- One restore job: jobs share no row and no goroutine; the races are between
  the two runs of one job, the hook and the reconciliation, all present. Two
  index batches are the least that tell the last batch from the first and the
  plan from the need. One restart already produces two lives of the process
  and a resumed run racing a new one; the proofs remove all three bounds for
  every invariant.
- Pack counts include zero (clamped), the batch boundary (1000 and 1001) and
  three batches; two packs per batch are the least in which one thaws early
  and one late. With a 24 h step the clock meets the 48 h SLA, the daily
  expiry and the attempt boundaries exactly.
- Two backup jobs with one definition overlap in every way two runs can,
  including a sync that lists the other's snapshot.
- One snapshot and two row ids allow a deleted snapshot to come back as a new
  row; two rebuilds are the least that interleave.
- Three requests on one definition: one creates it and two overlap with their
  reloads. Calls and paths are symmetric, and the run checks no liveness. The
  proofs remove the bounds.
- Three deployment requests are the least that fail, retry and overlap with a
  third (a deployment that fails, an enable that repeats it, a disable or a
  restore beside them); two processes are the least that race for the flag,
  the names and the mutex. With two stacks and no restart the invariants hold
  too (12.4 million states, too many for a regular run). The proofs remove the
  bounds for every invariant.
- Three lines of buffer with five lines written: the buffer wraps before,
  between and after the polls of a stream; one restore line is enough to mix
  two logs.

`CHECK_DEADLOCK FALSE` is set everywhere since a system with nothing to do and
no request, restart or deadline left within the bounds stops.

### Fairness

- RestoreLifecycle: weak fairness of `Work`, everything the process, rustic
  and AWS do by themselves. The Go scheduler runs some runnable goroutine;
  rustic and the tool answer, because the wrapper gives up after three
  attempts. A single weak fairness suffices since a life of the process has
  finitely many such steps (`RunsComeToAnEnd`, for the steps of runs and
  hooks). No fairness on requests, deadlines, restarts.
- WarmupBatches: weak fairness of `Next`: time passes.
- BackupJobs: per job, weak fairness of the goroutine's own steps, of an
  accepted cancel, of the twelve-hour deadline and of a kill. None on rustic:
  it may hang, which is the case cancel and deadline are for.
- JobLog: weak fairness of the two halves of a poll: the ticker goes on while
  the connection is open.
- Deployment: per process, weak fairness of the steps that move it: goroutines
  run on, calls to AWS, `rustic init` and restores end one way or the other,
  and `Reload` holds the mutex for at most the eight seconds of its timeouts.
  No fairness on requests and restarts.
- Catalog: weak fairness of each indexing, since `rustic ls` ends in a listing
  or an error.

## The proofs

Theorems hold for every value of the constants. Each model's `Spec => []TypeOK`
(`TypeCorrect`) comes first; then, along an inductive invariant `I` with
`Init => I` and `I /\ [Next]_vars => I'`, the property that `I` implies.

*RestoreLifecycleProofs* assumes `IndexBatches \in Nat \ {0}` and
`MaxRestarts \in Nat`.

- `WarmupNotifiedOnce`: "at most one notice" is not inductive, since a notice
  may still be on its way. `ClaimedOnce` adds that: the notices sent plus one
  in the outbox are at most one if `warmup_notified_at` is set, and none if it
  is not. A restart empties the outbox, which is why nothing better than
  at-most-once holds.
- `CompletedIsRestored`: `completed` is written by a run in station `mark`,
  which it reaches only through `exited`, after rustic has written the files
  (`WrittenFirst`), and `restored` is never reset (`OnlyRestoredCompletes`).
- `SignalIsHonest`: the sentinel in the pipe, the hook between reading and
  claiming, and the claim in the row each imply that the job's packs are
  thawed or that some run fell back (`SentinelHonest`, `ClaimHonest`). To know
  this when the sentinel is printed one needs that a run's plan covers what
  the job needs unless it fell back, that its batch counter stays within the
  need, and that the need stays within the index (`PlanCovers`, `WithinNeed`,
  `NeedWithinIndex`): then the plan's last batch can only be the last needed.

*RestoreOutcomeProofs* builds on it.

- `NobodyIsLeft` (`NoRowLeftBehind`): `Held` says of each row under way that it
  has a live run, a triage to come, or a lost last UPDATE (`lost`, which the
  next start takes back). A hook that outlived its run could put a
  row back under way with nobody behind it. `QuietPipe` excludes that: outside
  rustic's stations a run has drained its pipe, so a hook with work to do has
  a live run. It needs in turn that no run is started over one that lives
  (`NoSecondStart`): Initiate only for an absent row, a resume only for a row
  that one SELECT has returned once.
- `FullRestoreIsSignalled`: `Announces` says of each run that its plan has at
  most the batches of the index, that it downloads after the last batch its
  job needs, and that a wrapper that has reached its plan has put the sentinel
  into the pipe, where it stays until it becomes a claim. A run in `mark` has a
  drained pipe, so only the claim is left.
- `RunsComeToAnEnd`: `Left` counts the stations, batches and lines a run has
  still to go through. It is a natural number because of `WithinNeed`; each
  step of the run or its hook lowers it, a deadline never raises it, and no
  other run's step changes it.

*WarmupBatchesProofs* assumes that pack counts and rates are sets of naturals
and clock steps positive. Its invariant `IInv` bounds, while S3 is prompt, how
late each attempt and each batch can be and how much life every copy of an
earlier batch has left, in terms of the batches still to come; batch `k+1`
starts at most 48 h after batch `k`, so `2(N-k)` days telescope. From it
follow `CopiesReachTheDownload`, `PromptS3NeverGivesUp` and
`DeadlineLeavesTheDownload`, for any number of batches. No theorem claims the
last day of the download: the expiry formula does not cover it. About the
plan itself `PlanIsTight` shows that its ceilings are least (every pack has a batch and no
batch is spare, and so for the download days) and that a deadline is at least
the 96 h of one batch; `UpperBoundIsSafe` is the comment of `warmup_plan.go`
that "sizing from the upper bound is the safe direction": more packs never make
a batch, a day, the deadline or the life of a copy less.

*BackupJobsProofs* assumes that neither `NoDef` nor the word for an absent
catalog entry is a definition, and `MaxRestarts \in Nat`. `Fits` relates each
job's row, goroutine and snapshot: a row is running only with a goroutine,
completed only behind the last guarded update, with exactly one notice then
(`RowFits`); a snapshot that was written is in every later listing, and a sync
that ended without an error has upserted it (`SnapshotFits`). From it follow
`GoroutineBehindRow`, `CompletedInCatalog` and the
refinement `TableImplementsLedger`, whose mapping is the status and notices of
each row; `VerdictStands` (`TerminalIsFinal`) is an action property from the
same invariant. `LaterSyncCatalogs` (`LaterSyncRepairs`) needs `Relisted`: a
snapshot whose sync was cut off is in the repository, so every sync that is
adding snapshots has listed it and has either still to add it or found it
added.
`MarkedIsKilled` (`CancelReaches`) is the safety half of `CancelEndsTheRun`:
from the mark to the goroutine's return the context is done, or the request
holds the call and the registry the function. It rests on `KillFits`, which
places the registration between the start of rustic and the return; that the request,
the killed rustic and the goroutine then go on is fairness, and stays with TLC.

*CatalogProofs* assumes `MaxRows \in Nat` and that `None` is no snapshot.
`ListingHasRow` rests on the foreign key and its cascade alone. `EmptyBrowse`
needs that an id not yet handed out has no entry, no indexing, no browse and no
rebuild (`FreshIds`), so that a new row cannot inherit a finished entry, and
that a finished entry and a browse that has passed its check vouch for
the listing until a rebuild empties the index (`Vouched`); that a row keeps its snapshot for as long as it
exists (`SnapshotStays`) lets this last from the check to the query.
`RebuildIndexes` needs to know who makes up for a listing that another rebuild
has dropped: a rebuild that still owes the row (`Settled`, `Owes`).

*ScheduleReloadProofs* needs only `MaxRestarts \in Nat`. `AtMostOneEntry`
rests on `EntriesTracked` (the map knows every entry of the daemon, so a reload
removes all of them) and `ReadOnce` (a read holds a definition once).
`QuietTable` is strengthened to `LastReadIsCurrent`: once every request has
been followed by a read, the last read, whether still in a reload or already in
the table, holds the definitions as they are; `TicketsAreOld` tells the last
read from the others.

*JobLogProofs* assumes a buffer of at least one line. `Holds`: the slots of
the last `Cap` positions hold their lines; a write keeps it because fewer than
`Cap` places apart two positions have different slots (`Apart`), and `Lines`
returns them in order because going on from the slot of `pos` is the same as
going on from the slot a whole buffer earlier (`Around`). `Followed`: the
client has nothing beyond the position it has counted to, in increasing order,
and everything up to it while the log fits. `StreamImplementsFeed` (the
refinement of LogFeed, whose log is the places of the lines received) and
`ShortLogComplete` follow.

*DeploymentProofs* assumes that `None` is neither a process nor a stack, and
natural bounds.

- `OneDistribution`: nothing serialises two provisioning runs, so "one
  distribution" needs `Ticketed`: the name of the origin access control, the
  first that a run creates, is held by one run per stack and never given back,
  and a stack with a distribution has given it out.
- `ProxyFollowsStore`: `Guarded` says that the process between the reads of
  `Reload` holds the mutex, and that what it has read is what is stored unless
  another process, which changed it, waits for the mutex; `Whole` that what is
  enabled has everything `Reload` asks for, so that no reload gives up.
- Both invariants that follow hold while no two runs have overlapped, so both
  rest on `Single`: one worker, on the one stack there has been. `Sorted` says
  what a request carries where it is; `StepWalks` that a step follows an arc
  of the table `Arc`, leaves for the configuration or ends the request.
- `SetupOpens` (`SetupOpensRepository`): `Configured` says what an unfinished
  deployment has written at each of its places: which stack `rustic.toml`
  names, that the new password is in the file, then in both copies, and that
  `rustic init` made the repository with it. A complete setup has no
  deployment left that could write something else.
- `RestoresRead` (`RestoreReadsSucceed`): `Keyed` says which keys, which trust
  and which bucket policy a run that failed has left behind. A run makes a new
  key only while none is stored, and saves it only after the distribution
  trusts it and the bucket lets the distribution in; a run without one saves
  the key that is stored. With that, what is stored is served; `Found` and
  `OneStack` say that distribution and bucket are those of the stack,
  `Granted` that a policy never lets in a distribution of another stack, and
  `Paired`, `Aimed` and the invariant of `ProxyFollowsStore` carry this from
  `aws_config` to the proxy.
- `NoRowIsLeft` and `StepsDescend` are what `RequestsEnd` comes to without
  fairness: a row says running only while its request is at work (`Attended`),
  and every step, failed calls included, takes a request to a place of lower
  `Height`, so that at most nineteen are left to take.

Proved for all values of the constants: every invariant and every action
property that a passing run checks, and both refinements. Only model-checked:
the liveness properties (`~>` and `[]<>` under fairness are beyond the prover's
reach, and so is that a step stays enabled), for two of which the theorems on
`Left` and `Height` give the reason why nothing goes on for ever.

## Abstractions

- A SQL statement is one atomic step, and SQLite errors other than the ones
  modelled (a context that is over, a foreign key, a guard that matches no
  row) are left out. The write lock is taken as always granted in the end.
- Log lines, formats and stored messages are left out, except those another
  part reacts to (the Batch job id, the sentinel) and the class of an error.
- Apprise is a send that happens or not; its configuration may also suppress
  it, which only removes notices.
- S3 counts the life of a copy from its thaw and rounds it up to the end of a
  day.
- Deployments use rows of `backup_jobs` too; they cannot be cancelled and are
  part of Deployment and, with their log, of JobLog, not of BackupJobs.
- A deployment's calls to CDK, CloudFormation and IAM are one step that
  succeeds or fails; what they leave of use to a retry is the stack itself,
  which CDK finds again. CloudFront's calls are one step each.
- `again` and `overlapped` only record: no action is forbidden by them. The
  properties that name them as exceptions say so.

## Plan

Done: RestoreLifecycle, WarmupPlan, WarmupBatches, BackupJobs, Catalog,
ScheduleReload, JobLog, CloudFrontPath and Deployment; the abstract JobLedger
and LogFeed with their refinements; the theorems above.

Left: a composition of RestoreLifecycle with Catalog, in which a deletion takes
the packs of a snapshot that a restore thaws, rather than only its row; for the
liveness of backups, indexing and log streams, counts like `Left` and `Height`.

## Not modelled

- Sessions, second factor, API tokens and OIDC: every request is checked by
  itself against single rows of `app_config`, `login_attempts` and
  `api_tokens`; they share no state with jobs, catalog, restores or deployment,
  and what is hard in them is a library's protocol or a hash.
- The handlers that read AWS or the disk and report (estimates, validation,
  browsing of directories, settings of notifications and of the snapshot-delete
  grant): one statement or one call each, and no later step depends on the
  order in which they happen.
- Parsers of rustic's output, rendering of configurations, the CloudFront
  signer and encryption at rest: functions over bytes, which the models use by
  what they return.
- Migrations, beyond the constraints and defaults they declare, which are part
  of the modelled statements.
- The web frontend, which renders what the API returns; its polling is the
  client of JobLog and Catalog.
