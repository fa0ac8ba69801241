---------------------------- MODULE WarmupBatches ----------------------------
(***************************************************************************)
(* The warm-up of one restore in time: rustic calls the wrapper            *)
(* src/docker/glaciervault-warmup.sh once per batch of packs, each batch's *)
(* packs thaw one by one, each copy lives its expiry from its own thaw,    *)
(* and the download starts when the last batch has thawed.                 *)
(*                                                                         *)
(* S3 is external: a pack asked for thaws at any moment, within the SLA if *)
(* S3 keeps it.                                                            *)
(***************************************************************************)
EXTENDS WarmupPlan

CONSTANTS
    PackCounts,     \* data pack counts the repository index may report
    Rates,          \* download rates the user may have configured
    Packs,          \* the packs of a batch
    Steps           \* bound: by how many hours the clock may advance at once

ASSUME PlanInputs == PackCounts \subseteq Nat /\ Rates \subseteq Nat
ASSUME StepsPositive == Steps \subseteq Nat \ {0}

VARIABLES
    plan,           \* warmup-plan.txt
    prompt,         \* S3 keeps the Bulk tier's SLA and reports no error
    needed,         \* batches the snapshot needs: the index is an upper bound,
                    \* the plan of one batch without a count is none
    clock,          \* hours since the restore's deadline started to run
    phase,          \* where the warm-up stands
    BATCH,          \* the wrapper's batch counter
    attempt,        \* the wrapper's attempt on this batch
    attemptAt,      \* when that attempt started
    asked,          \* pack of this batch -> when it was asked for
    until,          \* batch, pack -> when its copy expires; 0 if it has none
    downloadAt      \* when the download started

vars == <<plan, prompt, needed, clock, phase, BATCH, attempt, attemptAt,
          asked, until, downloadAt>>

Batches == 1 .. needed

\* What the sizing relies on: S3 is prompt, and the plan covers the batches, as
\* it does whenever the index was counted.
Planned == prompt /\ needed <= plan.batches

ExpiryHours == 24 * ExpiryDays(plan, BATCH)

Frozen(p) == until[BATCH][p] = 0

\* The moment the SLA obliges S3 to have thawed a pending pack.
Due(p) == asked[p] + bulkThawMaxHours

WithinSLA(t) == prompt => \A p \in Packs : Frozen(p) => t <= Due(p)

AllThawed == \A p \in Packs : ~Frozen(p)

TypeOK ==
    /\ plan \in Plan
    /\ prompt \in BOOLEAN
    /\ needed \in Nat \ {0}
    /\ clock \in Nat
    /\ phase \in {"warm", "thawing", "download", "failed"}
    /\ BATCH \in 0 .. needed
    /\ attempt \in 0 .. maxWarmupAttempts
    /\ attemptAt \in Nat
    /\ asked \in [Packs -> Nat]
    /\ until \in [Batches -> [Packs -> Nat]]
    /\ downloadAt \in Nat

-----------------------------------------------------------------------------

\* The restore plans from the packs of the index, or for a single batch if it
\* cannot count them.
Init ==
    /\ \E packs \in PackCounts, rate \in Rates, counted \in BOOLEAN :
          /\ plan = ComputeWarmupPlan(IF counted THEN packs ELSE 1, rate)
          /\ needed \in 1 .. ComputeWarmupPlan(packs, rate).batches
    /\ prompt \in BOOLEAN
    /\ clock = 0
    /\ phase = "warm"
    /\ BATCH = 0
    /\ attempt = 0
    /\ attemptAt = 0
    /\ asked = [p \in Packs |-> 0]
    /\ until = [k \in Batches |-> [p \in Packs |-> 0]]
    /\ downloadAt = 0

\* The wrapper is called with the next key set: it counts the batch, sets its
\* expiry and runs the tool, which asks S3 for every pack.
NextBatch ==
    /\ phase = "warm"
    /\ BATCH < needed
    /\ BATCH' = BATCH + 1
    /\ attempt' = 1
    /\ attemptAt' = clock
    /\ asked' = [p \in Packs |-> clock]
    /\ phase' = "thawing"
    /\ UNCHANGED <<plan, prompt, needed, clock, until, downloadAt>>

\* S3 finishes one pack and its copy starts to age.
Thaw(p) ==
    /\ phase = "thawing"
    /\ Frozen(p)
    /\ until' = [until EXCEPT ![BATCH][p] = clock + ExpiryHours]
    /\ UNCHANGED <<plan, prompt, needed, clock, phase, BATCH, attempt,
                   attemptAt, asked, downloadAt>>

\* The tool has seen every pack of the batch thaw and exits 0.
BatchDone ==
    /\ phase = "thawing"
    /\ AllThawed
    /\ phase' = "warm"
    /\ UNCHANGED <<plan, prompt, needed, clock, BATCH, attempt, attemptAt,
                   asked, until, downloadAt>>

\* The tool's wait budget is over: "Timed out waiting for".  The wrapper's
\* pause before a retry puts this after any thaw that is due now.
TimedOut ==
    /\ phase = "thawing"
    /\ clock >= attemptAt + ExpiryHours
    /\ ~AllThawed
    /\ WithinSLA(clock + 1)

\* S3 rounds an expiry up to the end of a day, so the wrapper's pause before a
\* retry does not cost a copy that expires at that very hour.
Live(p) == until[BATCH][p] >= clock

\* A new attempt submits every key again: live copies get a fresh expiry,
\* copies that have expired are asked for again, pending ones keep waiting.
Retry ==
    /\ TimedOut
    /\ attempt < maxWarmupAttempts
    /\ attempt' = attempt + 1
    /\ attemptAt' = clock
    /\ asked' = [p \in Packs |-> IF Frozen(p) \/ Live(p) THEN asked[p]
                                                          ELSE clock]
    /\ until' = [until EXCEPT ![BATCH] =
                   [p \in Packs |-> IF ~Frozen(p) /\ Live(p)
                                    THEN clock + ExpiryHours ELSE 0]]
    /\ UNCHANGED <<plan, prompt, needed, clock, phase, BATCH, downloadAt>>

\* Out of attempts: the wrapper exits 1 and rustic fails.
GiveUp ==
    /\ TimedOut
    /\ attempt = maxWarmupAttempts
    /\ phase' = "failed"
    /\ UNCHANGED <<plan, prompt, needed, clock, BATCH, attempt, attemptAt,
                   asked, until, downloadAt>>

\* "A real error": the wrapper passes it on at once, without a retry.
ToolFails ==
    /\ phase = "thawing"
    /\ ~prompt
    /\ phase' = "failed"
    /\ UNCHANGED <<plan, prompt, needed, clock, BATCH, attempt, attemptAt,
                   asked, until, downloadAt>>

\* The restore's context deadline passes and rustic is killed.
Deadline ==
    /\ phase = "thawing"
    /\ clock >= plan.timeout
    /\ phase' = "failed"
    /\ UNCHANGED <<plan, prompt, needed, clock, BATCH, attempt, attemptAt,
                   asked, until, downloadAt>>

\* Mutant: the download waits for as many batches as the index calls for.
DownloadAfterPlan ==
    /\ phase = "warm"
    /\ BATCH = plan.batches
    /\ phase' = "download"
    /\ downloadAt' = clock
    /\ UNCHANGED <<plan, prompt, needed, clock, BATCH, attempt, attemptAt,
                   asked, until>>

StartDownload ==
    /\ phase = "warm"
    /\ BATCH = needed
    /\ phase' = "download"
    /\ downloadAt' = clock
    /\ UNCHANGED <<plan, prompt, needed, clock, BATCH, attempt, attemptAt,
                   asked, until>>

\* Time passes while packs thaw, never past the moment a thaw or a timeout is
\* due.
Advance ==
    /\ phase = "thawing"
    /\ ~AllThawed
    /\ \E d \in Steps :
          /\ WithinSLA(clock + d)
          /\ clock + d <= attemptAt + ExpiryHours
          /\ clock + d <= plan.timeout
          /\ clock' = clock + d
    /\ UNCHANGED <<plan, prompt, needed, phase, BATCH, attempt, attemptAt,
                   asked, until, downloadAt>>

Next ==
    \/ NextBatch \/ BatchDone \/ Retry \/ GiveUp \/ ToolFails \/ Deadline
    \/ StartDownload \/ Advance
    \/ \E p \in Packs : Thaw(p)

Spec == Init /\ [][Next]_vars /\ WF_vars(Next)

-----------------------------------------------------------------------------
(* Properties *)

\* If S3 keeps its SLA and the index was counted, every copy the restore needs is
\* still there when the download starts, and stays for all but the last day of
\* the planned download: docs/workflow.md:143-145 counts from the thaw of a whole
\* batch, but a copy ages from its own, up to 48 h earlier.
CopiesReachDownload ==
    Planned /\ phase = "download" =>
        \A k \in 1 .. needed, p \in Packs :
            /\ until[k][p] >= downloadAt
            /\ until[k][p] + 24 >= downloadAt + 24 * plan.downloadDays

\* While S3 keeps its SLA neither the wrapper's three attempts per batch nor
\* the deadline of a restore that counted the index run out.
SLANeverGivesUp == Planned => phase # "failed"

\* While S3 keeps its SLA the deadline leaves the download its planned days and
\* one more, if the index was counted.
DeadlineLeavesDownload ==
    Planned /\ phase = "download" =>
        downloadAt + 24 * (plan.downloadDays + 1) <= plan.timeout

\* Whatever the thaw order, a prompt S3 brings a restore that counted the index
\* to its download, and no other restore waits for ever.
WarmupEnds ==
    /\ Planned ~> phase = "download"
    /\ ~Planned ~> phase \in {"download", "failed"}

=============================================================================
