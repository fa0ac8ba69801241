------------------------- MODULE WarmupBatchesProofs -------------------------
(***************************************************************************)
(* Proofs about WarmupBatches for any pack counts, rates, packs per batch  *)
(* and time steps.                                                         *)
(***************************************************************************)
EXTENDS WarmupBatches, TLAPS

\* A ceiling of a positive number is positive.
LEMMA CeilDivPositive ==
    ASSUME NEW a \in Nat \ {0}, NEW b \in Nat \ {0}
    PROVE  CeilDiv(a, b) \in Nat \ {0}
<1>1. a + b - 1 \in Nat /\ a + b - 1 >= b
  OBVIOUS
<1>2. ASSUME NEW n \in Nat, n >= b PROVE n \div b \in Nat \ {0}
  <2>1. /\ n = b * (n \div b) + (n % b) /\ (n % b) \in 0 .. b - 1
        /\ n \div b \in Int
    OBVIOUS
  <2>2. CASE n \div b <= 0
    <3>1. b * (n \div b) <= 0
      BY <2>1, <2>2
    <3>. QED
      BY <1>2, <2>1, <3>1
  <2>. QED
    BY <2>1, <2>2
<1>. QED
  BY <1>1, <1>2 DEF CeilDiv

\* The plan the code computes from any counts has the shape of a Plan: at least
\* one batch, and a day of headroom exactly when there are several.
LEMMA ComputedPlan ==
    ASSUME NEW packs \in Nat, NEW rate \in Nat
    PROVE  ComputeWarmupPlan(packs, rate) \in Plan
<1>. DEFINE n == AtLeastOne(packs)
            r == AtLeastOne(rate)
            N == CeilDiv(n, warmupBatchSize)
            d == Headroom(N, n, r)
<1>1. n \in Nat \ {0} /\ r \in Nat \ {0}
  BY DEF AtLeastOne
<1>2. N \in Nat \ {0}
  BY <1>1, CeilDivPositive DEF warmupBatchSize
<1>3. DownloadDays(n, r) \in Nat \ {0}
  <2>1. 2 * r \in Nat \ {0}
    BY <1>1
  <2>. QED
    BY <1>1, <2>1, CeilDivPositive DEF DownloadDays
<1>4. d \in Nat /\ (N = 1 <=> d = 0)
  BY <1>2, <1>3 DEF Headroom
<1>5. perBatchWaitHours * N + 24 * (d + 1) \in Nat
  BY <1>2, <1>4 DEF perBatchWaitHours, warmupAttemptHours, maxWarmupAttempts
<1>. HIDE DEF n, r, N, d
<1>6. [batches |-> N, downloadDays |-> d,
       timeout |-> perBatchWaitHours * N + 24 * (d + 1)] \in Plan
  BY <1>2, <1>4, <1>5 DEF Plan
<1>. QED
  BY <1>6 DEF ComputeWarmupPlan, n, r, N, d

\* A ceiling is the least number of parts of size b that hold a.
LEMMA CeilDivHolds ==
    ASSUME NEW a \in Nat \ {0}, NEW b \in Nat \ {0}
    PROVE  /\ a <= b * CeilDiv(a, b)
           /\ b * CeilDiv(a, b) - b < a
<1>. DEFINE m == a + b - 1
            q == m \div b
<1>1. m \in Nat
  OBVIOUS
<1>2. ASSUME NEW n \in Nat PROVE n = b * (n \div b) + (n % b) /\ (n % b) \in 0 .. b - 1
  OBVIOUS
<1>3. m = b * q + (m % b) /\ (m % b) \in 0 .. b - 1
  BY <1>1, <1>2
<1>4. CeilDiv(a, b) = q /\ q \in Nat
  BY CeilDivPositive DEF CeilDiv
<1>5. b * q \in Nat
  BY <1>4
<1>. HIDE DEF q
<1>6. a <= b * q /\ b * q - b < a
  BY <1>3, <1>5
<1>. QED
  BY <1>4, <1>6

LEMMA TimesGrows ==
    ASSUME NEW c \in Nat, NEW x \in Nat, NEW y \in Nat, x <= y
    PROVE  c * x <= c * y
OBVIOUS

LEMMA CeilDivGrows ==
    ASSUME NEW a \in Nat \ {0}, NEW c \in Nat \ {0}, NEW b \in Nat \ {0}, a <= c
    PROVE  CeilDiv(a, b) <= CeilDiv(c, b)
<1>. DEFINE x == CeilDiv(a, b)
            y == CeilDiv(c, b)
<1>1. x \in Nat /\ y \in Nat
  BY CeilDivPositive
<1>2. b * x - b < a /\ c <= b * y
  BY CeilDivHolds
<1>. HIDE DEF x, y
<1>3. ASSUME y + 1 <= x PROVE FALSE
  <2>1. b * (y + 1) <= b * x
    BY <1>1, <1>3, TimesGrows
  <2>2. b * (y + 1) = b * y + b
    BY <1>1
  <2>. QED
    BY <1>1, <1>2, <2>1, <2>2
<1>4. x <= y
  BY <1>1, <1>3
<1>. QED
  BY <1>4 DEF x, y

\* The plan has room for every pack of the index and no batch too many; the
\* days for the download of several batches suffice at the configured rate (two
\* packs to a GB), and none is to spare; and the deadline is never under the
\* 96 hours of a single batch.
THEOREM PlanIsTight ==
    ASSUME NEW packs \in Nat, NEW rate \in Nat
    PROVE  LET p == ComputeWarmupPlan(packs, rate)
               n == AtLeastOne(packs)
               r == 2 * AtLeastOne(rate)
           IN  /\ n <= 1000 * p.batches /\ 1000 * p.batches - 1000 < n
               /\ p.batches > 1 => /\ n <= r * p.downloadDays
                                   /\ r * p.downloadDays - r < n
               /\ p.timeout >= 96
<1>. DEFINE n == AtLeastOne(packs)
            r == AtLeastOne(rate)
            p == ComputeWarmupPlan(packs, rate)
<1>1. n \in Nat \ {0} /\ r \in Nat \ {0} /\ 2 * r \in Nat \ {0}
  BY DEF AtLeastOne
<1>2. p.batches = CeilDiv(n, 1000)
  BY DEF ComputeWarmupPlan, warmupBatchSize
<1>3. p.batches > 1 => p.downloadDays = CeilDiv(n, 2 * r)
  BY DEF ComputeWarmupPlan, Headroom, DownloadDays
<1>4. n <= 1000 * CeilDiv(n, 1000) /\ 1000 * CeilDiv(n, 1000) - 1000 < n
  BY <1>1, CeilDivHolds
<1>5. n <= (2 * r) * CeilDiv(n, 2 * r) /\ (2 * r) * CeilDiv(n, 2 * r) - 2 * r < n
  BY <1>1, CeilDivHolds
<1>6. p.timeout >= 96
  <2>1. p \in Plan
    BY ComputedPlan
  <2>. HIDE DEF p
  <2>. QED
    BY <2>1 DEF Plan, perBatchWaitHours, warmupAttemptHours, maxWarmupAttempts
<1>. HIDE DEF n, r, p
<1>7. /\ n <= 1000 * p.batches /\ 1000 * p.batches - 1000 < n
      /\ p.batches > 1 => /\ n <= (2 * r) * p.downloadDays
                          /\ (2 * r) * p.downloadDays - 2 * r < n
  BY <1>2, <1>3, <1>4, <1>5
<1>. QED
  BY <1>6, <1>7 DEF n, r, p

\* "Sizing from the upper bound is the safe direction" (warmup_plan.go): the
\* plan for more packs than a restore needs has at least its batches, its days
\* and its deadline, and lets the copies of each batch live at least as long.
THEOREM UpperBoundIsSafe ==
    ASSUME NEW few \in Nat, NEW many \in Nat, few <= many, NEW rate \in Nat
    PROVE  LET p == ComputeWarmupPlan(few, rate)
               q == ComputeWarmupPlan(many, rate)
           IN  /\ p.batches <= q.batches /\ p.downloadDays <= q.downloadDays
               /\ p.timeout <= q.timeout
               /\ \A k \in 1 .. p.batches : ExpiryDays(p, k) <= ExpiryDays(q, k)
<1>. DEFINE n == AtLeastOne(few)
            m == AtLeastOne(many)
            r == AtLeastOne(rate)
            p == ComputeWarmupPlan(few, rate)
            q == ComputeWarmupPlan(many, rate)
<1>1. /\ n \in Nat \ {0} /\ m \in Nat \ {0} /\ n <= m /\ r \in Nat \ {0}
      /\ 2 * r \in Nat \ {0}
  BY DEF AtLeastOne
<1>2. /\ p.batches = CeilDiv(n, 1000) /\ q.batches = CeilDiv(m, 1000)
      /\ p.downloadDays = IF p.batches > 1 THEN CeilDiv(n, 2 * r) ELSE 0
      /\ q.downloadDays = IF q.batches > 1 THEN CeilDiv(m, 2 * r) ELSE 0
  BY DEF ComputeWarmupPlan, warmupBatchSize, Headroom, DownloadDays
<1>3. p \in Plan /\ q \in Plan
  BY ComputedPlan
<1>4. CeilDiv(n, 1000) <= CeilDiv(m, 1000) /\ CeilDiv(n, 2 * r) <= CeilDiv(m, 2 * r)
  BY <1>1, CeilDivGrows
<1>. HIDE DEF n, m, r, p, q
<1>5. /\ p.batches \in Nat \ {0} /\ p.downloadDays \in Nat
      /\ q.batches \in Nat \ {0} /\ q.downloadDays \in Nat
      /\ p.timeout = 72 * p.batches + 24 * (p.downloadDays + 1)
      /\ q.timeout = 72 * q.batches + 24 * (q.downloadDays + 1)
  BY <1>3 DEF Plan, perBatchWaitHours, warmupAttemptHours, maxWarmupAttempts
<1>6. p.batches <= q.batches /\ p.downloadDays <= q.downloadDays
  BY <1>2, <1>4, <1>5
<1>7. p.timeout <= q.timeout
  BY <1>5, <1>6
<1>8. ASSUME NEW k \in 1 .. p.batches PROVE ExpiryDays(p, k) <= ExpiryDays(q, k)
  BY <1>5, <1>6 DEF ExpiryDays, AtLeastOne
<1>. QED
  BY <1>6, <1>7, <1>8 DEF p, q

-----------------------------------------------------------------------------
(* Type correctness *)

\* A copy lives at least a day, and as many as the plan says in a batch that the
\* plan knows of.
LEMMA ExpiryHoursType ==
    ASSUME TypeOK
    PROVE  /\ ExpiryHours \in Nat
           /\ BATCH <= plan.batches =>
                ExpiryHours = 48 * (plan.batches - BATCH)
                               + 24 * plan.downloadDays + 24
<1>. DEFINE e == 2 * (plan.batches - BATCH) + plan.downloadDays + 1
<1>1. /\ plan.batches \in Nat /\ plan.downloadDays \in Nat
      /\ BATCH \in Nat
  BY DEF TypeOK, Plan
<1>2. ExpiryHours = 24 * AtLeastOne(e)
  BY DEF ExpiryHours, ExpiryDays
<1>3. e \in Int /\ (BATCH <= plan.batches => e >= 1)
  BY <1>1
<1>4. AtLeastOne(e) \in Nat /\ (BATCH <= plan.batches => AtLeastOne(e) = e)
  <2>. HIDE DEF e
  <2>. QED
    BY <1>3 DEF AtLeastOne
<1>. QED
  BY <1>1, <1>2, <1>4

LEMMA TypeInit == Init => TypeOK
<1>. SUFFICES ASSUME Init PROVE TypeOK
  OBVIOUS
<1>1. PICK packs \in PackCounts, rate \in Rates, counted \in BOOLEAN :
         /\ plan = ComputeWarmupPlan(IF counted THEN packs ELSE 1, rate)
         /\ needed \in 1 .. ComputeWarmupPlan(packs, rate).batches
  BY DEF Init
<1>2. plan \in Plan
  <2>1. (IF counted THEN packs ELSE 1) \in Nat /\ rate \in Nat
    BY PlanInputs
  <2>. QED
    BY <1>1, <2>1, ComputedPlan
<1>3. ComputeWarmupPlan(packs, rate).batches \in Nat
  <2>1. ComputeWarmupPlan(packs, rate) \in Plan
    BY PlanInputs, ComputedPlan
  <2>. QED
    BY <2>1 DEF Plan
<1>4. needed \in Nat \ {0}
  BY <1>1, <1>3
<1>. QED
  BY <1>2, <1>4 DEF Init, TypeOK, Batches, maxWarmupAttempts

LEMMA TypeStep == TypeOK /\ [Next]_vars => TypeOK'
<1>. SUFFICES ASSUME TypeOK, [Next]_vars PROVE TypeOK'
  OBVIOUS
<1>0. needed \in Nat /\ BATCH \in Nat /\ BATCH <= needed
  BY DEF TypeOK
<1>1. CASE NextBatch
  BY <1>0, <1>1 DEF TypeOK, NextBatch, Batches, maxWarmupAttempts
<1>2. ASSUME NEW p \in Packs, Thaw(p) PROVE TypeOK'
  <2>1. CASE BATCH >= 1
    <3>1. clock + ExpiryHours \in Nat
      BY ExpiryHoursType DEF TypeOK
    <3>2. until' \in [Batches -> [Packs -> Nat]]
      BY <1>0, <1>2, <2>1, <3>1 DEF TypeOK, Thaw
    <3>. QED
      BY <1>2, <3>2 DEF TypeOK, Thaw, Batches
  <2>2. CASE ~(BATCH >= 1)
    <3>1. BATCH \notin Batches
      BY <1>0, <2>2 DEF Batches
    <3>2. until' = until
      BY <1>2, <3>1 DEF TypeOK, Thaw
    <3>. QED
      BY <1>2, <3>2 DEF TypeOK, Thaw, Batches
  <2>. QED
    BY <2>1, <2>2
<1>3. CASE BatchDone
  BY <1>3 DEF TypeOK, BatchDone, Batches
<1>4. CASE Retry
  <2>1. until' \in [Batches -> [Packs -> Nat]]
    <3>1. CASE BATCH >= 1
      <4>1. clock + ExpiryHours \in Nat
        BY ExpiryHoursType DEF TypeOK
      <4>. QED
        BY <1>0, <1>4, <3>1, <4>1 DEF TypeOK, Retry
    <3>2. CASE ~(BATCH >= 1)
      <4>1. BATCH \notin Batches
        BY <1>0, <3>2 DEF Batches
      <4>. QED
        BY <1>4, <4>1 DEF TypeOK, Retry
    <3>. QED
      BY <3>1, <3>2
  <2>2. asked' \in [Packs -> Nat]
    BY <1>4 DEF TypeOK, Retry
  <2>3. attempt' \in 0 .. maxWarmupAttempts
    BY <1>4 DEF TypeOK, Retry, maxWarmupAttempts
  <2>. QED
    BY <1>4, <2>1, <2>2, <2>3 DEF TypeOK, Retry, Batches
<1>5. CASE GiveUp
  BY <1>5 DEF TypeOK, GiveUp, Batches
<1>6. CASE Deadline
  BY <1>6 DEF TypeOK, Deadline, Batches
<1>7. CASE StartDownload
  BY <1>7 DEF TypeOK, StartDownload, Batches
<1>8. CASE Advance
  <2>1. clock' \in Nat
    BY <1>8, StepsPositive DEF TypeOK, Advance
  <2>. QED
    BY <1>8, <2>1 DEF TypeOK, Advance, Batches
<1>9. CASE ToolFails
  BY <1>9 DEF TypeOK, ToolFails, Batches
<1>10. CASE UNCHANGED vars
  BY <1>10 DEF TypeOK, vars, Batches
<1>. QED
  BY <1>1, <1>2, <1>3, <1>4, <1>5, <1>6, <1>7, <1>8, <1>9, <1>10 DEF Next

\* Every variable keeps its type, whatever the index, the link and S3 do.
THEOREM TypeCorrect == Spec => []TypeOK
  BY TypeInit, TypeStep, PTL DEF Spec

-----------------------------------------------------------------------------
(* The inductive invariant                                                 *)
(*                                                                         *)
(* Every conjunct is about a restore whose plan covers its batches and to  *)
(* which S3 keeps its SLA.  Two facts carry the argument: how late an      *)
(* attempt can be (Punctual), and that a copy made so far outlives the     *)
(* current attempt's start by as many hours as the batches still to come   *)
(* can take (Kept), a bound that does not mention the copy's own batch and *)
(* so passes from each batch to the next.                                  *)

\* Several batches: the expiry exceeds the SLA, so no attempt is repeated.
\* One batch: each attempt lasts a day, and the SLA two.
Punctual ==
    /\ attemptAt <= clock
    /\ plan.batches > 1 =>
          /\ attempt <= 1
          /\ clock <= attemptAt + bulkThawMaxHours
          /\ BATCH > 0 => attemptAt <= bulkThawMaxHours * (BATCH - 1)
          /\ BATCH = 0 => clock = 0
          /\ phase = "thawing" => \A p \in Packs : asked[p] = attemptAt
    /\ plan.batches = 1 =>
          /\ clock <= attemptAt + 24
          /\ clock <= bulkThawMaxHours
          /\ BATCH = 0 => clock = 0
          /\ BATCH > 0 => attemptAt = 24 * (attempt - 1)
          /\ phase = "thawing" => \A p \in Packs : asked[p] = 0

Kept ==
    \A k \in Batches, p \in Packs :
        k <= BATCH /\ until[k][p] # 0 =>
            until[k][p] >= attemptAt + bulkThawMaxHours * (plan.batches - BATCH)
                            + 24 * plan.downloadDays + 24

\* The batches behind are warm, and none ahead is.
Progress ==
    /\ phase = "thawing" => BATCH > 0 /\ attempt > 0
    /\ \A k \in Batches, p \in Packs :
          /\ k < BATCH => until[k][p] # 0
          /\ k > BATCH => until[k][p] = 0
          /\ k = BATCH /\ phase \in {"warm", "download"} => until[k][p] # 0
    /\ phase = "download" => BATCH = needed /\ downloadAt = clock
    /\ phase # "failed"

IInv == TypeOK /\ (Planned => Punctual /\ Kept /\ Progress)

LEMMA Numbers ==
    ASSUME TypeOK
    PROVE  /\ plan.batches \in Nat \ {0} /\ plan.downloadDays \in Nat
           /\ plan.batches = 1 <=> plan.downloadDays = 0
           /\ plan.timeout = 72 * plan.batches + 24 * (plan.downloadDays + 1)
           /\ needed \in Nat \ {0} /\ BATCH \in Nat /\ BATCH <= needed
           /\ Planned => needed <= plan.batches /\ BATCH <= plan.batches
           /\ clock \in Nat /\ attemptAt \in Nat
           /\ attempt \in Nat /\ attempt <= 3
  BY DEF TypeOK, Plan, Planned, perBatchWaitHours, warmupAttemptHours,
         maxWarmupAttempts

LEMMA InvInit == Init => IInv
<1>. SUFFICES ASSUME Init PROVE IInv
  OBVIOUS
<1>1. TypeOK
  BY TypeInit
<1>2. Punctual
  BY <1>1, Numbers DEF Init, Punctual, bulkThawMaxHours
<1>3. Kept
  BY DEF Init, Kept
<1>4. Progress
  BY DEF Init, Progress, Batches
<1>. QED
  BY <1>1, <1>2, <1>3, <1>4 DEF IInv

LEMMA NextBatchKeeps ==
    ASSUME IInv, Planned, NextBatch PROVE Punctual' /\ Kept' /\ Progress'
<1>. USE DEF NextBatch
<1>1. TypeOK /\ Punctual /\ Kept /\ Progress
  BY DEF IInv
<1>2. Punctual'
  BY <1>1, Numbers DEF Punctual, bulkThawMaxHours
<1>3. Progress'
  BY <1>1, Numbers DEF Progress, Batches
<1>4. Kept'
  <2>. SUFFICES ASSUME NEW k \in Batches, NEW p \in Packs,
                       k <= BATCH + 1, until[k][p] # 0
                PROVE  until[k][p] >= clock
                          + bulkThawMaxHours * (plan.batches - (BATCH + 1))
                          + 24 * plan.downloadDays + 24
    BY DEF Kept, Batches
  <2>1. k \in Nat /\ k <= BATCH
    BY <1>1, Numbers DEF Progress, Batches
  <2>2. until[k][p] \in Nat
    BY <1>1 DEF TypeOK
  <2>3. BATCH > 0
    BY <1>1, <2>1, Numbers DEF Batches
  <2>4. plan.batches > 1 /\ clock <= attemptAt + 48
    BY <1>1, <2>3, Numbers DEF Punctual, bulkThawMaxHours
  <2>5. until[k][p] >= attemptAt + 48 * (plan.batches - BATCH)
                          + 24 * plan.downloadDays + 24
    BY <1>1, <2>1 DEF Kept, bulkThawMaxHours
  <2>. QED
    BY <1>1, <2>2, <2>4, <2>5, Numbers DEF bulkThawMaxHours
<1>. QED
  BY <1>2, <1>3, <1>4

LEMMA ThawKeeps ==
    ASSUME IInv, Planned, NEW q \in Packs, Thaw(q)
    PROVE  Punctual' /\ Kept' /\ Progress'
<1>. USE DEF Thaw
<1>1. TypeOK /\ Punctual /\ Kept /\ Progress /\ BATCH > 0
  BY DEF IInv, Progress
<1>2. /\ ExpiryHours \in Nat
      /\ ExpiryHours = 48 * (plan.batches - BATCH)
                        + 24 * plan.downloadDays + 24
  BY <1>1, Numbers, ExpiryHoursType
<1>3. Punctual'
  BY <1>1 DEF Punctual
<1>4. \A k \in Batches, p \in Packs :
        until'[k][p] = IF k = BATCH /\ p = q THEN clock + ExpiryHours
                                             ELSE until[k][p]
  BY <1>1 DEF TypeOK
<1>5. Kept'
  <2>. SUFFICES ASSUME NEW k \in Batches, NEW p \in Packs,
                       k <= BATCH, until'[k][p] # 0
                PROVE  until'[k][p] >= attemptAt
                          + bulkThawMaxHours * (plan.batches - BATCH)
                          + 24 * plan.downloadDays + 24
    BY DEF Kept, Batches
  <2>1. CASE k = BATCH /\ p = q
    BY <1>1, <1>2, <1>4, <2>1, Numbers DEF Punctual, bulkThawMaxHours
  <2>2. CASE ~(k = BATCH /\ p = q)
    BY <1>1, <1>4, <2>2 DEF Kept
  <2>. QED
    BY <2>1, <2>2
<1>6. Progress'
  BY <1>1, <1>2, <1>4, Numbers DEF Progress, Batches
<1>. QED
  BY <1>3, <1>5, <1>6

LEMMA RetryKeeps ==
    ASSUME IInv, Planned, Retry PROVE Punctual' /\ Kept' /\ Progress'
<1>. USE DEF Retry, TimedOut
<1>1. TypeOK /\ Punctual /\ Kept /\ Progress /\ BATCH > 0 /\ attempt > 0
  BY DEF IInv, Progress
<1>2. /\ ExpiryHours \in Nat
      /\ ExpiryHours = 48 * (plan.batches - BATCH)
                        + 24 * plan.downloadDays + 24
  BY <1>1, Numbers, ExpiryHoursType
<1>3. PICK f \in Packs : Frozen(f) /\ clock + 1 <= asked[f] + 48
  BY DEF AllThawed, WithinSLA, Due, Planned, bulkThawMaxHours
<1>4. plan.batches = 1
  <2>. SUFFICES ASSUME plan.batches # 1 PROVE FALSE
    OBVIOUS
  <2>1. plan.batches > 1 /\ plan.downloadDays >= 1
    BY <1>1, Numbers
  <2>2. asked[f] = attemptAt
    BY <1>1, <1>3, <2>1 DEF Punctual
  <2>3. ExpiryHours >= 48
    BY <1>1, <1>2, <2>1, Numbers
  <2>. QED
    BY <1>1, <1>2, <1>3, <2>2, <2>3, Numbers
<1>5. BATCH = 1 /\ plan.downloadDays = 0 /\ ExpiryHours = 24
  BY <1>1, <1>2, <1>4, Numbers
<1>6. clock = 24 * attempt
  BY <1>1, <1>4, <1>5, Numbers DEF Punctual
<1>7. \A p \in Packs : ~Frozen(p) => Live(p)
  <2>. SUFFICES ASSUME NEW p \in Packs, ~Frozen(p) PROVE Live(p)
    OBVIOUS
  <2>1. BATCH \in Batches
    BY <1>1, <1>5, Numbers DEF Batches
  <2>2. until[BATCH][p] \in Nat /\ until[BATCH][p] # 0
    BY <1>1, <2>1 DEF TypeOK, Frozen
  <2>3. until[BATCH][p] >= attemptAt + 24
    BY <1>1, <1>4, <1>5, <2>1, <2>2, Numbers DEF Kept, bulkThawMaxHours
  <2>. QED
    BY <1>1, <1>4, <2>2, <2>3, Numbers DEF Live, Punctual
<1>8. Punctual'
  <2>1. asked' = asked
    BY <1>1, <1>7 DEF TypeOK
  <2>. QED
    BY <1>1, <1>4, <1>5, <1>6, <2>1, Numbers DEF Punctual
<1>9. \A p \in Packs :
        until'[1][p] = IF Frozen(p) THEN 0 ELSE clock + 24
  BY <1>1, <1>4, <1>5, <1>7 DEF TypeOK, Batches
<1>10. Kept'
  <2>. SUFFICES ASSUME NEW p \in Packs, until'[1][p] # 0
                PROVE  until'[1][p] >= clock + 24
    <3>. SUFFICES ASSUME NEW k \in Batches, NEW p \in Packs, until'[k][p] # 0
                  PROVE  until'[k][p] >= clock
                            + bulkThawMaxHours * (plan.batches - BATCH)
                            + 24 * plan.downloadDays + 24
      BY DEF Kept, Batches
    <3>1. k = 1
      BY <1>1, <1>4, Numbers DEF Batches
    <3>. QED
      BY <1>1, <1>4, <1>5, <3>1, Numbers DEF bulkThawMaxHours
  <2>. QED
    BY <1>1, <1>9, Numbers
<1>11. Progress'
  BY <1>1, <1>4, <1>5, Numbers DEF Progress, Batches
<1>. QED
  BY <1>8, <1>10, <1>11

LEMMA AdvanceKeeps ==
    ASSUME IInv, Planned, Advance PROVE Punctual' /\ Kept' /\ Progress'
<1>. USE DEF Advance
<1>1. TypeOK /\ Punctual /\ Kept /\ Progress /\ BATCH > 0 /\ attempt > 0
  BY DEF IInv, Progress
<1>2. /\ ExpiryHours \in Nat
      /\ ExpiryHours = 48 * (plan.batches - BATCH)
                        + 24 * plan.downloadDays + 24
  BY <1>1, Numbers, ExpiryHoursType
<1>3. PICK d \in Steps : /\ WithinSLA(clock + d)
                         /\ clock + d <= attemptAt + ExpiryHours
                         /\ clock' = clock + d
  OBVIOUS
<1>4. d \in Nat
  BY StepsPositive
<1>5. PICK f \in Packs : clock + d <= asked[f] + 48
  BY <1>3 DEF AllThawed, WithinSLA, Due, Planned, bulkThawMaxHours
<1>6. Punctual'
  <2>1. CASE plan.batches > 1
    <3>1. asked[f] = attemptAt
      BY <1>1, <2>1 DEF Punctual
    <3>. QED
      BY <1>1, <1>3, <1>4, <1>5, <2>1, <3>1, Numbers
         DEF Punctual, bulkThawMaxHours
  <2>2. CASE plan.batches = 1
    <3>1. asked[f] = 0
      BY <1>1, <2>2 DEF Punctual
    <3>2. ExpiryHours = 24
      BY <1>1, <1>2, <2>2, Numbers
    <3>. QED
      BY <1>1, <1>3, <1>4, <1>5, <2>2, <3>1, <3>2, Numbers
         DEF Punctual, bulkThawMaxHours
  <2>. QED
    BY <1>1, <2>1, <2>2, Numbers
<1>7. Kept'
  BY <1>1 DEF Kept, Batches
<1>8. Progress'
  BY <1>1 DEF Progress, Batches
<1>. QED
  BY <1>6, <1>7, <1>8

\* The batch in hand has thawed in time, and then no timeout and no deadline
\* can be reached.
LEMMA NeverLate ==
    ASSUME IInv, Planned PROVE ~GiveUp /\ ~Deadline
<1>1. TypeOK /\ Punctual /\ Progress
  BY DEF IInv
<1>2. ~GiveUp
  <2>. SUFFICES ASSUME GiveUp PROVE FALSE
    OBVIOUS
  <2>1. phase = "thawing" /\ attempt = 3 /\ clock >= attemptAt + ExpiryHours
    BY DEF GiveUp, TimedOut, maxWarmupAttempts
  <2>2. BATCH > 0 /\ plan.batches = 1
    BY <1>1, <2>1, Numbers DEF Punctual, Progress
  <2>3. attemptAt = 48 /\ clock <= 48
    BY <1>1, <2>1, <2>2 DEF Punctual, bulkThawMaxHours
  <2>4. ExpiryHours >= 24 /\ ExpiryHours \in Nat
    BY <1>1, <2>2, Numbers, ExpiryHoursType
  <2>. QED
    BY <1>1, <2>1, <2>3, <2>4, Numbers
<1>3. ~Deadline
  <2>. SUFFICES ASSUME Deadline PROVE FALSE
    OBVIOUS
  <2>1. BATCH > 0 /\ clock >= plan.timeout
    BY <1>1 DEF Deadline, Progress
  <2>2. clock <= 48 * plan.batches
    BY <1>1, <2>1, Numbers DEF Punctual, bulkThawMaxHours
  <2>. QED
    BY <1>1, <2>1, <2>2, Numbers
<1>. QED
  BY <1>2, <1>3

THEOREM Invariance == Spec => []IInv
<1>1. IInv /\ [Next]_vars => IInv'
  <2>. SUFFICES ASSUME IInv, [Next]_vars, TypeOK',
                       Planned' PROVE Punctual' /\ Kept' /\ Progress'
    BY TypeStep DEF IInv
  <2>0. Planned
    BY DEF Planned, Next, NextBatch, Thaw, BatchDone, Retry, GiveUp, ToolFails,
           Deadline, StartDownload, Advance, vars
  <2>1. CASE NextBatch
    BY <2>0, <2>1, NextBatchKeeps
  <2>2. ASSUME NEW p \in Packs, Thaw(p)
        PROVE  Punctual' /\ Kept' /\ Progress'
    BY <2>0, <2>2, ThawKeeps
  <2>3. CASE BatchDone
    BY <2>0, <2>3, Numbers
       DEF IInv, BatchDone, AllThawed, Frozen, Punctual, Kept, Progress,
           Batches
  <2>4. CASE Retry
    BY <2>0, <2>4, RetryKeeps
  <2>5. CASE GiveUp \/ ToolFails \/ Deadline
    BY <2>0, <2>5, NeverLate DEF ToolFails, Planned
  <2>6. CASE StartDownload
    BY <2>0, <2>6 DEF IInv, StartDownload, Punctual, Kept, Progress, Batches
  <2>7. CASE Advance
    BY <2>0, <2>7, AdvanceKeeps
  <2>8. CASE UNCHANGED vars
    BY <2>0, <2>8 DEF IInv, vars, Punctual, Kept, Progress, Batches
  <2>. QED
    BY <2>1, <2>2, <2>3, <2>4, <2>5, <2>6, <2>7, <2>8 DEF Next
<1>. QED
  BY InvInit, <1>1, PTL DEF Spec

-----------------------------------------------------------------------------
(* What the runs check, for every plan, every thaw order and every step    *)

\* If S3 keeps its SLA and the index was counted, no copy is lost before the
\* download starts or in all but its last planned day.
THEOREM CopiesReachTheDownload == Spec => []CopiesReachDownload
<1>1. IInv => CopiesReachDownload
  <2>. SUFFICES ASSUME IInv, Planned, phase = "download",
                       NEW k \in 1 .. needed, NEW p \in Packs
                PROVE  /\ until[k][p] >= downloadAt
                       /\ until[k][p] + 24
                             >= downloadAt + 24 * plan.downloadDays
    BY DEF CopiesReachDownload
  <2>1. TypeOK /\ Punctual /\ Kept /\ Progress
    BY DEF IInv
  <2>2. BATCH = needed /\ downloadAt = clock /\ BATCH > 0
    BY <2>1, Numbers DEF Progress
  <2>3. /\ clock \in Nat /\ attemptAt \in Nat /\ plan.batches \in Nat \ {0}
        /\ plan.downloadDays \in Nat /\ BATCH <= plan.batches
        /\ plan.batches = 1 <=> plan.downloadDays = 0
        /\ BATCH \in Nat
    BY <2>1, Numbers
  <2>4. k \in Batches /\ k <= BATCH
    BY <2>2, <2>3 DEF Batches
  <2>5. until[k][p] \in Nat
    BY <2>1, <2>4 DEF TypeOK
  <2>6. until[k][p] # 0
    BY <2>1, <2>2, <2>3, <2>4 DEF Progress
  <2>7. until[k][p] >= attemptAt + 48 * (plan.batches - BATCH)
                        + 24 * plan.downloadDays + 24
    BY <2>1, <2>4, <2>6 DEF Kept, bulkThawMaxHours
  <2>8. until[k][p] >= attemptAt + 24 * plan.downloadDays + 24
    BY <2>3, <2>5, <2>7
  <2>9. CASE plan.batches = 1
    <3>1. clock <= attemptAt + 24 /\ plan.downloadDays = 0
      BY <2>1, <2>3, <2>9 DEF Punctual
    <3>. QED
      BY <2>2, <2>3, <2>5, <2>8, <3>1
  <2>10. CASE plan.batches > 1
    <3>1. clock <= attemptAt + 48 /\ plan.downloadDays >= 1
      BY <2>1, <2>3, <2>10 DEF Punctual, bulkThawMaxHours
    <3>. QED
      BY <2>2, <2>3, <2>5, <2>8, <3>1
  <2>. QED
    BY <2>3, <2>9, <2>10
<1>. QED
  BY Invariance, <1>1, PTL

\* If S3 keeps its SLA and the index was counted, the wrapper never runs out of
\* attempts and the restore's deadline never cuts the warm-up off.
THEOREM PromptS3NeverGivesUp == Spec => []SLANeverGivesUp
<1>1. IInv => SLANeverGivesUp
  BY DEF IInv, Progress, SLANeverGivesUp
<1>. QED
  BY Invariance, <1>1, PTL

\* If S3 keeps its SLA and the index was counted, the download has its planned
\* days and one more before the restore's deadline.
THEOREM DeadlineLeavesTheDownload == Spec => []DeadlineLeavesDownload
<1>1. IInv => DeadlineLeavesDownload
  <2>. SUFFICES ASSUME IInv, Planned, phase = "download"
                PROVE  downloadAt + 24 * (plan.downloadDays + 1)
                          <= plan.timeout
    BY DEF DeadlineLeavesDownload
  <2>1. TypeOK /\ Punctual /\ Progress
    BY DEF IInv
  <2>2. downloadAt = clock /\ BATCH > 0
    BY <2>1, Numbers DEF Progress
  <2>3. clock <= 48 * plan.batches
    BY <2>1, <2>2, Numbers DEF Punctual, bulkThawMaxHours
  <2>. QED
    BY <2>1, <2>2, <2>3, Numbers
<1>. QED
  BY Invariance, <1>1, PTL

=============================================================================
