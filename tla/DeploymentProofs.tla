-------------------------- MODULE DeploymentProofs --------------------------
(***************************************************************************)
(* For any number of goroutines, stacks, requests and restarts: one stack  *)
(* gets at most one distribution; with no reload outstanding the proxy     *)
(* runs what aws_config says, and what a restore asks of it is served; a   *)
(* complete setup opens its repository; every step takes its request       *)
(* nearer to its end, and no row says running after it.                    *)
(***************************************************************************)
EXTENDS Deployment, SequenceTheorems, TLAPS

-----------------------------------------------------------------------------
(* Type correctness *)

\* A request in one of these places carries the stack it is for.
NamesStack == \A p \in Procs :
    pc[p] \in {"stack", "start"} \cup Provisioning => req[p].stack \in Stacks

Typed == TypeOK /\ NamesStack

LEMMA Chain ==
    /\ DOMAIN After = {"oac", "key", "keygroup", "cache"}
    /\ \A x \in DOMAIN After : After[x] \in {"key", "keygroup", "cache", "dist"}
BY DEF After

LEMMA PlaceSets ==
    /\ Places = {"idle", "start", "thaw", "oac", "key", "keygroup", "cache", "find",
                 "dist", "tag", "stored", "attach", "policy", "merge", "save", "lock",
                 "open", "serve", "stack", "toml", "password", "dbpass", "init", "complete"}
    /\ Provisioning = {"oac", "key", "keygroup", "cache", "find", "dist", "tag",
                       "stored", "attach", "policy", "merge", "save"}
    /\ Reloading = {"lock", "open", "serve"}
BY Chain DEF Places, Provisioning, Reloading, DeploySteps

LEMMA Blank == NoConfig \in Configs /\ NoRequest \in Requests
BY DEF NoConfig, Configs, NoRequest, Requests, MaybeStack

\* Where a step of a process may take it, and what it may do to its request.
LEMMA LeaveType ==
    ASSUME TypeOK, NEW p \in Procs, Leave(p)
    PROVE  /\ pc' \in [Procs -> Places] /\ req' \in [Procs -> Requests]
           /\ flag' \in BOOLEAN
           /\ pc'[p] \in {"idle", "toml"}
           /\ \A q \in Procs \ {p} : pc'[q] = pc[q] /\ req'[q] = req[q]
<1>. "idle" \in Places /\ "toml" \in Places
  BY PlaceSets
<1>. QED
  BY ZenonT(60), Blank DEF TypeOK, CFTypeOK, Leave, End, Goto

LEMMA InitTypes == Init => Typed
<1>. SUFFICES ASSUME Init PROVE Typed
  OBVIOUS
<1>2. pc \in [Procs -> Places]
  BY PlaceSets DEF Init, CFInit
<1>3. NamesStack
  BY PlaceSets DEF NamesStack, Init, CFInit
<1>4. CFTypeOK
  <2>1. dists \in Seq([stack : Stacks, tagged : BOOLEAN, trusted : Nat])
    BY DEF Init, CFInit
  <2>2. proxy \in [dist : Nat, keyId : Nat, key : Nat, bucket : MaybeStack]
    BY DEF Init, CFInit, NoProxy, MaybeStack
  <2>3. req \in [Procs -> Requests] /\ cf \in Configs
    BY Blank DEF Init, CFInit
  <2>4. /\ taken \subseteq Stacks \X DOMAIN After
        /\ policy \in [Stacks -> Nat]
    BY DEF Init, CFInit
  <2>5. stackName \in MaybeStack /\ coldBucket \in MaybeStack
    BY DEF Init, CFInit, MaybeStack
  <2>6. keys \in Nat /\ lock \in Procs \cup {None}
    BY DEF Init, CFInit
  <2>7. flag \in BOOLEAN
    BY DEF Init, CFInit
  <2>. QED
    BY <2>1, <2>2, <2>3, <2>4, <2>5, <2>6, <2>7 DEF CFTypeOK
<1>5. /\ row \in [Procs -> {"none", "running", "failed", "completed"}]
      /\ toml \in MaybeStack /\ repo \in [Stacks -> Nat]
      /\ passFile \in Nat /\ dbPass \in Nat /\ passwords \in Nat
  BY DEF Init, MaybeStack
<1>6. requests \in 0 .. MaxRequests /\ restarts \in 0 .. MaxRestarts
  BY BoundsAssumption DEF Init
<1>7. setup \in BOOLEAN /\ overlapped \in BOOLEAN /\ again \in BOOLEAN
  BY DEF Init
<1>. QED
  BY <1>2, <1>3, <1>4, <1>5, <1>6, <1>7 DEF Typed, TypeOK

\* Filling in a local of a request keeps its type and the stack it is for.
Kept(r) == /\ r \in [Procs -> Requests]
           /\ \A q \in Procs : r[q].stack = req[q].stack /\ r[q].kind = req[q].kind

LEMMA Locals ==
    ASSUME req \in [Procs -> Requests], NEW p \in Procs
    PROVE  /\ \A n \in Nat : /\ Kept([req EXCEPT ![p].dist = n])
                             /\ Kept([req EXCEPT ![p].key = n])
                             /\ Kept([req EXCEPT ![p].pass = n])
           /\ \A c \in Configs : Kept([req EXCEPT ![p].cfg = c])
           /\ \A n \in Nat : Kept([req EXCEPT ![p].cfg.key = n])
           /\ \A b \in MaybeStack : [req EXCEPT ![p].bucket = b] \in [Procs -> Requests]
<1>1. ASSUME NEW n \in Nat PROVE Kept([req EXCEPT ![p].dist = n])
  BY DEF Requests, Kept
<1>2. ASSUME NEW n \in Nat PROVE Kept([req EXCEPT ![p].key = n])
  BY DEF Requests, Kept
<1>3. ASSUME NEW n \in Nat PROVE Kept([req EXCEPT ![p].pass = n])
  BY DEF Requests, Kept
<1>4. ASSUME NEW c \in Configs PROVE Kept([req EXCEPT ![p].cfg = c])
  BY DEF Requests, Kept
<1>5. ASSUME NEW b \in MaybeStack
      PROVE  [req EXCEPT ![p].bucket = b] \in [Procs -> Requests]
  BY DEF Requests
<1>6. ASSUME NEW n \in Nat PROVE Kept([req EXCEPT ![p].cfg.key = n])
  BY DEF Requests, Configs, Kept
<1>. QED
  BY <1>1, <1>2, <1>3, <1>4, <1>5, <1>6

\* A fresh key pair is a key number.
LEMMA FreshKey ==
    ASSUME req \in [Procs -> Requests], NEW p \in Procs, keys \in Nat
    PROVE  keys + 1 \in Nat /\ Kept([req EXCEPT ![p].key = keys + 1])
<1>1. keys + 1 \in Nat
  OBVIOUS
<1>. QED
  BY <1>1, Locals

Dists == [stack : Stacks, tagged : BOOLEAN, trusted : Nat]

LEMMA DistUpdates ==
    ASSUME dists \in Seq(Dists), NEW d
    PROVE  /\ [dists EXCEPT ![d].tagged = TRUE] \in Seq(Dists)
           /\ \A n \in Nat : [dists EXCEPT ![d].trusted = n] \in Seq(Dists)
<1>1. CASE d \notin 1 .. Len(dists)
  <2>1. dists = [i \in 1 .. Len(dists) |-> dists[i]]
    OBVIOUS
  <2>2. [dists EXCEPT ![d].tagged = TRUE] = dists
    BY <1>1, <2>1
  <2>3. ASSUME NEW n \in Nat PROVE [dists EXCEPT ![d].trusted = n] = dists
    BY <1>1, <2>1
  <2>. QED
    BY <2>2, <2>3
<1>2. CASE d \in 1 .. Len(dists)
  <2>1. dists[d] \in Dists
    BY <1>2
  <2>2. [dists[d] EXCEPT !.tagged = TRUE] \in Dists
    BY <2>1 DEF Dists
  <2>3. ASSUME NEW n \in Nat PROVE [dists[d] EXCEPT !.trusted = n] \in Dists
    BY <2>1 DEF Dists
  <2>. QED
    BY <1>2, <2>2, <2>3, ExceptSeq
<1>. QED
  BY <1>1, <1>2

\* The steps of the CloudFront path.
CFTyped == CFTypeOK /\ pc \in [Procs -> Places] /\ NamesStack

LEMMA CFTypeStep ==
    ASSUME CFTyped, NEW p \in Procs, CFStep(p)
    PROVE  CFTyped'
<1>. USE DEF CFTyped, CFTypeOK
<1>1. ASSUME EnableStarts(p) PROVE CFTyped'
  BY <1>1, PlaceSets DEF EnableStarts, Goto, NamesStack, config, aws
<1>2. ASSUME Find(p) PROVE CFTyped'
  <2>1. Kept(req') /\ keys' \in Nat
    <3>1. CASE /\ \E d \in Managed(req[p].stack) : req' = [req EXCEPT ![p].dist = d]
               /\ keys' = keys
      <4>1. PICK d \in DOMAIN dists : req' = [req EXCEPT ![p].dist = d]
        BY <3>1 DEF Managed
      <4>2. d \in Nat
        OBVIOUS
      <4>3. Kept([req EXCEPT ![p].dist = d])
        BY <4>2, Locals
      <4>. QED
        BY <3>1, <4>1, <4>3
    <3>2. CASE keys' = keys + 1 /\ req' = [req EXCEPT ![p].key = keys + 1]
      BY <3>2, FreshKey
    <3>. QED
      BY <1>2, <3>1, <3>2 DEF Find
  <2>. QED
    BY <1>2, <2>1, PlaceSets DEF Kept, Find, Goto, NamesStack, config, mgr
<1>3. ASSUME Create(p) PROVE CFTyped'
  BY <1>3, PlaceSets, Chain DEF Create, Goto, NamesStack, config, mgr
<1>4. ASSUME CreateDistribution(p) PROVE CFTyped'
  <2>1. Kept(req')
    <3>1. Len(dists) + 1 \in Nat
      OBVIOUS
    <3>2. Kept([req EXCEPT ![p].dist = Len(dists) + 1])
      BY <3>1, Locals
    <3>. QED
      BY <1>4, <3>2 DEF CreateDistribution
  <2>2. dists' \in Seq(Dists)
    <3>1. [stack |-> req[p].stack, tagged |-> FALSE, trusted |-> req[p].key] \in Dists
      BY <1>4, PlaceSets DEF CreateDistribution, NamesStack, Dists, Requests
    <3>. QED
      BY <1>4, <3>1 DEF CreateDistribution, Dists
  <2>. QED
    BY <1>4, <2>1, <2>2, PlaceSets
    DEF Kept, Dists, CreateDistribution, Goto, NamesStack, config, mgr
<1>5. ASSUME TagDistribution(p) PROVE CFTyped'
  <2>1. dists' \in Seq(Dists)
    BY <1>5, DistUpdates DEF TagDistribution, Dists
  <2>. QED
    BY <1>5, <2>1, PlaceSets DEF Dists, TagDistribution, Goto, NamesStack, config, mgr
<1>6. ASSUME StoredKey(p) PROVE CFTyped'
  <2>1. Kept(req') /\ keys' \in Nat
    <3>1. CASE keys' = keys + 1 /\ req' = [req EXCEPT ![p].key = keys + 1]
      BY <3>1, FreshKey
    <3>2. CASE keys' = keys /\ req' = req
      BY <3>2 DEF Kept
    <3>. QED
      BY <1>6, <3>1, <3>2 DEF StoredKey
  <2>. QED
    BY <1>6, <2>1, PlaceSets DEF Kept, StoredKey, Goto, NamesStack, config, mgr
<1>7. ASSUME AttachKey(p) PROVE CFTyped'
  <2>1. dists' \in Seq(Dists)
    BY <1>7, DistUpdates DEF AttachKey, Dists, Requests
  <2>. QED
    BY <1>7, <2>1, PlaceSets
    DEF Dists, AttachKey, AfterAttach, Goto, NamesStack, config, mgr
<1>8. ASSUME AllowOnBucket(p) PROVE CFTyped'
  BY <1>8, PlaceSets DEF AllowOnBucket, Goto, NamesStack, config, mgr, Requests
<1>9. ASSUME AwsFails(p) PROVE CFTyped'
  BY ZenonT(60), <1>9, PlaceSets, Blank DEF AwsFails, Leave, End, Goto, NamesStack,
     config, aws
<1>10. ASSUME LoadExisting(p) PROVE CFTyped'
  <2>1. Kept(req')
    BY <1>10, Locals DEF LoadExisting
  <2>. QED
    BY <1>10, <2>1, PlaceSets DEF Kept, LoadExisting, Goto, NamesStack, config, mgr, aws
<1>11. ASSUME Save(p) PROVE CFTyped'
  <2>1. Merged(req[p]) \in Configs
    BY DEF Merged, Requests, Configs
  <2>2. CASE Leave(p) /\ cf' = cf
    BY ZenonT(60), <1>11, <2>2, PlaceSets, Blank
    DEF Save, Leave, End, Goto, NamesStack, config, aws
  <2>3. CASE cf' = Merged(req[p]) /\ Goto(p, "lock") /\ UNCHANGED <<flag, req>>
    BY <1>11, <2>1, <2>3, PlaceSets DEF Save, Goto, NamesStack, aws
  <2>. QED
    BY <1>11, <2>2, <2>3 DEF Save
<1>12. ASSUME ReloadLoad(p) PROVE CFTyped'
  <2>1. CASE Usable(cf)
    <3>1. Kept(req')
      <4>1. Kept([req EXCEPT ![p].cfg = cf])
        BY Locals
      <4>. QED
        BY <1>12, <2>1, <4>1 DEF ReloadLoad
    <3>. QED
      BY ZenonT(60), <1>12, <2>1, <3>1, PlaceSets
      DEF Kept, ReloadLoad, Goto, NamesStack, config, aws
  <2>2. CASE ~Usable(cf)
    <3>1. proxy' \in [dist : Nat, keyId : Nat, key : Nat, bucket : MaybeStack]
      BY <1>12, <2>2 DEF ReloadLoad, Stopped, NoProxy, MaybeStack
    <3>. QED
      BY ZenonT(60), <1>12, <2>2, <3>1, PlaceSets, Blank
      DEF ReloadLoad, Leave, End, Goto, NamesStack, config, aws
  <2>. QED
    BY <2>1, <2>2
<1>13. ASSUME ReloadStart(p) PROVE CFTyped'
  <2>1. proxy' \in [dist : Nat, keyId : Nat, key : Nat, bucket : MaybeStack]
    <3>1. /\ Stopped \in [dist : Nat, keyId : Nat, key : Nat, bucket : MaybeStack]
          /\ ProxyOf(req[p].cfg) \in [dist : Nat, keyId : Nat, key : Nat, bucket : MaybeStack]
      BY DEF Stopped, NoProxy, ProxyOf, MaybeStack, Requests, Configs
    <3>. QED
      BY <1>13, <3>1 DEF ReloadStart
  <2>. QED
    BY ZenonT(60), <1>13, <2>1, PlaceSets, Blank
    DEF ReloadStart, Leave, End, Goto, NamesStack, config, aws
<1>14. ASSUME ReloadKey(p) PROVE CFTyped'
  <2>1. CASE cf.key # 0
    <3>1. Kept(req')
      <4>1. cf.key \in Nat
        BY DEF Configs
      <4>2. Kept([req EXCEPT ![p].cfg.key = cf.key])
        BY <4>1, Locals
      <4>. QED
        BY <1>14, <2>1, <4>2 DEF ReloadKey
    <3>. QED
      BY ZenonT(60), <1>14, <2>1, <3>1, PlaceSets
      DEF Kept, ReloadKey, Goto, NamesStack, config, aws, mgr
  <2>2. CASE cf.key = 0
    <3>1. proxy' \in [dist : Nat, keyId : Nat, key : Nat, bucket : MaybeStack]
      BY <1>14, <2>2 DEF ReloadKey, Stopped, NoProxy, MaybeStack
    <3>. QED
      BY ZenonT(60), <1>14, <2>2, <3>1, PlaceSets, Blank
      DEF ReloadKey, Leave, End, Goto, NamesStack, config, aws
  <2>. QED
    BY <2>1, <2>2
<1>. QED
  BY <1>1, <1>2, <1>3, <1>4, <1>5, <1>6, <1>7, <1>8, <1>9, <1>10, <1>11, <1>12, <1>13,
     <1>14 DEF CFStep

LEMMA DeployTypeStep ==
    ASSUME Typed, NEW p \in Procs, DeployStep(p)
    PROVE  CFTyped'
<1>. USE DEF CFTyped, CFTypeOK, Typed, TypeOK
<1>1. ASSUME DeployStack(p) PROVE CFTyped'
  <2>1. /\ req[p].stack \in Stacks /\ req[p].stack \in MaybeStack
        /\ coldBucket' = req[p].stack
        /\ req' = [req EXCEPT ![p].bucket = req[p].stack]
    BY <1>1 DEF DeployStack, Deploy, NamesStack, MaybeStack
  <2>2. req' \in [Procs -> Requests] /\ \A q \in Procs : req'[q].stack = req[q].stack
    <3>1. [req EXCEPT ![p].bucket = req[p].stack] \in [Procs -> Requests]
      BY <2>1, Locals
    <3>2. \A q \in Procs : [req EXCEPT ![p].bucket = req[p].stack][q].stack = req[q].stack
      BY <2>1 DEF Requests
    <3>. QED
      BY <2>1, <3>1, <3>2
  <2>. QED
    BY <1>1, <2>1, <2>2, PlaceSets DEF DeployStack, Goto, NamesStack, aws, mgr
<1>2. ASSUME WriteToml(p) PROVE CFTyped'
  BY <1>2, PlaceSets DEF WriteToml, Goto, NamesStack, config, aws, mgr
<1>3. ASSUME WritePassword(p) PROVE CFTyped'
  <2>1. passwords + 1 \in Nat
    OBVIOUS
  <2>2. Kept([req EXCEPT ![p].pass = passwords + 1])
    BY <2>1, Locals
  <2>3. Kept(req')
    BY <1>3, <2>2 DEF WritePassword
  <2>. QED
    BY <1>3, <2>3, PlaceSets DEF Kept, WritePassword, Goto, NamesStack, config, aws, mgr
<1>4. ASSUME SavePassword(p) PROVE CFTyped'
  BY <1>4, PlaceSets DEF SavePassword, Goto, NamesStack, config, aws, mgr
<1>5. ASSUME InitRepository(p) PROVE CFTyped'
  BY <1>5, PlaceSets DEF InitRepository, Goto, NamesStack, config, aws, mgr
<1>6. ASSUME Complete(p) PROVE CFTyped'
  BY <1>6, PlaceSets, Blank DEF Complete, End, Goto, NamesStack, config, aws, mgr
<1>7. ASSUME DeployFails(p) PROVE CFTyped'
  BY <1>7, PlaceSets, Blank DEF DeployFails, End, Goto, NamesStack, config, aws, mgr
<1>. QED
  BY <1>1, <1>2, <1>3, <1>4, <1>5, <1>6, <1>7 DEF DeployStep

Kinds == {"none", "enable", "disable", "deploy", "restore"}

\* The fields a handler fills in.
LEMMA Opening ==
    ASSUME NEW r \in [Procs -> Requests], NEW p \in Procs,
           NEW k \in Kinds, NEW m \in MaybeStack
    PROVE  /\ [r EXCEPT ![p].kind = k] \in [Procs -> Requests]
           /\ [r EXCEPT ![p].stack = m] \in [Procs -> Requests]
           /\ [r EXCEPT ![p].bucket = m] \in [Procs -> Requests]
<1>1. [r EXCEPT ![p].kind = k] \in [Procs -> Requests]
  BY DEF Requests, Kinds
<1>2. [r EXCEPT ![p].stack = m] \in [Procs -> Requests]
  BY DEF Requests
<1>3. [r EXCEPT ![p].bucket = m] \in [Procs -> Requests]
  BY DEF Requests
<1>. QED
  BY <1>1, <1>2, <1>3

\* The arrival of a request, and a download.
LEMMA OtherTypeStep ==
    ASSUME Typed, NEW p \in Procs,
           Download(p) \/ Arrive(p)
    PROVE  CFTyped'
<1>. USE DEF CFTyped, CFTypeOK, Typed, TypeOK
<1>1. ASSUME Download(p) PROVE CFTyped'
  BY <1>1, PlaceSets, Blank DEF Download, End, Goto, NamesStack, config, aws, mgr
<1>2. ASSUME NEW s \in Stacks, Request(p, s) PROVE CFTyped'
  <2>1. /\ req' \in [Procs -> Requests] /\ req'[p].stack = s
        /\ \A q \in Procs \ {p} : req'[q] = req[q]
    <3>1. "deploy" \in Kinds /\ s \in MaybeStack
      BY DEF Kinds, MaybeStack
    <3>2. DEFINE k == [req EXCEPT ![p].kind = "deploy"]
    <3>3. k \in [Procs -> Requests]
      BY <3>1, Opening
    <3>4. [k EXCEPT ![p].stack = s] \in [Procs -> Requests]
      BY <3>1, <3>3, Opening
    <3>5. req' = [k EXCEPT ![p].stack = s]
      BY <1>2 DEF Request
    <3>6. [k EXCEPT ![p].stack = s][p].stack = s
      BY <3>3 DEF Requests
    <3>7. \A q \in Procs \ {p} : [k EXCEPT ![p].stack = s][q] = req[q]
      OBVIOUS
    <3>. QED
      BY <3>4, <3>5, <3>6, <3>7
  <2>2. stackName' \in MaybeStack
    BY <1>2 DEF Request, MaybeStack
  <2>. QED
    BY <1>2, <2>1, <2>2, PlaceSets DEF Request, Goto, NamesStack, aws, mgr
<1>3. ASSUME Enable(p) PROVE CFTyped'
  <2>1. /\ req' \in [Procs -> Requests] /\ req'[p].stack \in Stacks
        /\ \A q \in Procs \ {p} : req'[q] = req[q]
    <3>1. /\ "enable" \in Kinds /\ stackName \in Stacks /\ stackName \in MaybeStack
          /\ coldBucket \in MaybeStack
      BY <1>3 DEF Enable, Kinds, MaybeStack
    <3>2. DEFINE k == [req EXCEPT ![p].kind = "enable"]
    <3>3. DEFINE l == [k EXCEPT ![p].stack = stackName]
    <3>4. k \in [Procs -> Requests]
      BY <3>1, Opening
    <3>5. l \in [Procs -> Requests] /\ l[p].stack = stackName
      <4>1. l \in [Procs -> Requests]
        BY <3>1, <3>4, Opening
      <4>2. l[p].stack = stackName
        BY <3>4 DEF Requests
      <4>. QED
        BY <4>1, <4>2
    <3>6. [l EXCEPT ![p].bucket = coldBucket] \in [Procs -> Requests]
      <4>. HIDE DEF l
      <4>. QED
        BY <3>1, <3>5, Opening
    <3>7. req' = [l EXCEPT ![p].bucket = coldBucket]
      BY <1>3 DEF Enable
    <3>8. [l EXCEPT ![p].bucket = coldBucket][p].stack = stackName
      <4>. HIDE DEF l
      <4>. QED
        BY <3>5 DEF Requests
    <3>9. \A q \in Procs \ {p} : [l EXCEPT ![p].bucket = coldBucket][q] = req[q]
      OBVIOUS
    <3>. QED
      BY <3>1, <3>6, <3>7, <3>8, <3>9
  <2>. QED
    BY <1>3, <2>1, PlaceSets DEF Enable, Goto, NamesStack, config, aws, mgr
<1>4. ASSUME Disable(p) PROVE CFTyped'
  <2>1. /\ req' \in [Procs -> Requests]
        /\ \A q \in Procs \ {p} : req'[q] = req[q]
    <3>1. "disable" \in Kinds /\ None \in MaybeStack
      BY DEF Kinds, MaybeStack
    <3>2. [req EXCEPT ![p].kind = "disable"] \in [Procs -> Requests]
      BY <3>1, Opening
    <3>. QED
      BY <1>4, <3>2 DEF Disable
  <2>2. cf' \in Configs
    BY <1>4 DEF Disable, Configs
  <2>. QED
    BY <1>4, <2>1, <2>2, PlaceSets DEF Disable, Goto, NamesStack, aws, mgr
<1>5. ASSUME StartRestore(p) PROVE CFTyped'
  <2>1. /\ req' \in [Procs -> Requests]
        /\ \A q \in Procs \ {p} : req'[q] = req[q]
    <3>. DEFINE b == IF cf.enabled /\ Reachable THEN coldBucket ELSE None
                k == [req EXCEPT ![p].kind = "restore"]
    <3>1. "restore" \in Kinds /\ b \in MaybeStack
      BY DEF Kinds, MaybeStack
    <3>2. k \in [Procs -> Requests]
      BY <3>1, Opening
    <3>3. [k EXCEPT ![p].bucket = b] \in [Procs -> Requests]
      <4>. HIDE DEF b, k
      <4>. QED
        BY <3>1, <3>2, Opening
    <3>4. req' = [k EXCEPT ![p].bucket = b]
      BY <1>5 DEF StartRestore
    <3>5. \A q \in Procs \ {p} : [k EXCEPT ![p].bucket = b][q] = req[q]
      <4>. HIDE DEF b
      <4>. QED
        OBVIOUS
    <3>. QED
      BY <3>3, <3>4, <3>5
  <2>. QED
    BY <1>5, <2>1, PlaceSets DEF StartRestore, Goto, NamesStack, config, aws, mgr
<1>. QED
  BY <1>1, <1>2, <1>3, <1>4, <1>5 DEF Arrive

LEMMA RestartTypeStep ==
    ASSUME Typed, Restart
    PROVE  CFTyped'
<1>. USE DEF CFTyped, CFTypeOK, Typed, TypeOK
<1>1. proxy' \in [dist : Nat, keyId : Nat, key : Nat, bucket : MaybeStack]
  <2>1. /\ NoProxy \in [dist : Nat, keyId : Nat, key : Nat, bucket : MaybeStack]
        /\ ProxyOf(cf) \in [dist : Nat, keyId : Nat, key : Nat, bucket : MaybeStack]
    BY DEF NoProxy, ProxyOf, MaybeStack, Configs
  <2>. QED
    BY <2>1 DEF Restart
<1>2. req' \in [Procs -> Requests] /\ pc' \in [Procs -> Places]
  BY PlaceSets, Blank DEF Restart
<1>. QED
  BY <1>1, <1>2, PlaceSets DEF Restart, NamesStack, config, aws

\* What TypeOK says of the deployment's own variables.
DepTypeOK ==
    /\ row \in [Procs -> {"none", "running", "failed", "completed"}]
    /\ toml \in MaybeStack
    /\ passFile \in Nat /\ dbPass \in Nat /\ passwords \in Nat
    /\ repo \in [Stacks -> Nat]
    /\ setup \in BOOLEAN

LEMMA DepTypeStep ==
    ASSUME Typed, Next
    PROVE  DepTypeOK'
<1>. USE DEF DepTypeOK, Typed, TypeOK, CFTypeOK
<1>1. CASE UNCHANGED depVars
  BY <1>1 DEF depVars, files
<1>2. ASSUME NEW p \in Procs, WriteToml(p) PROVE DepTypeOK'
  BY <1>2 DEF WriteToml, Requests
<1>3. ASSUME NEW p \in Procs, WritePassword(p) PROVE DepTypeOK'
  <2>1. passwords + 1 \in Nat
    OBVIOUS
  <2>. QED
    BY <1>3, <2>1 DEF WritePassword
<1>4. ASSUME NEW p \in Procs, SavePassword(p) PROVE DepTypeOK'
  BY <1>4 DEF SavePassword, PasswordToStore, Requests, files
<1>5. ASSUME NEW p \in Procs, InitRepository(p) PROVE DepTypeOK'
  BY <1>5 DEF InitRepository, files
<1>6. ASSUME NEW p \in Procs, Complete(p) PROVE DepTypeOK'
  BY <1>6 DEF Complete, files
<1>7. ASSUME NEW p \in Procs, DeployFails(p) PROVE DepTypeOK'
  BY <1>7 DEF DeployFails, files
<1>8. ASSUME NEW p \in Procs, NEW s \in Stacks, Request(p, s) PROVE DepTypeOK'
  BY <1>8 DEF Request, files
<1>9. CASE Restart
  BY <1>9 DEF Restart, Reconciled, files
<1>. QED
  BY <1>1, <1>2, <1>3, <1>4, <1>5, <1>6, <1>7, <1>8, <1>9
  DEF Next, Step, Arrive, DeployStep, DeployStack, Download, Enable, StartRestore

LEMMA HistoryTypeStep ==
    ASSUME Typed, Next
    PROVE  /\ requests' \in 0 .. MaxRequests /\ restarts' \in 0 .. MaxRestarts
           /\ overlapped' \in BOOLEAN /\ again' \in BOOLEAN
<1>. USE BoundsAssumption DEF Typed, TypeOK
<1>1. requests' \in 0 .. MaxRequests /\ restarts' \in 0 .. MaxRestarts
  BY DEF Next, Step, Arrive, Restart, history
<1>2. overlapped' \in BOOLEAN /\ again' \in BOOLEAN
  BY DEF Next, Step, Arrive, Restart, history, Request
<1>. QED
  BY <1>1, <1>2

LEMMA TypeStep == Typed /\ [Next]_vars => Typed'
<1>. SUFFICES ASSUME Typed, [Next]_vars PROVE Typed'
  OBVIOUS
<1>1. CASE Next
  <2>1. CFTyped'
    <3>1. ASSUME NEW p \in Procs, CFStep(p) PROVE CFTyped'
      BY <3>1, CFTypeStep DEF Typed, TypeOK, CFTyped
    <3>. QED
      BY <1>1, <3>1, DeployTypeStep, OtherTypeStep, RestartTypeStep DEF Next, Step
  <2>. QED
    BY <1>1, <2>1, DepTypeStep, HistoryTypeStep DEF CFTyped, DepTypeOK, Typed, TypeOK
<1>2. CASE UNCHANGED vars
  BY <1>2 DEF vars, cfVars, depVars, files, history, config, aws, mgr, Typed, TypeOK,
              CFTypeOK, NamesStack
<1>. QED
  BY <1>1, <1>2

\* The state of the deployment, of the CloudFront path and of every request has
\* its type in every reachable state.
THEOREM TypeCorrect == Spec => []TypeOK
<1>1. Spec => []Typed
  BY InitTypes, TypeStep, PTL DEF Spec
<1>2. Typed => TypeOK
  BY DEF Typed
<1>. QED
  BY <1>1, <1>2, PTL

-----------------------------------------------------------------------------
(* What AWS holds *)

\* A distribution of the stack s.
OfStack(d, s) == d \in DOMAIN dists /\ dists[d].stack = s

SameStacks == /\ DOMAIN dists' = DOMAIN dists
              /\ \A d \in DOMAIN dists : dists'[d].stack = dists[d].stack

\* What AWS holds: which distributions there are, what they trust, and which
\* of them the buckets let in, changes in three steps only.
LEMMA NewDistribution ==
    ASSUME Typed, NEW p \in Procs, CreateDistribution(p)
    PROVE  LET n == Len(dists) + 1 IN
           /\ DOMAIN dists = 1 .. Len(dists) /\ DOMAIN dists' = 1 .. n
           /\ dists'[n].stack = req[p].stack /\ dists'[n].trusted = req[p].key
           /\ \A d \in DOMAIN dists : dists'[d] = dists[d]
<1>. DEFINE n == Len(dists) + 1
            new == [stack |-> req[p].stack, tagged |-> FALSE, trusted |-> req[p].key]
<1>1. new \in Dists
  BY PlaceSets DEF CreateDistribution, NamesStack, Dists, Requests, Typed, TypeOK,
     CFTypeOK
<1>2. dists \in Seq(Dists) /\ dists' = Append(dists, new)
  BY DEF CreateDistribution, Dists, Typed, TypeOK, CFTypeOK
<1>3. new.stack = req[p].stack /\ new.trusted = req[p].key
  OBVIOUS
<1>. HIDE DEF new
<1>4. Len(dists) \in Nat /\ Len(dists') = n
  BY <1>1, <1>2, AppendProperties, LenProperties
<1>5. DOMAIN dists = 1 .. Len(dists) /\ DOMAIN dists' = 1 .. n
  BY <1>1, <1>2, <1>4, AppendProperties, LenProperties
<1>6. dists'[n] = new /\ \A d \in 1 .. Len(dists) : dists'[d] = dists[d]
  BY <1>1, <1>2, AppendProperties
<1>. QED
  BY <1>3, <1>5, <1>6

LEMMA DistRecord ==
    ASSUME Typed, NEW d \in DOMAIN dists
    PROVE  dists[d] \in Dists /\ d \in Nat \ {0}
<1>1. dists \in Seq(Dists)
  BY DEF Typed, TypeOK, CFTypeOK, Dists
<1>. QED
  BY <1>1

\* No step takes a distribution away from its stack.
LEMMA StacksStay ==
    ASSUME Typed, NEW p \in Procs, Arrive(p) \/ Step(p)
    PROVE  /\ \A d, s : OfStack(d, s) => OfStack(d, s)'
           /\ ~CreateDistribution(p) => SameStacks
<1>1. CASE dists' = dists
  BY <1>1 DEF OfStack, SameStacks
<1>2. CASE CreateDistribution(p)
  <2>. DEFINE n == Len(dists) + 1
  <2>1. /\ DOMAIN dists = 1 .. Len(dists) /\ DOMAIN dists' = 1 .. n
        /\ \A d \in DOMAIN dists : dists'[d] = dists[d]
    BY <1>2, NewDistribution
  <2>2. Len(dists) \in Nat
    BY DEF Typed, TypeOK, CFTypeOK
  <2>. QED
    BY <1>2, <2>1, <2>2 DEF OfStack
<1>3. CASE TagDistribution(p)
  <2>1. dists' = [dists EXCEPT ![req[p].dist].tagged = TRUE]
    BY <1>3 DEF TagDistribution
  <2>2. \A d \in DOMAIN dists : dists'[d].stack = dists[d].stack
    BY <2>1, DistRecord DEF Dists
  <2>. QED
    BY <2>1, <2>2 DEF OfStack, SameStacks
<1>4. CASE AttachKey(p)
  <2>1. dists' = [dists EXCEPT ![req[p].dist].trusted = req[p].key]
    BY <1>4 DEF AttachKey
  <2>2. \A d \in DOMAIN dists : dists'[d].stack = dists[d].stack
    BY <2>1, DistRecord DEF Dists
  <2>. QED
    BY <2>1, <2>2 DEF OfStack, SameStacks
<1>. QED
  BY <1>1, <1>2, <1>3, <1>4
  DEF Arrive, Request, Enable, Disable, StartRestore, Step, CFStep, EnableStarts, Find,
      Create, StoredKey, AllowOnBucket, AwsFails, LoadExisting, Save, ReloadLoad,
      ReloadKey, ReloadStart, DeployStep, DeployStack, WriteToml, WritePassword,
      SavePassword, InitRepository, Complete, DeployFails, Download, aws

LEMMA TrustStays ==
    ASSUME Typed, NEW p \in Procs, Arrive(p) \/ Step(p), ~AttachKey(p)
    PROVE  \A d \in DOMAIN dists : d \in DOMAIN dists' /\ dists'[d].trusted = dists[d].trusted
<1>1. CASE dists' = dists
  BY <1>1
<1>2. CASE CreateDistribution(p)
  <2>1. Len(dists) \in Nat
    BY DEF Typed, TypeOK, CFTypeOK
  <2>. QED
    BY <1>2, <2>1, NewDistribution
<1>3. CASE TagDistribution(p)
  <2>1. dists' = [dists EXCEPT ![req[p].dist].tagged = TRUE]
    BY <1>3 DEF TagDistribution
  <2>. QED
    BY <2>1, DistRecord DEF Dists
<1>. QED
  BY <1>1, <1>2, <1>3
  DEF Arrive, Request, Enable, Disable, StartRestore, Step, CFStep, EnableStarts, Find,
      Create, StoredKey, AllowOnBucket, AwsFails, LoadExisting, Save, ReloadLoad,
      ReloadKey, ReloadStart, DeployStep, DeployStack, WriteToml, WritePassword,
      SavePassword, InitRepository, Complete, DeployFails, Download, aws

LEMMA PolicyStays ==
    ASSUME NEW p \in Procs, Arrive(p) \/ Step(p), ~AllowOnBucket(p)
    PROVE  policy' = policy
BY DEF Arrive, Request, Enable, Disable, StartRestore, Step, CFStep, EnableStarts, Find,
   Create, CreateDistribution, TagDistribution, StoredKey, AttachKey, AwsFails,
   LoadExisting, Save, ReloadLoad, ReloadKey, ReloadStart, DeployStep, DeployStack,
   WriteToml, WritePassword, SavePassword, InitRepository, Complete, DeployFails,
   Download, aws

\* A statement in a bucket policy is left as it is.
LEMMA PolicyGrows ==
    ASSUME Typed, NEW p \in Procs, Arrive(p) \/ Step(p)
    PROVE  \A s \in Stacks : policy[s] # 0 => policy'[s] = policy[s]
<1>1. CASE AllowOnBucket(p)
  BY <1>1 DEF AllowOnBucket, Typed, TypeOK, CFTypeOK
<1>. QED
  BY <1>1, PolicyStays

-----------------------------------------------------------------------------
(* One distribution per stack *)

\* A run that has claimed the name of the origin access control, the first one
\* it creates, and has not created its distribution yet.
Creating(p) == pc[p] \in {"key", "keygroup", "cache", "dist"}

\* The first name of a stack is the ticket to its distribution: one run holds
\* it, and it is never given back.
Ticketed ==
    /\ \A p, q \in Procs :
         Creating(p) /\ Creating(q) /\ req[p].stack = req[q].stack => p = q
    /\ \A p \in Procs : Creating(p) =>
         /\ <<req[p].stack, "oac">> \in taken
         /\ \A d \in DOMAIN dists : dists[d].stack # req[p].stack
    /\ \A d \in DOMAIN dists : <<dists[d].stack, "oac">> \in taken
    /\ OneDistributionPerStack

\* A step of one process leaves the place and the request of the others alone.
LEMMA Alone ==
    ASSUME Typed, NEW p \in Procs, Arrive(p) \/ Step(p)
    PROVE  \A q \in Procs \ {p} : pc'[q] = pc[q] /\ req'[q] = req[q]
<1>. USE DEF Typed, TypeOK, CFTypeOK
<1>1. ASSUME CFStep(p) PROVE \A q \in Procs \ {p} : pc'[q] = pc[q] /\ req'[q] = req[q]
  <2>1. ASSUME Leave(p) PROVE \A q \in Procs \ {p} : pc'[q] = pc[q] /\ req'[q] = req[q]
    BY <2>1, LeaveType
  <2>2. ASSUME EnableStarts(p) \/ Find(p) \/ Create(p) \/ CreateDistribution(p)
        PROVE \A q \in Procs \ {p} : pc'[q] = pc[q] /\ req'[q] = req[q]
    BY <2>2 DEF EnableStarts, Find, Create, CreateDistribution, Goto
  <2>3. ASSUME TagDistribution(p) \/ StoredKey(p) \/ AttachKey(p) \/ AllowOnBucket(p)
               \/ LoadExisting(p)
        PROVE \A q \in Procs \ {p} : pc'[q] = pc[q] /\ req'[q] = req[q]
    BY <2>3 DEF TagDistribution, StoredKey, AttachKey, AllowOnBucket, LoadExisting, Goto
  <2>4. ASSUME AwsFails(p) \/ Save(p)
        PROVE \A q \in Procs \ {p} : pc'[q] = pc[q] /\ req'[q] = req[q]
    BY <2>1, <2>4 DEF AwsFails, Save, Goto
  <2>5. ASSUME ReloadLoad(p) \/ ReloadKey(p) \/ ReloadStart(p)
        PROVE \A q \in Procs \ {p} : pc'[q] = pc[q] /\ req'[q] = req[q]
    BY <2>1, <2>5 DEF ReloadLoad, ReloadKey, ReloadStart, Goto
  <2>. QED
    BY <1>1, <2>2, <2>3, <2>4, <2>5 DEF CFStep
<1>2. ASSUME DeployStep(p) \/ Download(p)
      PROVE  \A q \in Procs \ {p} : pc'[q] = pc[q] /\ req'[q] = req[q]
  BY <1>2 DEF DeployStep, DeployStack, WriteToml, WritePassword, SavePassword,
              InitRepository, Complete, DeployFails, Download, Goto, End
<1>3. ASSUME Arrive(p) PROVE \A q \in Procs \ {p} : pc'[q] = pc[q] /\ req'[q] = req[q]
  <2>1. ASSUME NEW s \in Stacks, Request(p, s)
        PROVE \A q \in Procs \ {p} : pc'[q] = pc[q] /\ req'[q] = req[q]
    BY <2>1 DEF Request, Goto
  <2>2. ASSUME Enable(p) PROVE \A q \in Procs \ {p} : pc'[q] = pc[q] /\ req'[q] = req[q]
    BY <2>2 DEF Enable, Goto
  <2>3. ASSUME Disable(p) \/ StartRestore(p)
        PROVE \A q \in Procs \ {p} : pc'[q] = pc[q] /\ req'[q] = req[q]
    BY <2>3 DEF Disable, StartRestore, Goto
  <2>. QED
    BY <1>3, <2>1, <2>2, <2>3 DEF Arrive
<1>. QED
  BY <1>1, <1>2, <1>3 DEF Step

\* A step that claims no name, creates no distribution and does not leave its
\* process creating one.
LEMMA Unclaimed ==
    ASSUME Ticketed, NEW p \in Procs, taken' = taken, SameStacks, ~Creating(p)',
           \A q \in Procs \ {p} : pc'[q] = pc[q] /\ req'[q] = req[q]
    PROVE  Ticketed'
<1>1. \A q \in Procs : Creating(q)' =>
         q # p /\ Creating(q) /\ pc'[q] = pc[q] /\ req'[q] = req[q]
  BY DEF Creating
<1>2. (\A d \in DOMAIN dists : <<dists[d].stack, "oac">> \in taken)'
  BY DEF Ticketed, SameStacks
<1>3. OneDistributionPerStack'
  BY DEF Ticketed, SameStacks, OneDistributionPerStack
<1>4. (\A r, q \in Procs :
         Creating(r) /\ Creating(q) /\ req[r].stack = req[q].stack => r = q)'
  BY <1>1 DEF Ticketed
<1>5. (\A q \in Procs : Creating(q) =>
         /\ <<req[q].stack, "oac">> \in taken
         /\ \A d \in DOMAIN dists : dists[d].stack # req[q].stack)'
  BY <1>1 DEF Ticketed, SameStacks
<1>. QED
  BY <1>2, <1>3, <1>4, <1>5 DEF Ticketed

LEMMA TicketStep == Typed /\ Ticketed /\ [Next]_vars => Ticketed'
<1>. SUFFICES ASSUME Typed, Ticketed, [Next]_vars PROVE Ticketed'
  OBVIOUS
<1>. USE DEF Typed, TypeOK, CFTypeOK
<1>1. ASSUME NEW p \in Procs, Arrive(p) PROVE Ticketed'
  <2>1. taken' = taken /\ SameStacks
    BY <1>1 DEF Arrive, Request, Enable, Disable, StartRestore, aws, SameStacks
  <2>2. ~Creating(p)'
    BY <1>1, PlaceSets
    DEF Arrive, Request, Enable, Disable, StartRestore, Goto, Creating
  <2>. QED
    BY <1>1, <2>1, <2>2, Alone, Unclaimed
<1>2. ASSUME NEW p \in Procs, Step(p), ~Create(p), ~CreateDistribution(p)
      PROVE  Ticketed'
  <2>1. taken' = taken
    BY <1>2 DEF Step, CFStep, EnableStarts, Find, TagDistribution, StoredKey, AttachKey,
       AllowOnBucket, AwsFails, LoadExisting, Save, ReloadLoad, ReloadKey, ReloadStart,
       DeployStep, DeployStack, WriteToml, WritePassword, SavePassword, InitRepository,
       Complete, DeployFails, Download, aws
  <2>2. SameStacks
    BY <1>2, StacksStay
  <2>3. ~Creating(p)'
    <3>1. ASSUME Leave(p) PROVE ~Creating(p)'
      BY <3>1, LeaveType DEF Creating
    <3>2. CASE CFStep(p)
      BY <1>2, <3>1, <3>2
      DEF CFStep, EnableStarts, Find, TagDistribution, StoredKey, AttachKey,
          AfterAttach, AllowOnBucket, AwsFails, LoadExisting, Save, ReloadLoad,
          ReloadKey, ReloadStart, Goto, Creating
    <3>3. CASE DeployStep(p) \/ Download(p)
      BY <3>3 DEF DeployStep, DeployStack, WriteToml, WritePassword, SavePassword,
       InitRepository, Complete, DeployFails, Download, Goto, End, Creating
    <3>. QED
      BY <1>2, <3>2, <3>3 DEF Step
  <2>. QED
    BY <1>2, <2>1, <2>2, <2>3, Alone, Unclaimed
<1>3. ASSUME NEW p \in Procs, Step(p), Create(p) PROVE Ticketed'
  <2>1. /\ \A q \in Procs \ {p} : pc'[q] = pc[q]
        /\ pc'[p] = After[pc[p]] /\ pc[p] \in DOMAIN After
        /\ req' = req /\ dists' = dists
        /\ taken' = taken \cup {<<req[p].stack, pc[p]>>}
        /\ <<req[p].stack, pc[p]>> \notin taken
    BY <1>3 DEF Create, Goto, mgr, Free
  <2>2. (\A d \in DOMAIN dists : <<dists[d].stack, "oac">> \in taken)'
        /\ OneDistributionPerStack'
    BY <2>1 DEF Ticketed, OneDistributionPerStack
  <2>3. CASE pc[p] = "oac"
    <3>1. \A d \in DOMAIN dists : dists[d].stack # req[p].stack
      BY <2>1, <2>3 DEF Ticketed
    <3>2. \A q \in Procs : Creating(q) => q # p /\ req[q].stack # req[p].stack
      BY <2>1, <2>3 DEF Ticketed, Creating
    <3>3. \A q \in Procs \ {p} : Creating(q)' => Creating(q)
      BY <2>1 DEF Creating
    <3>4. (\A r, q \in Procs :
             Creating(r) /\ Creating(q) /\ req[r].stack = req[q].stack => r = q)'
      BY <2>1, <3>2, <3>3 DEF Ticketed
    <3>5. (\A q \in Procs : Creating(q) =>
             /\ <<req[q].stack, "oac">> \in taken
             /\ \A d \in DOMAIN dists : dists[d].stack # req[q].stack)'
      BY <2>1, <2>3, <3>1, <3>3 DEF Ticketed
    <3>. QED
      BY <2>2, <3>4, <3>5 DEF Ticketed
  <2>4. CASE pc[p] # "oac"
    <3>1. Creating(p)
      BY <2>1, <2>4, Chain DEF Creating
    <3>2. \A q \in Procs : Creating(q)' => Creating(q)
      BY <2>1, <3>1 DEF Creating
    <3>. QED
      BY <2>1, <2>2, <3>2 DEF Ticketed
  <2>. QED
    BY <2>3, <2>4
<1>4. ASSUME NEW p \in Procs, Step(p), CreateDistribution(p) PROVE Ticketed'
  <2>. DEFINE n == Len(dists) + 1
  <2>1. /\ Creating(p) /\ ~Creating(p)' /\ taken' = taken
        /\ \A q \in Procs \ {p} : pc'[q] = pc[q] /\ req'[q] = req[q]
    <3>1. \A q \in Procs \ {p} : pc'[q] = pc[q] /\ req'[q] = req[q]
      BY <1>4, Alone
    <3>. QED
      BY <1>4, <3>1 DEF CreateDistribution, Goto, Creating
  <2>2. /\ DOMAIN dists = 1 .. Len(dists) /\ DOMAIN dists' = 1 .. n
        /\ dists'[n].stack = req[p].stack
        /\ \A d \in DOMAIN dists : dists'[d] = dists[d]
    BY <1>4, NewDistribution
  <2>3. \A d \in DOMAIN dists' : d = n \/ d \in DOMAIN dists
    BY <2>2
  <2>4. \A q \in Procs : Creating(q)' =>
          q # p /\ Creating(q) /\ req'[q] = req[q] /\ req[q].stack # req[p].stack
    BY <2>1 DEF Ticketed, Creating
  <2>5. (\A d \in DOMAIN dists : <<dists[d].stack, "oac">> \in taken)'
    BY <2>1, <2>2, <2>3 DEF Ticketed
  <2>6. OneDistributionPerStack'
    <3>1. \A d \in DOMAIN dists : dists'[d].stack # dists'[n].stack
      BY ZenonT(60), <2>1, <2>2 DEF Ticketed
    <3>2. \A d, e \in DOMAIN dists : dists'[d].stack = dists'[e].stack => d = e
      BY <2>2 DEF Ticketed, OneDistributionPerStack
    <3>. HIDE DEF n
    <3>. QED
      BY <2>3, <3>1, <3>2 DEF OneDistributionPerStack
  <2>7. (\A r, q \in Procs :
           Creating(r) /\ Creating(q) /\ req[r].stack = req[q].stack => r = q)'
    BY <2>4 DEF Ticketed
  <2>8. (\A q \in Procs : Creating(q) =>
           /\ <<req[q].stack, "oac">> \in taken
           /\ \A d \in DOMAIN dists : dists[d].stack # req[q].stack)'
    <3>. SUFFICES ASSUME NEW q \in Procs, Creating(q)'
                  PROVE  /\ <<req'[q].stack, "oac">> \in taken'
                         /\ \A d \in DOMAIN dists' : dists'[d].stack # req'[q].stack
      OBVIOUS
    <3>1. \A d \in DOMAIN dists : dists'[d].stack # req'[q].stack
      BY <2>2, <2>4 DEF Ticketed
    <3>2. dists'[n].stack # req'[q].stack
      BY <2>2, <2>4
    <3>3. <<req'[q].stack, "oac">> \in taken'
      BY <2>1, <2>4 DEF Ticketed
    <3>. HIDE DEF n
    <3>. QED
      BY <2>3, <3>1, <3>2, <3>3
  <2>. QED
    BY <2>5, <2>6, <2>7, <2>8 DEF Ticketed
<1>5. CASE Restart
  BY <1>5 DEF Restart, Ticketed, Creating, OneDistributionPerStack, aws
<1>6. CASE UNCHANGED vars
  BY <1>6 DEF vars, cfVars, Ticketed, Creating, OneDistributionPerStack, aws
<1>. QED
  BY <1>1, <1>2, <1>3, <1>4, <1>5, <1>6 DEF Next

\* No stack ever has two distributions, however many deployments and enable
\* requests provision it at the same time and wherever their calls fail.
THEOREM OneDistribution == Spec => []OneDistributionPerStack
<1>1. Init => Ticketed
  BY DEF Init, CFInit, Ticketed, Creating, OneDistributionPerStack
<1>2. Spec => []Typed
  BY InitTypes, TypeStep, PTL DEF Spec
<1>3. Spec => []Ticketed
  BY <1>1, <1>2, TicketStep, PTL DEF Spec
<1>4. Ticketed => OneDistributionPerStack
  BY DEF Ticketed
<1>. QED
  BY <1>3, <1>4, PTL

-----------------------------------------------------------------------------
(* The proxy and the stored configuration *)

\* A run past the choice of its distribution.
Chosen(p) == pc[p] \in {"tag", "stored", "attach", "policy", "merge", "save"}

\* A run of the CloudFront path knows a bucket, and past the choice of a
\* distribution it knows that too; so what is enabled has everything Reload
\* asks for.
Whole ==
    /\ \A p \in Procs : pc[p] \in Provisioning \cup {"start"} => coldBucket # None
    /\ \A p \in Procs : Chosen(p) => req[p].dist # 0
    /\ cf.enabled => cf.dist # 0 /\ cf.keyId # 0 /\ cf.key # 0 /\ coldBucket # None

\* The process between the reads of Reload holds the mutex, and what it has
\* read is what is stored unless somebody who changed it waits for the mutex.
Guarded == \A p \in Procs :
    /\ pc[p] \in {"open", "serve"} <=> lock = p
    /\ pc[p] \in {"open", "serve"} =>
          /\ Usable(req[p].cfg)
          /\ req[p].cfg = cf \/ \E q \in Procs : pc[q] = "lock"

\* ProxyReflectsStore, a field at a time.
Runs(c) == proxy.dist = c.dist /\ proxy.keyId = c.keyId /\ proxy.key = c.key
Reflected == (\A p \in Procs : pc[p] \notin Reloading) =>
                IF cf.enabled THEN Runs(cf) ELSE proxy = NoProxy

LEMMA FieldByField == TypeOK => (ProxyReflectsStore <=> Reflected)
<1>. SUFFICES ASSUME TypeOK PROVE ProxyReflectsStore <=> Reflected
  OBVIOUS
<1>1. [proxy EXCEPT !.bucket = coldBucket] = ProxyOf(cf) <=> Runs(cf)
  <2>. DEFINE here == [proxy EXCEPT !.bucket = coldBucket]
  <2>1. proxy \in [dist : Nat, keyId : Nat, key : Nat, bucket : MaybeStack]
        /\ coldBucket \in MaybeStack
    BY DEF TypeOK, CFTypeOK
  <2>2. /\ here \in [dist : Nat, keyId : Nat, key : Nat, bucket : MaybeStack]
        /\ here.dist = proxy.dist /\ here.keyId = proxy.keyId
        /\ here.key = proxy.key /\ here.bucket = coldBucket
    BY <2>1
  <2>3. here = [dist |-> here.dist, keyId |-> here.keyId, key |-> here.key,
                bucket |-> here.bucket]
    <3>. HIDE DEF here
    <3>. QED
      BY <2>2
  <2>. HIDE DEF here
  <2>4. here = ProxyOf(cf) <=> Runs(cf)
    BY <2>2, <2>3 DEF ProxyOf, Runs
  <2>. QED
    BY <2>4 DEF here
<1>. QED
  BY <1>1 DEF ProxyReflectsStore, Reflected

\* The steps that touch neither the proxy nor what it is built from.
Reloads(p) == Save(p) \/ ReloadLoad(p) \/ ReloadKey(p) \/ ReloadStart(p)

LEMMA Outside ==
    ASSUME Typed, NEW p \in Procs, Arrive(p) \/ Step(p), ~Disable(p), ~Reloads(p)
    PROVE  /\ cf' = cf /\ proxy' = proxy /\ lock' = lock
           /\ pc[p] \notin Reloading /\ pc'[p] \notin Reloading
<1>. USE PlaceSets, Chain DEF Typed, TypeOK, CFTypeOK
<1>1. cf' = cf /\ proxy' = proxy /\ lock' = lock
  BY DEF Arrive, Request, Enable, StartRestore, Step, CFStep, Reloads, EnableStarts,
     Find, Create, CreateDistribution, TagDistribution, StoredKey, AttachKey,
     AllowOnBucket, AwsFails, LoadExisting, DeployStep, DeployStack, WriteToml,
     WritePassword, SavePassword, InitRepository, Complete, DeployFails, Download,
     config, mgr
<1>2. pc[p] \notin Reloading
  BY DEF Arrive, Request, Enable, StartRestore, Step, CFStep, Reloads, EnableStarts,
     Find, Create, CreateDistribution, TagDistribution, StoredKey, AttachKey,
     AllowOnBucket, AwsFails, LoadExisting, DeployStep, DeployStack, WriteToml,
     WritePassword, SavePassword, InitRepository, Complete, DeployFails, Download
<1>3. pc'[p] \notin Reloading
  <2>1. CASE Arrive(p)
    BY <2>1 DEF Arrive, Request, Enable, StartRestore, Goto
  <2>2. CASE DeployStep(p) \/ Download(p)
    BY <2>2 DEF DeployStep, DeployStack, WriteToml, WritePassword, SavePassword,
       InitRepository, Complete, DeployFails, Download, Goto, End
  <2>3. CASE AwsFails(p)
    BY <2>3, LeaveType DEF AwsFails
  <2>4. CASE CFStep(p) /\ ~AwsFails(p)
    BY <2>4 DEF CFStep, Reloads, EnableStarts, Find, Create, CreateDistribution,
       TagDistribution, StoredKey, AttachKey, AfterAttach, AllowOnBucket, LoadExisting,
       Goto
  <2>. QED
    BY <2>1, <2>2, <2>3, <2>4 DEF Step
<1>. QED
  BY <1>1, <1>2, <1>3

\* A bucket, once known, is never forgotten.
LEMMA ColdStays ==
    ASSUME Typed, [Next]_vars
    PROVE  coldBucket' = coldBucket \/ coldBucket' # None
<1>1. ASSUME NEW p \in Procs, DeployStack(p) PROVE coldBucket' # None
  BY <1>1, NoneAssumption DEF DeployStack, Deploy, Typed, NamesStack
<1>. QED
  BY ZenonT(60), <1>1 DEF Next, Arrive, Request, Enable, Disable, StartRestore, Restart,
     Step, CFStep, EnableStarts, Find, Create, CreateDistribution, TagDistribution,
     StoredKey, AttachKey, AllowOnBucket, AwsFails, LoadExisting, Save, ReloadLoad,
     ReloadKey, ReloadStart, DeployStep, WriteToml, WritePassword, SavePassword,
     InitRepository, Complete, DeployFails, Download, config, vars, cfVars

\* Where a run comes from when it provisions, and when it has its distribution.
LEMMA WholeLocal ==
    ASSUME Typed, Whole, NEW p \in Procs, Arrive(p) \/ Step(p)
    PROVE  /\ pc'[p] \in Provisioning \cup {"start"} => coldBucket' # None
           /\ Chosen(p)' => req'[p].dist # 0
<1>. USE PlaceSets, Chain DEF Typed, TypeOK, CFTypeOK
<1>0. coldBucket # None => coldBucket' # None
  <2>1. Next
    BY DEF Next
  <2>. QED
    BY <2>1, ColdStays
<1>1. CASE Arrive(p)
  BY ZenonT(60), <1>1 DEF Arrive, Request, Enable, Disable, StartRestore, Goto, Chosen,
     config
<1>2. ASSUME Leave(p)
      PROVE  pc'[p] \notin Provisioning \cup {"start"} /\ ~Chosen(p)'
  BY <1>2, LeaveType DEF Chosen
<1>3. CASE DeployStep(p) \/ Download(p)
  <2>1. CASE DeployStack(p)
    BY <2>1, NoneAssumption DEF DeployStack, Deploy, Goto, Chosen, NamesStack
  <2>. QED
    BY ZenonT(60), <1>3, <2>1 DEF DeployStep, WriteToml, WritePassword, SavePassword,
       InitRepository, Complete, DeployFails, Download, Goto, End, Chosen
<1>4. CASE EnableStarts(p) \/ Create(p)
  BY <1>0, <1>4 DEF EnableStarts, Create, Goto, Chosen, Whole, mgr
<1>5. CASE Find(p)
  <2>1. coldBucket' # None
    BY <1>0, <1>5 DEF Find, Whole
  <2>2. Chosen(p)' => req'[p].dist # 0
    <3>1. CASE Goto(p, "oac")
      BY <3>1 DEF Goto, Chosen
    <3>2. CASE \E d \in Managed(req[p].stack) : req' = [req EXCEPT ![p].dist = d]
      <4>1. PICK d \in DOMAIN dists : req' = [req EXCEPT ![p].dist = d]
        BY <3>2 DEF Managed
      <4>2. d # 0
        OBVIOUS
      <4>. QED
        BY <4>1, <4>2 DEF Requests
    <3>. QED
      BY <1>5, <3>1, <3>2 DEF Find
  <2>. QED
    BY <2>1, <2>2
<1>6. CASE CreateDistribution(p)
  <2>1. req'[p].dist = Len(dists) + 1 /\ Len(dists) + 1 # 0
    BY <1>6 DEF CreateDistribution, Requests
  <2>. QED
    BY <1>0, <1>6, <2>1 DEF CreateDistribution, Whole
<1>7. CASE StoredKey(p)
  <2>1. req'[p].dist = req[p].dist
    BY <1>7 DEF StoredKey, Requests
  <2>. QED
    BY <1>0, <1>7, <2>1 DEF StoredKey, Whole, Chosen
<1>8. CASE TagDistribution(p) \/ AttachKey(p) \/ AllowOnBucket(p)
  BY <1>0, <1>8 DEF TagDistribution, AttachKey, AllowOnBucket, Whole, Chosen
<1>9. CASE LoadExisting(p)
  <2>1. req'[p].dist = req[p].dist
    BY <1>9 DEF LoadExisting, Requests
  <2>. QED
    BY <1>0, <1>9, <2>1 DEF LoadExisting, Whole, Chosen
<1>10. CASE AwsFails(p) \/ Save(p) \/ ReloadLoad(p) \/ ReloadKey(p) \/ ReloadStart(p)
  BY <1>2, <1>10 DEF AwsFails, Save, ReloadLoad, ReloadKey, ReloadStart, Goto, Chosen
<1>. QED
  BY <1>1, <1>3, <1>4, <1>5, <1>6, <1>7, <1>8, <1>9, <1>10 DEF Step, CFStep

LEMMA WholeStep == Typed /\ Whole /\ [Next]_vars => Whole'
<1>. SUFFICES ASSUME Typed, Whole, [Next]_vars PROVE Whole'
  OBVIOUS
<1>0. coldBucket # None => coldBucket' # None
  BY ColdStays
<1>1. CASE Restart
  BY <1>1, PlaceSets DEF Restart, Whole, Chosen, config
<1>2. CASE UNCHANGED vars
  BY <1>2 DEF vars, cfVars, config, Whole, Chosen
<1>3. ASSUME NEW p \in Procs, Arrive(p) \/ Step(p) PROVE Whole'
  <2>1. \A q \in Procs \ {p} : pc'[q] = pc[q] /\ req'[q] = req[q]
    BY <1>3, Alone
  <2>2. (\A q \in Procs : pc[q] \in Provisioning \cup {"start"} => coldBucket # None)'
    BY <1>0, <1>3, <2>1, WholeLocal DEF Whole
  <2>3. (\A q \in Procs : Chosen(q) => req[q].dist # 0)'
    BY <1>3, <2>1, WholeLocal DEF Whole, Chosen
  <2>4. (cf.enabled => cf.dist # 0 /\ cf.keyId # 0 /\ cf.key # 0 /\ coldBucket # None)'
    <3>1. CASE cf' = cf
      BY <1>0, <3>1 DEF Whole
    <3>2. CASE Disable(p)
      BY <3>2 DEF Disable, Typed, TypeOK, CFTypeOK, Configs
    <3>3. CASE Save(p) /\ cf' # cf
      <4>1. cf' = Merged(req[p]) /\ cf'.keyId # 0 /\ cf'.key # 0 /\ pc[p] = "save"
        BY <3>3 DEF Save
      <4>2. cf'.dist = req[p].dist
        BY <4>1 DEF Merged
      <4>. QED
        BY <1>0, <4>1, <4>2, PlaceSets DEF Whole, Chosen
    <3>. QED
      BY <1>3, <3>1, <3>2, <3>3, Outside DEF Reloads, ReloadLoad, ReloadKey,
         ReloadStart, config
  <2>. QED
    BY <2>2, <2>3, <2>4 DEF Whole
<1>. QED
  BY <1>1, <1>2, <1>3 DEF Next

LEMMA GuardedStep == Typed /\ Guarded /\ [Next]_vars => Guarded'
<1>. SUFFICES ASSUME Typed, Guarded, [Next]_vars PROVE Guarded'
  OBVIOUS
<1>. USE DEF Typed, TypeOK, CFTypeOK
<1>1. CASE Restart
  BY <1>1, NoneAssumption DEF Restart, Guarded
<1>2. CASE UNCHANGED vars
  BY <1>2 DEF vars, cfVars, config, mgr, Guarded
<1>3. ASSUME NEW p \in Procs, Arrive(p) \/ Step(p) PROVE Guarded'
  <2>1. \A q \in Procs \ {p} : pc'[q] = pc[q] /\ req'[q] = req[q]
    BY <1>3, Alone
  <2>2. CASE ~Disable(p) /\ ~Reloads(p)
    BY ZenonT(60), <1>3, <2>1, <2>2, Outside, PlaceSets DEF Guarded
  <2>3. CASE Disable(p) \/ (Save(p) /\ Goto(p, "lock"))
    <3>1. /\ pc'[p] = "lock" /\ lock' = lock
          /\ pc[p] \notin Reloading
      BY <2>3, PlaceSets DEF Disable, Save, Goto, mgr
    <3>. QED
      BY <2>1, <3>1, PlaceSets DEF Guarded
  <2>4. CASE Save(p) /\ ~Goto(p, "lock")
    <3>1. /\ cf' = cf /\ lock' = lock /\ pc[p] = "save" /\ pc'[p] \in {"idle", "toml"}
      BY <2>4, LeaveType DEF Save
    <3>. QED
      BY <2>1, <3>1 DEF Guarded
  <2>5. CASE ReloadLoad(p) /\ Usable(cf)
    <3>1. /\ lock = None /\ lock' = p /\ pc'[p] = "open" /\ cf' = cf
          /\ pc[p] = "lock"
      BY <2>5 DEF ReloadLoad, Goto, config
    <3>2. req'[p].cfg = cf
      BY <2>5 DEF ReloadLoad, Requests
    <3>3. Usable(req'[p].cfg)
      BY <2>5, <3>2 DEF Usable
    <3>4. \A q \in Procs : pc[q] \notin {"open", "serve"}
      BY <3>1, NoneAssumption DEF Guarded
    <3>. QED
      BY <2>1, <3>1, <3>2, <3>3, <3>4 DEF Guarded
  <2>6. CASE ReloadLoad(p) /\ ~Usable(cf)
    <3>1. /\ lock = None /\ lock' = lock /\ pc'[p] \in {"idle", "toml"}
      BY <2>6, LeaveType DEF ReloadLoad
    <3>2. \A q \in Procs : pc[q] \notin {"open", "serve"}
      BY <3>1, NoneAssumption DEF Guarded
    <3>. QED
      BY <2>1, <3>1, <3>2, NoneAssumption DEF Guarded
  <2>7. CASE ReloadStart(p)
    <3>1. /\ lock' = None /\ pc'[p] \in {"idle", "toml"} /\ pc[p] = "serve"
      BY <2>7, LeaveType DEF ReloadStart
    <3>2. \A q \in Procs : pc[q] \in {"open", "serve"} => q = p
      BY <3>1 DEF Guarded
    <3>. QED
      BY <2>1, <3>1, <3>2, NoneAssumption DEF Guarded
  <2>8. CASE ReloadKey(p) /\ cf.key # 0
    <3>0. /\ pc[p] = "open" /\ Goto(p, "serve") /\ UNCHANGED <<mgr, config>>
          /\ req' = [req EXCEPT ![p].cfg.key = cf.key]
      BY <2>8 DEF ReloadKey
    <3>1. /\ lock' = lock /\ pc'[p] = "serve" /\ cf' = cf /\ pc[p] = "open"
      BY <3>0 DEF Goto, config, mgr
    <3>2. req'[p].cfg = [req[p].cfg EXCEPT !.key = cf.key]
      BY <3>0 DEF Requests
    <3>3. Usable(req[p].cfg) /\ (req[p].cfg = cf \/ \E q \in Procs : pc[q] = "lock")
      BY <3>1 DEF Guarded
    <3>4. req[p].cfg \in Configs
      BY DEF Requests
    <3>5. Usable(req'[p].cfg)
      BY <3>2, <3>3, <3>4 DEF Usable, Configs
    <3>6. req[p].cfg = cf => req'[p].cfg = cf
      BY <3>2, <3>4 DEF Configs
    <3>7. req'[p].cfg = cf \/ \E q \in Procs : pc'[q] = "lock"
      BY <2>1, <3>1, <3>3, <3>6
    <3>. QED
      BY <2>1, <3>1, <3>5, <3>7 DEF Guarded
  <2>9. CASE ReloadKey(p) /\ cf.key = 0
    <3>1. /\ lock' = None /\ pc'[p] \in {"idle", "toml"} /\ pc[p] = "open"
      BY <2>9, LeaveType DEF ReloadKey
    <3>2. \A q \in Procs : pc[q] \in {"open", "serve"} => q = p
      BY <3>1 DEF Guarded
    <3>. QED
      BY <2>1, <3>1, <3>2, NoneAssumption DEF Guarded
  <2>. QED
    BY <1>3, <2>2, <2>3, <2>4, <2>5, <2>6, <2>7, <2>8, <2>9 DEF Reloads
<1>. QED
  BY <1>1, <1>2, <1>3 DEF Next

LEMMA ReflectedStep ==
    Typed /\ Whole /\ Guarded /\ Reflected /\ [Next]_vars => Reflected'
<1>. SUFFICES ASSUME Typed, Whole, Guarded, Reflected, [Next]_vars,
                     \A p \in Procs : pc'[p] \notin Reloading
              PROVE  IF cf'.enabled THEN Runs(cf)' ELSE proxy' = NoProxy
  BY DEF Reflected
<1>. USE DEF Typed, TypeOK, CFTypeOK
<1>1. CASE Restart
  <2>1. CASE cf.enabled
    <3>1. proxy' = ProxyOf(cf) /\ cf' = cf
      BY <1>1, <2>1 DEF Restart, Whole, Usable, config
    <3>. QED
      BY <2>1, <3>1 DEF ProxyOf, Runs
  <2>2. CASE ~cf.enabled
    BY <1>1, <2>2 DEF Restart, Usable, config
  <2>. QED
    BY <2>1, <2>2
<1>2. CASE UNCHANGED vars
  BY <1>2 DEF vars, cfVars, config, mgr, Reflected, Runs
<1>3. ASSUME NEW p \in Procs, Arrive(p) \/ Step(p)
      PROVE  IF cf'.enabled THEN Runs(cf)' ELSE proxy' = NoProxy
  <2>1. \A q \in Procs \ {p} : pc'[q] = pc[q] /\ req'[q] = req[q]
    BY <1>3, Alone
  <2>2. CASE ~Disable(p) /\ ~Reloads(p)
    BY <1>3, <2>1, <2>2, Outside DEF Reflected, Runs
  <2>3. CASE Disable(p) \/ (Save(p) /\ Goto(p, "lock"))
    <3>1. pc'[p] = "lock"
      BY <2>3 DEF Disable, Goto
    <3>. QED
      BY <3>1, PlaceSets
  <2>4. CASE Save(p) /\ ~Goto(p, "lock")
    <3>1. /\ cf' = cf /\ proxy' = proxy /\ pc[p] = "save"
      BY <2>4 DEF Save
    <3>. QED
      BY <2>1, <3>1, PlaceSets DEF Reflected, Runs
  <2>5. CASE ReloadLoad(p) /\ Usable(cf)
    <3>1. pc'[p] = "open"
      BY <2>5 DEF ReloadLoad, Goto
    <3>. QED
      BY <3>1, PlaceSets
  <2>6. CASE ReloadLoad(p) /\ ~Usable(cf)
    <3>1. proxy' = NoProxy /\ cf' = cf
      BY <2>6 DEF ReloadLoad, Stopped, config
    <3>2. ~cf.enabled
      BY <2>6 DEF Whole, Usable
    <3>. QED
      BY <3>1, <3>2
  <2>7. CASE ReloadStart(p)
    <3>1. pc[p] = "serve" /\ \A q \in Procs : pc[q] # "lock"
      BY <2>1, <2>7, PlaceSets DEF ReloadStart
    <3>2. req[p].cfg = cf /\ Usable(cf)
      BY <3>1 DEF Guarded
    <3>3. cf.enabled /\ cf.key # 0 /\ coldBucket # None
      BY <3>2 DEF Usable, Whole
    <3>4. proxy' = ProxyOf(cf) /\ cf' = cf
      BY <2>7, <3>2, <3>3 DEF ReloadStart, config
    <3>. QED
      BY <3>3, <3>4 DEF ProxyOf, Runs
  <2>8. CASE ReloadKey(p) /\ cf.key # 0
    <3>1. pc'[p] = "serve"
      BY <2>8 DEF ReloadKey, Goto
    <3>. QED
      BY <3>1, PlaceSets
  <2>9. CASE ReloadKey(p) /\ cf.key = 0
    <3>1. pc[p] = "open" /\ pc'[p] # "lock" /\ \A q \in Procs : pc[q] # "lock"
      BY <2>1, <2>9, PlaceSets DEF ReloadKey
    <3>2. req[p].cfg = cf /\ Usable(cf)
      BY <3>1 DEF Guarded
    <3>. QED
      BY <2>9, <3>2 DEF Usable, Whole
  <2>. QED
    BY <1>3, <2>2, <2>3, <2>4, <2>5, <2>6, <2>7, <2>8, <2>9 DEF Reloads
<1>. QED
  BY <1>1, <1>2, <1>3 DEF Next

\* Whenever no reload is outstanding the proxy runs what aws_config says,
\* however many runs save, disable and reload at the same time.
THEOREM ProxyFollowsStore == Spec => []ProxyReflectsStore
<1>1. Init => Whole /\ Guarded /\ Reflected
  BY PlaceSets, NoneAssumption
  DEF Init, CFInit, Whole, Chosen, Guarded, Reflected, NoConfig
<1>2. Spec => []Typed
  BY InitTypes, TypeStep, PTL DEF Spec
<1>3. Spec => []Whole
  BY <1>1, <1>2, WholeStep, PTL DEF Spec
<1>4. Spec => []Guarded
  BY <1>1, <1>2, GuardedStep, PTL DEF Spec
<1>5. Spec => []Reflected
  BY <1>1, <1>2, <1>3, <1>4, ReflectedStep, PTL DEF Spec
<1>6. Typed /\ Reflected => ProxyReflectsStore
  BY FieldByField DEF Typed
<1>. QED
  BY <1>2, <1>5, <1>6, PTL

-----------------------------------------------------------------------------
(* The arcs a request follows *)

\* The places only a deployment or an enable run passes through.
Working == {"stack", "start"} \cup Provisioning \cup DeploySteps

Worker(p) == pc[p] # "idle" /\ req[p].kind \in {"deploy", "enable"}

\* Where the steps that end neither the request nor its CloudFront part lead.
Arc(from, to) ==
    \/ from \in {"start", "stack"} /\ to = "find"
    \/ from = "find" /\ to \in {"oac", "stored"}
    \/ from \in DOMAIN After /\ to = After[from]
    \/ from = "dist" /\ to = "tag"
    \/ from = "stored" /\ to \in {"attach", "merge"}
    \/ from \in {"tag", "attach"} /\ to = "policy"
    \/ from = "policy" /\ to = "merge"
    \/ from = "merge" /\ to = "save"
    \/ from = "save" /\ to = "lock"
    \/ from = "lock" /\ to = "open"
    \/ from = "open" /\ to = "serve"
    \/ from = "toml" /\ to = "password"
    \/ from = "password" /\ to = "dbpass"
    \/ from = "dbpass" /\ to = "init"
    \/ from = "init" /\ to = "complete"

Ends(p) == pc'[p] = "idle" /\ req'[p] = NoRequest

\* A step follows an arc, leaves for the configuration, or ends the request.
\* A fresh key goes with a new distribution, or with an old one when no key is
\* stored.
Walks(p) ==
    /\ pc[p] # "idle"
    /\ req'[p].kind = req[p].kind /\ req'[p].stack = req[p].stack
    /\ pc[p] # "stack" => req'[p].bucket = req[p].bucket
    /\ pc[p] \notin {"find", "dist"} => req'[p].dist = req[p].dist
    /\ IF pc'[p] \in {"oac", "attach"} THEN req'[p].key # 0 ELSE req'[p].key = req[p].key
    /\ pc'[p] = "attach" => cf.key = 0
    /\ pc'[p] = "stored" => OfStack(req'[p].dist, req[p].stack)
    /\ pc'[p] = "tag" => CreateDistribution(p)
    /\ pc'[p] = "save" => req'[p].cfg = cf
    /\ \/ Arc(pc[p], pc'[p])
       \/ /\ req[p].kind = "deploy" /\ pc'[p] = "toml"
          /\ pc[p] \in Provisioning \cup Reloading

LEMMA Leaving ==
    ASSUME Typed, NEW p \in Procs, Leave(p)
    PROVE  \/ Ends(p)
           \/ req[p].kind = "deploy" /\ pc'[p] = "toml" /\ req' = req
<1>. pc \in [Procs -> Places] /\ req \in [Procs -> Requests]
  BY DEF Typed, TypeOK, CFTypeOK
<1>. QED
  BY DEF Leave, End, Goto, Ends

LEMMA StepWalks ==
    ASSUME Typed, NEW p \in Procs, Step(p)
    PROVE  Walks(p) \/ Ends(p)
<1>. pc \in [Procs -> Places] /\ req \in [Procs -> Requests]
  BY DEF Typed, TypeOK, CFTypeOK
<1>. keys \in Nat /\ keys + 1 # 0
  BY DEF Typed, TypeOK, CFTypeOK
<1>. USE PlaceSets, Chain DEF Walks, Arc
<1>1. ASSUME Leave(p), pc[p] \in Provisioning \cup Reloading PROVE Walks(p) \/ Ends(p)
  BY <1>1, Leaving
<1>2. CASE EnableStarts(p)
  BY <1>2 DEF EnableStarts, Goto
<1>3. CASE Find(p)
  BY <1>3 DEF Find, Goto, Requests, Managed, OfStack
<1>4. CASE Create(p)
  BY <1>4 DEF Create, Goto
<1>5. CASE CreateDistribution(p)
  BY <1>5 DEF CreateDistribution, Goto, Requests
<1>6. CASE TagDistribution(p)
  BY <1>6 DEF TagDistribution, Goto
<1>7. CASE StoredKey(p)
  BY <1>7 DEF StoredKey, Goto, Requests
<1>8. CASE AttachKey(p)
  BY <1>8 DEF AttachKey, AfterAttach, Goto
<1>9. CASE AllowOnBucket(p)
  BY <1>9 DEF AllowOnBucket, Goto
<1>10. CASE AwsFails(p)
  BY <1>1, <1>10 DEF AwsFails
<1>11. CASE LoadExisting(p)
  BY <1>11 DEF LoadExisting, Goto, Requests
<1>12. CASE Save(p)
  BY <1>1, <1>12 DEF Save, Goto
<1>13. CASE ReloadLoad(p)
  BY <1>1, <1>13 DEF ReloadLoad, Goto, Requests
<1>14. CASE ReloadStart(p)
  BY <1>1, <1>14 DEF ReloadStart
<1>15. CASE DeployStack(p)
  BY <1>15 DEF DeployStack, Goto, Requests
<1>16. CASE WriteToml(p)
  BY <1>16 DEF WriteToml, Goto
<1>17. CASE WritePassword(p)
  BY <1>17 DEF WritePassword, Goto, Requests
<1>18. CASE SavePassword(p)
  BY <1>18 DEF SavePassword, Goto
<1>19. CASE InitRepository(p)
  BY <1>19 DEF InitRepository, Goto
<1>20. CASE Complete(p) \/ DeployFails(p) \/ Download(p)
  BY <1>20 DEF Complete, DeployFails, Download, End, Goto, Ends
<1>21. CASE ReloadKey(p)
  BY <1>1, <1>21 DEF ReloadKey, Goto, Requests
<1>. QED
  BY <1>2, <1>3, <1>4, <1>5, <1>6, <1>7, <1>8, <1>9, <1>10, <1>11, <1>12, <1>13, <1>14,
     <1>15, <1>16, <1>17, <1>18, <1>19, <1>20, <1>21 DEF Step, CFStep, DeployStep

\* What a request may look like where it is.
Sorted == \A p \in Procs :
    /\ pc[p] = "idle" => req[p] = NoRequest
    /\ pc[p] \in Working => Worker(p)
    /\ pc[p] \in DeploySteps => req[p].kind = "deploy"
    /\ Worker(p) => req[p].stack \in Stacks
    /\ pc[p] \in {"stack", "start", "find", "stored"} => req[p].key = 0
    /\ pc[p] \in DOMAIN After \cup {"dist", "tag", "attach", "policy"} => req[p].key # 0

LEMMA SortedStep == Typed /\ Sorted /\ [Next]_vars => Sorted'
<1>. SUFFICES ASSUME Typed, Sorted, [Next]_vars PROVE Sorted'
  OBVIOUS
<1>. pc \in [Procs -> Places] /\ req \in [Procs -> Requests]
  BY DEF Typed, TypeOK, CFTypeOK
<1>0. /\ NoRequest.kind = "none" /\ NoRequest.key = 0
      /\ Working = {"stack", "start", "oac", "key", "keygroup", "cache", "find", "dist",
                    "tag", "stored", "attach", "policy", "merge", "save", "toml",
                    "password", "dbpass", "init", "complete"}
      /\ DeploySteps = {"stack", "toml", "password", "dbpass", "init", "complete"}
  BY PlaceSets DEF NoRequest, Working, DeploySteps
<1>1. CASE Restart
  BY <1>0, <1>1, Chain DEF Restart, Sorted, Worker
<1>2. CASE UNCHANGED vars
  BY <1>2 DEF vars, cfVars, Sorted, Worker
<1>3. ASSUME NEW p \in Procs, Step(p) PROVE Sorted'
  <2>1. \A q \in Procs \ {p} : pc'[q] = pc[q] /\ req'[q] = req[q]
    BY <1>3, Alone
  <2>2. CASE Ends(p)
    BY <1>0, Chain, <2>1, <2>2 DEF Sorted, Worker, Ends
  <2>3. CASE Walks(p)
    <3>1. \/ Arc(pc[p], pc'[p])
          \/ /\ req[p].kind = "deploy" /\ pc'[p] = "toml"
             /\ pc[p] \in Provisioning \cup Reloading
      BY <2>3 DEF Walks
    <3>2. /\ pc'[p] # "idle" /\ pc[p] # "idle"
          /\ pc'[p] \in {"stack", "start", "find"} => pc[p] \in {"stack", "start"}
          /\ pc'[p] = "stored" => pc[p] = "find"
          /\ pc'[p] \in DOMAIN After \cup {"dist", "tag", "attach", "policy"} =>
                \/ pc'[p] \in {"oac", "attach"}
                \/ pc[p] \in DOMAIN After \cup {"dist", "tag", "attach", "policy"}
          /\ pc'[p] \in {"stack", "start", "find", "stored"} => pc'[p] \notin {"oac", "attach"}
          /\ pc'[p] \in Working => pc[p] \in Working \/ req[p].kind = "deploy"
          /\ pc'[p] \in DeploySteps => pc[p] \in DeploySteps \/ req[p].kind = "deploy"
      BY <1>0, <2>3, <3>1, Chain, PlaceSets DEF Walks, Arc
    <3>. QED
      BY <2>1, <2>3, <3>2, Chain DEF Walks, Sorted, Worker
  <2>. QED
    BY <1>3, <2>2, <2>3, StepWalks
<1>4. ASSUME NEW p \in Procs, Arrive(p) PROVE Sorted'
  <2>1. \A q \in Procs \ {p} : pc'[q] = pc[q] /\ req'[q] = req[q]
    BY <1>4, Alone
  <2>2. ASSUME pc[p] = "idle" PROVE req[p] = NoRequest
    BY <2>2 DEF Sorted
  <2>3. ASSUME NEW s \in Stacks, Request(p, s)
        PROVE  /\ pc'[p] = "stack" /\ req'[p].kind = "deploy"
               /\ req'[p].stack \in Stacks /\ req'[p].key = 0
    BY <1>0, <2>2, <2>3 DEF Request, Goto, Requests
  <2>4. ASSUME Enable(p)
        PROVE  /\ pc'[p] = "start" /\ req'[p].kind = "enable"
               /\ req'[p].stack \in Stacks /\ req'[p].key = 0
    BY <1>0, <2>2, <2>4
    DEF Enable, Goto, Requests, Typed, TypeOK, CFTypeOK, MaybeStack
  <2>5. ASSUME Disable(p) \/ StartRestore(p)
        PROVE  pc'[p] \in {"lock", "thaw"} /\ req'[p].kind \in {"disable", "restore"}
    BY <2>5 DEF Disable, StartRestore, Goto, Requests
  <2>. QED
    BY <1>0, Chain, <1>4, <2>1, <2>3, <2>4, <2>5 DEF Arrive, Sorted, Worker
<1>. QED
  BY <1>1, <1>2, <1>3, <1>4 DEF Next

-----------------------------------------------------------------------------
(* What a complete setup opens *)

\* While no two runs have overlapped there is one worker, and it works on the
\* one stack there has been.
Single ==
    /\ \A p, q \in Procs : Worker(p) /\ Worker(q) => p = q
    /\ \A p \in Procs : Worker(p) => req[p].stack = stackName

SingleInv == ~overlapped => Single

LEMMA SameStackName ==
    ASSUME NEW p \in Procs, Step(p)
    PROVE  stackName' = stackName /\ overlapped' = overlapped /\ again' = again
<1>1. overlapped' = overlapped /\ again' = again
  BY DEF Step, history
<1>2. stackName' = stackName
  BY DEF Step, CFStep, EnableStarts, Find, Create, CreateDistribution, TagDistribution,
     StoredKey, AttachKey, AllowOnBucket, AwsFails, LoadExisting, Save, ReloadLoad,
     ReloadKey, ReloadStart, DeployStep, DeployStack, WriteToml, WritePassword,
     SavePassword, InitRepository, Complete, DeployFails, Download, config
<1>. QED
  BY <1>1, <1>2

\* A step takes on no work, and keeps what it is working on.
LEMMA SameWork ==
    ASSUME Typed, NEW p \in Procs, Step(p)
    PROVE  \A q \in Procs : Worker(q)' =>
              Worker(q) /\ req'[q].kind = req[q].kind /\ req'[q].stack = req[q].stack
<1>1. \A q \in Procs \ {p} : pc'[q] = pc[q] /\ req'[q] = req[q]
  BY Alone
<1>2. NoRequest.kind = "none"
  BY DEF NoRequest
<1>. QED
  BY <1>1, <1>2, StepWalks DEF Worker, Walks, Ends

\* What the arrival of a request does while no two runs overlap: somebody new
\* starts to work only when nobody works.
LEMMA ArriveWork ==
    ASSUME Typed, Sorted, NEW p \in Procs, Arrive(p), ~overlapped'
    PROVE  /\ ~overlapped /\ pc[p] = "idle" /\ pc'[p] # "idle"
           /\ Worker(p)' => /\ \A q \in Procs : ~Worker(q)
                            /\ req'[p].stack = stackName'
           /\ stackName' = stackName \/ (stackName = None /\ \A q \in Procs : ~Worker(q))
<1>. pc \in [Procs -> Places] /\ req \in [Procs -> Requests]
  BY DEF Typed, TypeOK, CFTypeOK
<1>0. Busy <=> \E q \in Procs : Worker(q)
  BY DEF Busy, Worker
<1>1. ASSUME NEW s \in Stacks, Request(p, s)
      PROVE  /\ ~overlapped /\ ~Busy /\ stackName \in {None, s} /\ stackName' = s
             /\ pc[p] = "idle" /\ pc'[p] # "idle" /\ req'[p].stack = s
  BY <1>1 DEF Request, Goto, Requests
<1>2. ASSUME Enable(p), overlapped' = (overlapped \/ Busy)
      PROVE  /\ ~overlapped /\ ~Busy /\ stackName' = stackName
             /\ pc[p] = "idle" /\ pc'[p] # "idle" /\ req'[p].stack = stackName
  BY <1>2 DEF Enable, Goto, Requests, config
<1>3. ASSUME Disable(p) \/ StartRestore(p), overlapped' = overlapped
      PROVE  /\ ~overlapped /\ stackName' = stackName /\ pc[p] = "idle" /\ pc'[p] # "idle"
             /\ req'[p].kind \in {"disable", "restore"}
  BY <1>3 DEF Disable, StartRestore, Goto, Requests, config
<1>4. CASE \E s \in Stacks : Request(p, s)
  BY <1>0, <1>1, <1>4
<1>5. CASE Enable(p) /\ overlapped' = (overlapped \/ Busy)
  BY <1>0, <1>2, <1>5
<1>6. CASE (Disable(p) \/ StartRestore(p)) /\ overlapped' = overlapped
  BY <1>3, <1>6 DEF Worker
<1>. QED
  BY <1>4, <1>5, <1>6 DEF Arrive

LEMMA SingleStep == Typed /\ Sorted /\ SingleInv /\ [Next]_vars => SingleInv'
<1>. SUFFICES ASSUME Typed, Sorted, SingleInv, [Next]_vars, ~overlapped' PROVE Single'
  BY DEF SingleInv
<1>1. CASE Restart
  BY <1>1 DEF Restart, Single, Worker
<1>2. CASE UNCHANGED vars
  BY <1>2 DEF vars, cfVars, config, history, SingleInv, Single, Worker
<1>3. ASSUME NEW p \in Procs, Step(p) PROVE Single'
  BY <1>3, SameStackName, SameWork DEF SingleInv, Single
<1>4. ASSUME NEW p \in Procs, Arrive(p) PROVE Single'
  <2>1. \A q \in Procs \ {p} : pc'[q] = pc[q] /\ req'[q] = req[q]
    BY <1>4, Alone
  <2>. QED
    BY <1>4, <2>1, ArriveWork DEF SingleInv, Single, Worker
<1>. QED
  BY <1>1, <1>2, <1>3, <1>4 DEF Next

\* What a deployment has written where it is; and a complete setup opens its
\* repository, with nobody at work on another one.
Configured ==
    /\ \A p \in Procs :
        /\ pc[p] \in {"password", "dbpass", "init"} => toml = req[p].stack
        /\ pc[p] = "dbpass" => passFile = req[p].pass /\ passFile # 0
        /\ pc[p] = "init" => passFile = dbPass /\ passFile # 0
        /\ pc[p] = "complete" => Opens
    /\ setup /\ ~again => Opens /\ \A p \in Procs : pc[p] # "idle" => req[p].kind # "deploy"

ConfiguredInv == ~overlapped => Configured

\* The steps that write the configuration, a password or the repository.
Writes(p) == WriteToml(p) \/ WritePassword(p) \/ SavePassword(p) \/ InitRepository(p)
             \/ Complete(p)

Written == <<toml, passFile, dbPass, repo, setup>>

LEMMA WritesNothing ==
    ASSUME Typed, NEW p \in Procs, Step(p), ~Writes(p)
    PROVE  /\ UNCHANGED Written
           /\ pc'[p] \notin {"password", "dbpass", "init", "complete"}
<1>. pc \in [Procs -> Places] /\ req \in [Procs -> Requests]
  BY DEF Typed, TypeOK, CFTypeOK
<1>1. UNCHANGED Written
  BY DEF Step, DeployStep, Writes, DeployStack, DeployFails, Download, depVars, files,
     Written
<1>2. CASE Ends(p)
  BY <1>1, <1>2 DEF Ends
<1>3. CASE CFStep(p) /\ Walks(p)
  <2>1. pc[p] \in {"start"} \cup Provisioning \cup Reloading
    BY <1>3, PlaceSets, Chain DEF CFStep, EnableStarts, Find, Create,
       CreateDistribution, TagDistribution, StoredKey, AttachKey, AllowOnBucket,
       AwsFails, LoadExisting, Save, ReloadLoad, ReloadKey, ReloadStart
  <2>. QED
    BY <1>1, <1>3, <2>1, PlaceSets, Chain DEF Walks, Arc
<1>4. CASE DeployStack(p)
  BY <1>1, <1>4 DEF DeployStack, Goto
<1>5. CASE DeployFails(p) \/ Download(p)
  BY <1>1, <1>5 DEF DeployFails, Download, End, Goto
<1>. QED
  BY <1>2, <1>3, <1>4, <1>5, StepWalks DEF Step, DeployStep, Writes

LEMMA WritesStep ==
    ASSUME Typed, Sorted, Single, Configured, NEW p \in Procs, Step(p), Writes(p)
    PROVE  Configured'
<1>. USE NoneAssumption DEF Typed, TypeOK, CFTypeOK
<1>0. /\ pc[p] \in DeploySteps /\ Worker(p)
      /\ req[p].kind = "deploy" /\ req[p].stack \in Stacks
  BY DEF Writes, WriteToml, WritePassword, SavePassword, InitRepository, Complete,
     DeploySteps, Sorted, Working
<1>1. /\ \A q \in Procs \ {p} : pc'[q] = pc[q] /\ req'[q] = req[q]
      /\ \A q \in Procs \ {p} : pc[q] \notin {"password", "dbpass", "init", "complete"}
  <2>1. \A q \in Procs \ {p} : ~Worker(q)
    BY <1>0 DEF Single
  <2>. QED
    BY <2>1, Alone DEF Sorted, Working, DeploySteps
<1>2. ~(setup /\ ~again) /\ again' = again
  BY <1>0, SameStackName DEF Configured, Worker
<1>3. CASE WriteToml(p)
  <2>1. /\ pc'[p] = "password" /\ req' = req /\ toml' = req[p].stack /\ setup' = setup
    BY <1>3 DEF WriteToml, Goto
  <2>. QED
    BY <1>1, <1>2, <2>1 DEF Configured
<1>4. CASE WritePassword(p)
  <2>1. /\ pc[p] = "password" /\ pc'[p] = "dbpass" /\ toml' = toml /\ setup' = setup
        /\ req'[p].stack = req[p].stack /\ req'[p].pass = passwords + 1
        /\ passFile' = passwords + 1
    BY <1>4 DEF WritePassword, Goto, Requests
  <2>2. passwords + 1 # 0
    OBVIOUS
  <2>3. /\ pc'[p] = "dbpass" /\ toml' = req'[p].stack /\ setup' = setup
        /\ passFile' = req'[p].pass /\ passFile' # 0
    BY <2>1, <2>2 DEF Configured
  <2>. QED
    BY <1>1, <1>2, <2>3 DEF Configured
<1>5. CASE SavePassword(p)
  <2>1. /\ pc[p] = "dbpass" /\ pc'[p] = "init" /\ UNCHANGED <<toml, passFile, setup, req>>
        /\ dbPass' = req[p].pass
    BY <1>5 DEF SavePassword, PasswordToStore, Goto, files
  <2>. QED
    BY <1>1, <1>2, <2>1 DEF Configured
<1>6. CASE InitRepository(p)
  <2>1. /\ pc[p] = "init" /\ pc'[p] = "complete"
        /\ UNCHANGED <<toml, passFile, dbPass, setup>>
        /\ repo' = [repo EXCEPT ![toml] = passFile]
    BY <1>6 DEF InitRepository, Goto, files
  <2>2. toml \in Stacks /\ passFile = dbPass /\ passFile # 0
    BY <1>0, <2>1 DEF Configured
  <2>3. Opens'
    BY <2>1, <2>2 DEF Opens
  <2>. QED
    BY <1>1, <1>2, <2>1, <2>3 DEF Configured
<1>7. CASE Complete(p)
  <2>1. /\ pc[p] = "complete" /\ Ends(p) /\ UNCHANGED <<toml, passFile, dbPass, repo>>
    BY <1>7 DEF Complete, End, Goto, Ends, files
  <2>2. Opens'
    BY <2>1 DEF Configured, Opens
  <2>3. \A q \in Procs : pc'[q] # "idle" => req'[q].kind # "deploy"
    <3>1. \A q \in Procs \ {p} : ~Worker(q)
      BY <1>0 DEF Single
    <3>. QED
      BY <1>1, <2>1, <3>1 DEF Worker, Ends
  <2>. QED
    BY <1>1, <2>1, <2>2, <2>3 DEF Configured, Ends
<1>. QED
  BY <1>3, <1>4, <1>5, <1>6, <1>7 DEF Writes

LEMMA ConfiguredStep ==
    Typed /\ Sorted /\ SingleInv /\ ConfiguredInv /\ [Next]_vars => ConfiguredInv'
<1>. SUFFICES ASSUME Typed, Sorted, SingleInv, ConfiguredInv, [Next]_vars, ~overlapped'
              PROVE  Configured'
  BY DEF ConfiguredInv
<1>. pc \in [Procs -> Places] /\ req \in [Procs -> Requests]
  BY DEF Typed, TypeOK, CFTypeOK
<1>1. CASE Restart
  BY <1>1 DEF Restart, files, ConfiguredInv, Configured, Opens
<1>2. CASE UNCHANGED vars
  BY <1>2 DEF vars, cfVars, depVars, files, history, ConfiguredInv, Configured, Opens
<1>3. ASSUME NEW p \in Procs, Step(p) PROVE Configured'
  <2>1. Single /\ Configured /\ again' = again
    BY <1>3, SameStackName DEF SingleInv, ConfiguredInv
  <2>2. CASE Writes(p)
    BY <1>3, <2>1, <2>2, WritesStep
  <2>3. CASE ~Writes(p)
    <3>1. /\ UNCHANGED Written
          /\ pc'[p] \notin {"password", "dbpass", "init", "complete"}
      BY <1>3, <2>3, WritesNothing
    <3>2. \A q \in Procs \ {p} : pc'[q] = pc[q] /\ req'[q] = req[q]
      BY <1>3, Alone
    <3>3. pc'[p] # "idle" /\ req'[p].kind = "deploy" =>
             pc[p] # "idle" /\ req[p].kind = "deploy"
      BY <1>3, StepWalks DEF Walks, Ends
    <3>. QED
      BY <2>1, <3>1, <3>2, <3>3 DEF Configured, Opens, Written
  <2>. QED
    BY <2>2, <2>3
<1>4. ASSUME NEW p \in Procs, Arrive(p) PROVE Configured'
  <2>1. \A q \in Procs \ {p} : pc'[q] = pc[q] /\ req'[q] = req[q]
    BY <1>4, Alone
  <2>2. Configured
    BY <1>4, ArriveWork DEF ConfiguredInv
  <2>3. UNCHANGED Written
    BY <1>4 DEF Arrive, Request, Enable, Disable, StartRestore, depVars, files, Written
  <2>4. pc'[p] \in {"stack", "start", "lock", "thaw"}
    BY <1>4 DEF Arrive, Request, Enable, Disable, StartRestore, Goto
  <2>5. (again' = again /\ req'[p].kind # "deploy") \/ again' = (again \/ setup)
    BY <1>4 DEF Arrive, Request, Enable, Disable, StartRestore, Requests
  <2>. QED
    BY <2>1, <2>2, <2>3, <2>4, <2>5 DEF Configured, Opens, Written
<1>. QED
  BY <1>1, <1>2, <1>3, <1>4 DEF Next

\* A deployment that is said to be complete can be used: both copies of the
\* password open the repository that the configuration names, wherever earlier
\* deployments failed or the container restarted, unless somebody deploys again.
THEOREM SetupOpens == Spec => []SetupOpensRepository
<1>1. Init => Sorted /\ SingleInv /\ ConfiguredInv
  BY PlaceSets, Chain DEF Init, CFInit, Sorted, SingleInv, Single, Worker,
     ConfiguredInv, Configured, Working, DeploySteps
<1>2. Spec => []Typed
  BY InitTypes, TypeStep, PTL DEF Spec
<1>3. Spec => []Sorted
  BY <1>1, <1>2, SortedStep, PTL DEF Spec
<1>4. Spec => []SingleInv
  BY <1>1, <1>2, <1>3, SingleStep, PTL DEF Spec
<1>5. Spec => []ConfiguredInv
  BY <1>1, <1>2, <1>3, <1>4, ConfiguredStep, PTL DEF Spec
<1>6. ConfiguredInv => SetupOpensRepository
  BY DEF ConfiguredInv, Configured, SetupOpensRepository
<1>. QED
  BY <1>5, <1>6, PTL

-----------------------------------------------------------------------------
(* What a restore reads through the proxy *)

\* A run past the choice of its distribution has one of its stack.
Found == \A p \in Procs : Chosen(p) => OfStack(req[p].dist, req[p].stack)

LEMMA FoundStep == Typed /\ Found /\ [Next]_vars => Found'
<1>. SUFFICES ASSUME Typed, Found, [Next]_vars PROVE Found'
  OBVIOUS
<1>. pc \in [Procs -> Places] /\ req \in [Procs -> Requests]
  BY DEF Typed, TypeOK, CFTypeOK
<1>1. CASE Restart
  BY <1>1 DEF Restart, Found, Chosen
<1>2. CASE UNCHANGED vars
  BY <1>2 DEF vars, cfVars, aws, Found, Chosen, OfStack
<1>3. ASSUME NEW p \in Procs, Arrive(p) PROVE Found'
  <2>1. ~Chosen(p)'
    BY <1>3 DEF Arrive, Request, Enable, Disable, StartRestore, Goto, Chosen
  <2>. QED
    BY <1>3, <2>1, Alone, StacksStay DEF Found, Chosen
<1>4. ASSUME NEW p \in Procs, Step(p) PROVE Found'
  <2>1. CASE Ends(p)
    BY <1>4, <2>1, Alone, StacksStay DEF Found, Chosen, Ends
  <2>2. CASE Walks(p) /\ Chosen(p)
    <3>1. req'[p].dist = req[p].dist /\ req'[p].stack = req[p].stack
      BY <2>2 DEF Walks, Chosen
    <3>. QED
      BY <1>4, <2>2, <3>1, Alone, StacksStay DEF Found, Chosen
  <2>3. CASE Walks(p) /\ ~Chosen(p) /\ pc'[p] \notin {"stored", "tag"}
    <3>1. ~Chosen(p)'
      BY <2>3, Chain, PlaceSets DEF Walks, Arc, Chosen
    <3>. QED
      BY <1>4, <3>1, Alone, StacksStay DEF Found, Chosen
  <2>4. CASE Walks(p) /\ pc'[p] = "stored"
    <3>1. OfStack(req'[p].dist, req'[p].stack)
      BY <2>4 DEF Walks
    <3>. QED
      BY <1>4, <3>1, Alone, StacksStay DEF Found, Chosen
  <2>5. CASE Walks(p) /\ pc'[p] = "tag"
    <3>1. CreateDistribution(p)
      BY <2>5 DEF Walks
    <3>2. req'[p].dist = Len(dists) + 1 /\ req'[p].stack = req[p].stack
      BY <3>1 DEF CreateDistribution, Requests
    <3>3. Len(dists) + 1 \in DOMAIN dists' /\ dists'[Len(dists) + 1].stack = req[p].stack
      <4>1. Len(dists) \in Nat
        BY DEF Typed, TypeOK, CFTypeOK
      <4>. QED
        BY <3>1, <4>1, NewDistribution
    <3>4. (OfStack(req[p].dist, req[p].stack))'
      BY <3>2, <3>3 DEF OfStack
    <3>. QED
      BY <1>4, <3>4, Alone, StacksStay DEF Found, Chosen
  <2>. QED
    BY <1>4, <2>1, <2>2, <2>3, <2>4, <2>5, StepWalks
<1>. QED
  BY <1>1, <1>2, <1>3, <1>4 DEF Next

\* A key is stored, loaded and saved together with its id.
Paired ==
    /\ cf.keyId = cf.key
    /\ \A p \in Procs : pc[p] = "save" => req[p].cfg.keyId = req[p].cfg.key

\* What the steps do to the stored configuration.
LEMMA CfStays ==
    ASSUME Typed, NEW p \in Procs, Arrive(p) \/ Step(p), ~Save(p)
    PROVE  cf'.key = cf.key /\ cf'.keyId = cf.keyId /\ cf'.dist = cf.dist
<1>1. CASE cf' = cf
  BY <1>1
<1>2. CASE Disable(p)
  BY <1>2 DEF Disable, Typed, TypeOK, CFTypeOK, Configs
<1>. QED
  BY <1>1, <1>2 DEF Arrive, Request, Enable, StartRestore, Step, CFStep, EnableStarts,
     Find, Create, CreateDistribution, TagDistribution, StoredKey, AttachKey,
     AllowOnBucket, AwsFails, LoadExisting, ReloadLoad, ReloadKey, ReloadStart,
     DeployStep, DeployStack, WriteToml, WritePassword, SavePassword, InitRepository,
     Complete, DeployFails, Download, config

LEMMA PairedStep == Typed /\ Sorted /\ Paired /\ [Next]_vars => Paired'
<1>. SUFFICES ASSUME Typed, Sorted, Paired, [Next]_vars PROVE Paired'
  OBVIOUS
<1>. pc \in [Procs -> Places] /\ req \in [Procs -> Requests]
  BY DEF Typed, TypeOK, CFTypeOK
<1>1. CASE Restart
  BY <1>1 DEF Restart, config, Paired
<1>2. CASE UNCHANGED vars
  BY <1>2 DEF vars, cfVars, config, Paired
<1>3. ASSUME NEW p \in Procs, Arrive(p) \/ Step(p) PROVE Paired'
  <2>1. cf'.keyId = cf'.key
    <3>1. CASE ~Save(p)
      BY <1>3, <3>1, CfStays DEF Paired
    <3>2. CASE Save(p) /\ cf' = Merged(req[p])
      BY <3>2 DEF Save, Paired, Merged
    <3>. QED
      BY <3>1, <3>2 DEF Save, Paired
  <2>2. pc'[p] = "save" => req'[p].cfg = cf
    <3>1. CASE Step(p)
      BY <3>1, StepWalks DEF Walks, Ends
    <3>2. CASE Arrive(p)
      BY <3>2 DEF Arrive, Request, Enable, Disable, StartRestore, Goto
    <3>. QED
      BY <1>3, <3>1, <3>2
  <2>. QED
    BY <1>3, <2>1, <2>2, Alone DEF Paired
<1>. QED
  BY <1>1, <1>2, <1>3 DEF Next

\* A proxy that serves a distribution serves a bucket.
Aimed == proxy.dist # 0 => proxy.bucket # None

LEMMA ProxyMoves ==
    ASSUME [Next]_vars
    PROVE  \/ proxy' \in {proxy, NoProxy}
           \/ coldBucket # None /\ \E c : proxy' = ProxyOf(c)
<1>1. ASSUME NEW p \in Procs, ReloadStart(p)
      PROVE  \/ proxy' \in {proxy, NoProxy}
             \/ coldBucket # None /\ \E c : proxy' = ProxyOf(c)
  BY <1>1 DEF ReloadStart, Stopped
<1>2. ASSUME NEW p \in Procs, ReloadLoad(p) \/ ReloadKey(p)
      PROVE  proxy' \in {proxy, NoProxy}
  BY <1>2 DEF ReloadLoad, ReloadKey, Stopped, mgr
<1>3. ASSUME Restart
      PROVE  \/ proxy' \in {proxy, NoProxy}
             \/ coldBucket # None /\ \E c : proxy' = ProxyOf(c)
  BY <1>3 DEF Restart
<1>4. ASSUME NEW p \in Procs, Arrive(p) \/ Step(p), ~ReloadStart(p), ~ReloadLoad(p),
             ~ReloadKey(p)
      PROVE  proxy' = proxy
  BY <1>4 DEF Arrive, Request, Enable, Disable, StartRestore, Step, CFStep, EnableStarts,
     Find, Create, CreateDistribution, TagDistribution, StoredKey, AttachKey,
     AllowOnBucket, AwsFails, LoadExisting, Save, DeployStep, DeployStack, WriteToml,
     WritePassword, SavePassword, InitRepository, Complete, DeployFails, Download, mgr
<1>5. CASE UNCHANGED vars
  BY <1>5 DEF vars, cfVars, mgr
<1>. QED
  BY <1>1, <1>2, <1>3, <1>4, <1>5 DEF Next

LEMMA AimedStep == Aimed /\ [Next]_vars => Aimed'
BY ProxyMoves DEF Aimed, ProxyOf, NoProxy

\* While no two runs have overlapped, the bucket that is stored, the one the
\* proxy serves and the one a run lets the distribution read are the stack's.
OneStack ==
    /\ coldBucket \in {None, stackName} /\ proxy.bucket \in {None, stackName}
    /\ \A p \in Procs : pc[p] \in {"start"} \cup Provisioning => req[p].bucket = stackName

OneStackInv == ~overlapped => OneStack

LEMMA ColdMoves ==
    ASSUME [Next]_vars
    PROVE  \/ coldBucket' = coldBucket
           \/ \E p \in Procs : DeployStack(p) /\ Step(p) /\ coldBucket' = req[p].stack
<1>1. CASE Restart \/ UNCHANGED vars
  BY <1>1 DEF Restart, vars, cfVars, config
<1>2. ASSUME NEW p \in Procs, Arrive(p) \/ Step(p)
      PROVE  \/ coldBucket' = coldBucket
             \/ DeployStack(p) /\ Step(p) /\ coldBucket' = req[p].stack
  <2>1. CASE DeployStack(p) /\ Step(p)
    BY <2>1 DEF DeployStack, Deploy
  <2>. QED
    BY <1>2, <2>1 DEF Arrive, Request, Enable, Disable, StartRestore, Step, CFStep,
       EnableStarts, Find, Create, CreateDistribution, TagDistribution, StoredKey,
       AttachKey, AllowOnBucket, AwsFails, LoadExisting, Save, ReloadLoad, ReloadKey,
       ReloadStart, DeployStep, WriteToml, WritePassword, SavePassword, InitRepository,
       Complete, DeployFails, Download, config
<1>. QED
  BY <1>1, <1>2 DEF Next

LEMMA OneStackStep ==
    Typed /\ Sorted /\ SingleInv /\ OneStackInv /\ [Next]_vars => OneStackInv'
<1>. SUFFICES ASSUME Typed, Sorted, SingleInv, OneStackInv, [Next]_vars, ~overlapped'
              PROVE  OneStack'
  BY DEF OneStackInv
<1>. pc \in [Procs -> Places] /\ req \in [Procs -> Requests]
  BY DEF Typed, TypeOK, CFTypeOK
<1>0. \A c : ProxyOf(c).bucket = coldBucket
  BY DEF ProxyOf
<1>1. CASE Restart
  <2>1. OneStack /\ UNCHANGED <<stackName, coldBucket>>
    BY <1>1 DEF Restart, config, OneStackInv
  <2>2. proxy'.bucket \in {None, stackName}
    BY <1>0, <2>1, ProxyMoves DEF OneStack, NoProxy
  <2>3. \A p \in Procs : pc'[p] = "idle"
    BY <1>1 DEF Restart
  <2>. QED
    BY <2>1, <2>2, <2>3, PlaceSets DEF OneStack
<1>2. CASE UNCHANGED vars
  BY <1>2 DEF vars, cfVars, config, mgr, history, OneStackInv, OneStack
<1>3. ASSUME NEW p \in Procs, Step(p) PROVE OneStack'
  <2>1. stackName' = stackName /\ Single /\ OneStack
    BY <1>3, SameStackName DEF SingleInv, OneStackInv
  <2>2. coldBucket' \in {None, stackName'}
    <3>1. CASE coldBucket' = coldBucket
      BY <2>1, <3>1 DEF OneStack
    <3>2. ASSUME NEW q \in Procs, DeployStack(q), coldBucket' = req[q].stack
          PROVE coldBucket' = stackName
      BY <2>1, <3>2 DEF DeployStack, Sorted, Working, Single
    <3>. QED
      BY <2>1, <3>1, <3>2, ColdMoves
  <2>3. proxy'.bucket \in {None, stackName'}
    BY <1>0, <2>1, ProxyMoves DEF OneStack, NoProxy
  <2>4. pc'[p] \in {"start"} \cup Provisioning => req'[p].bucket = stackName
    <3>1. CASE Ends(p)
      BY <3>1, PlaceSets DEF Ends
    <3>2. CASE DeployStack(p)
      <4>1. req'[p].bucket = req[p].stack
        BY <3>2 DEF DeployStack, Deploy, Requests
      <4>. QED
        BY <2>1, <3>2, <4>1 DEF DeployStack, Sorted, Working, Single
    <3>3. CASE Walks(p) /\ pc[p] = "stack"
      <4>1. DeployStack(p) \/ DeployFails(p)
        BY <1>3, <3>3, PlaceSets, Chain
        DEF Step, CFStep, EnableStarts, Find, Create, CreateDistribution,
            TagDistribution, StoredKey, AttachKey, AllowOnBucket, AwsFails,
            LoadExisting, Save, ReloadLoad, ReloadKey, ReloadStart, DeployStep,
            WriteToml, WritePassword, SavePassword, InitRepository, Complete, Download
      <4>2. CASE DeployFails(p)
        BY <4>2, PlaceSets DEF DeployFails, End, Goto
      <4>. QED
        BY <3>2, <4>1, <4>2
    <3>4. CASE Walks(p) /\ pc[p] # "stack"
      <4>1. pc'[p] \in {"start"} \cup Provisioning => pc[p] \in {"start"} \cup Provisioning
        BY <3>4, PlaceSets, Chain DEF Walks, Arc
      <4>. QED
        BY <2>1, <3>4, <4>1 DEF Walks, OneStack
    <3>. QED
      BY <1>3, <3>1, <3>3, <3>4, StepWalks
  <2>. QED
    BY <1>3, <2>1, <2>2, <2>3, <2>4, Alone DEF OneStack
<1>4. ASSUME NEW p \in Procs, Arrive(p) PROVE OneStack'
  <2>1. /\ OneStack /\ pc[p] = "idle"
        /\ stackName' = stackName \/ (stackName = None /\ \A q \in Procs : ~Worker(q))
    BY <1>4, ArriveWork DEF OneStackInv
  <2>2. UNCHANGED <<coldBucket, proxy>>
    BY <1>4 DEF Arrive, Request, Enable, Disable, StartRestore, config, mgr
  <2>3. \A q \in Procs \ {p} : pc'[q] \in {"start"} \cup Provisioning =>
           req'[q].bucket = stackName'
    BY <1>4, <2>1, Alone DEF OneStack, Sorted, Working
  <2>4. pc'[p] \in {"start"} \cup Provisioning => req'[p].bucket = stackName'
    <3>1. CASE Enable(p)
      <4>1. /\ req'[p].bucket = coldBucket /\ coldBucket # None /\ stackName' = stackName
        BY <3>1 DEF Enable, config, Requests
      <4>. QED
        BY <2>1, <4>1 DEF OneStack
    <3>2. CASE ~Enable(p)
      BY <1>4, <3>2, PlaceSets DEF Arrive, Request, Disable, StartRestore, Goto
    <3>. QED
      BY <3>1, <3>2
  <2>. QED
    BY <2>1, <2>2, <2>3, <2>4 DEF OneStack
<1>. QED
  BY <1>1, <1>2, <1>3, <1>4 DEF Next

\* While no two runs have overlapped, a bucket lets in a distribution of its stack.
Granted == \A s \in Stacks : policy[s] # 0 => OfStack(policy[s], s)

GrantedInv == ~overlapped => Granted

LEMMA GrantedStep ==
    Typed /\ Sorted /\ Found /\ SingleInv /\ OneStackInv /\ GrantedInv /\ [Next]_vars
        => GrantedInv'
<1>. SUFFICES ASSUME Typed, Sorted, Found, SingleInv, OneStackInv, GrantedInv,
                     [Next]_vars, ~overlapped'
              PROVE  Granted'
  BY DEF GrantedInv
<1>1. CASE Restart
  BY <1>1 DEF Restart, aws, GrantedInv, Granted, OfStack
<1>2. CASE UNCHANGED vars
  BY <1>2 DEF vars, cfVars, aws, history, GrantedInv, Granted, OfStack
<1>3. ASSUME NEW p \in Procs, Step(p), AllowOnBucket(p) PROVE Granted'
  <2>1. Single /\ OneStack /\ Granted
    BY <1>3, SameStackName DEF SingleInv, OneStackInv, GrantedInv
  <2>2. /\ pc[p] = "policy" /\ dists' = dists
        /\ policy' = [policy EXCEPT ![req[p].bucket] = IF @ = 0 THEN req[p].dist ELSE @]
    BY <1>3 DEF AllowOnBucket
  <2>3. OfStack(req[p].dist, stackName) /\ req[p].bucket = stackName
    BY <2>1, <2>2, PlaceSets DEF Found, Chosen, Sorted, Working, Single, OneStack
  <2>4. policy \in [Stacks -> Nat]
    BY DEF Typed, TypeOK, CFTypeOK
  <2>5. \A s \in Stacks : \/ policy'[s] = policy[s]
                          \/ s = stackName /\ policy'[s] = req[p].dist
    <3>. DEFINE b == req[p].bucket
    <3>1. \A s \in Stacks \ {b} : policy'[s] = policy[s]
      BY <2>2, <2>4
    <3>2. b \in Stacks => policy'[b] = IF policy[b] = 0 THEN req[p].dist ELSE policy[b]
      BY <2>2, <2>4
    <3>. QED
      BY <2>3, <3>1, <3>2
  <2>. QED
    BY <2>1, <2>2, <2>3, <2>5 DEF Granted, OfStack
<1>4. ASSUME NEW p \in Procs, Arrive(p) \/ Step(p), ~AllowOnBucket(p) PROVE Granted'
  <2>1. Granted
    BY <1>4, ArriveWork, SameStackName DEF GrantedInv
  <2>2. policy' = policy /\ \A d, s : OfStack(d, s) => OfStack(d, s)'
    BY <1>4, PolicyStays, StacksStay
  <2>. QED
    BY <2>1, <2>2 DEF Granted
<1>5. ASSUME NEW p \in Procs, Arrive(p), AllowOnBucket(p) PROVE FALSE
  BY <1>5 DEF Arrive, Request, Enable, Disable, StartRestore, AllowOnBucket
<1>. QED
  BY <1>1, <1>2, <1>3, <1>4, <1>5 DEF Next

\* The distribution d of the stack trusts the key k, and the stack's bucket
\* lets it in.
Trusted(d, k) == OfStack(d, stackName) /\ dists[d].trusted = k
Served(d, k)  == Trusted(d, k) /\ policy[stackName] = d

\* The stored key is the one the distribution trusts.  A run brings a new key
\* only while none is stored, and has it trusted, and its distribution let in,
\* before it saves; a run without one saves what is stored.
KeyOf(p) == Chosen(p) /\ req[p].key # 0 =>
    /\ cf.key = 0
    /\ pc[p] # "attach" => Trusted(req[p].dist, req[p].key)
    /\ pc[p] \in {"merge", "save"} => Served(req[p].dist, req[p].key)

Keyed ==
    /\ cf.key # 0 => Served(cf.dist, cf.key)
    /\ \A p \in Procs : KeyOf(p)
    /\ \A p \in Procs : pc[p] = "save" => req[p].cfg.key = cf.key

KeyedInv == ~overlapped => Keyed

LEMMA TrustedStays ==
    ASSUME Typed, NEW p \in Procs, Arrive(p) \/ Step(p), stackName' = stackName,
           ~AttachKey(p)
    PROVE  \A d, k : /\ Trusted(d, k) => Trusted(d, k)'
                     /\ Served(d, k) => Served(d, k)'
<1>. SUFFICES ASSUME NEW d, NEW k, Trusted(d, k)
              PROVE  Trusted(d, k)' /\ (Served(d, k) => Served(d, k)')
  BY DEF Served
<1>1. Trusted(d, k)'
  BY StacksStay, TrustStays DEF Trusted, OfStack
<1>2. d # 0 /\ stackName \in Stacks
  BY DistRecord DEF Trusted, OfStack, Dists
<1>. QED
  BY <1>1, <1>2, PolicyGrows DEF Served

\* Nobody but the one worker is past the choice of a distribution.
LEMMA OneChosen ==
    ASSUME Sorted, Single, NEW p \in Procs, Worker(p)
    PROVE  \A q \in Procs \ {p} : ~Chosen(q)
BY PlaceSets DEF Sorted, Single, Working, Chosen

\* A stack has one distribution.
LEMMA TheDistribution ==
    ASSUME Ticketed
    PROVE  \A d, e, s : OfStack(d, s) /\ OfStack(e, s) => d = e
BY DEF Ticketed, OneDistributionPerStack, OfStack

\* The steps that decide what is trusted and stored, taken by the one worker.
Decides(p) == CreateDistribution(p) \/ AttachKey(p) \/ AllowOnBucket(p) \/ Save(p)

LEMMA DecidesStep ==
    ASSUME Typed, Sorted, Ticketed, Found, Single, OneStack, Granted, Keyed,
           NEW p \in Procs, Step(p), Decides(p)
    PROVE  Keyed'
<1>. pc \in [Procs -> Places] /\ req \in [Procs -> Requests]
  BY DEF Typed, TypeOK, CFTypeOK
<1>1. pc[p] \in {"dist", "attach", "policy", "save"}
  BY DEF Decides, CreateDistribution, AttachKey, AllowOnBucket, Save
<1>2. /\ Worker(p) /\ req[p].stack = stackName /\ stackName' = stackName
      /\ pc[p] # "dist" => OfStack(req[p].dist, stackName)
      /\ pc[p] # "save" => req[p].key # 0
  BY <1>1, PlaceSets, SameStackName DEF Sorted, Working, Single, Found, Chosen
<1>3. \A q \in Procs \ {p} : ~Chosen(q)'
  BY <1>2, OneChosen, Alone DEF Chosen
<1>4. \A q \in Procs \ {p} : KeyOf(q)' /\ pc'[q] # "save"
  BY <1>3 DEF KeyOf, Chosen
<1>5. CASE CreateDistribution(p)
  <2>1. /\ pc[p] = "dist" /\ pc'[p] = "tag" /\ cf' = cf
        /\ req'[p].dist = Len(dists) + 1 /\ req'[p].key = req[p].key
    BY <1>5 DEF CreateDistribution, Goto, Requests, config
  <2>2. cf.key = 0
    BY <1>2, <2>1 DEF Ticketed, Creating, Keyed, Served, Trusted, OfStack
  <2>3. Trusted(req[p].dist, req[p].key)'
    <3>1. Len(dists) \in Nat
      BY DEF Typed, TypeOK, CFTypeOK
    <3>. QED
      BY <1>2, <1>5, <2>1, <3>1, NewDistribution DEF Trusted, OfStack
  <2>4. KeyOf(p)'
    BY <2>1, <2>2, <2>3 DEF KeyOf
  <2>. QED
    BY <1>4, <2>1, <2>2, <2>4 DEF Keyed
<1>6. CASE AttachKey(p)
  <2>1. /\ pc[p] = "attach" /\ pc'[p] = "policy" /\ cf' = cf /\ req' = req
        /\ dists' = [dists EXCEPT ![req[p].dist].trusted = req[p].key]
    BY <1>6 DEF AttachKey, AfterAttach, Goto, config
  <2>2. cf.key = 0
    BY <1>2, <2>1 DEF Keyed, KeyOf, Chosen
  <2>3. Trusted(req[p].dist, req[p].key)'
    BY <1>2, <2>1, DistRecord DEF Trusted, OfStack, Dists
  <2>4. KeyOf(p)'
    BY <2>1, <2>2, <2>3 DEF KeyOf
  <2>. QED
    BY <1>4, <2>1, <2>2, <2>4 DEF Keyed
<1>7. CASE AllowOnBucket(p)
  <2>1. /\ pc[p] = "policy" /\ pc'[p] = "merge" /\ cf' = cf /\ req' = req /\ dists' = dists
        /\ policy' = [policy EXCEPT ![req[p].bucket] = IF @ = 0 THEN req[p].dist ELSE @]
    BY <1>7 DEF AllowOnBucket, Goto, config
  <2>2. cf.key = 0 /\ Trusted(req[p].dist, req[p].key)
    BY <1>2, <2>1 DEF Keyed, KeyOf, Chosen
  <2>3. req[p].bucket = stackName /\ stackName \in Stacks
    BY <1>2, <2>1, PlaceSets DEF OneStack, Sorted
  <2>4. policy'[stackName] = req[p].dist
    <3>1. policy \in [Stacks -> Nat]
      BY DEF Typed, TypeOK, CFTypeOK
    <3>2. policy[stackName] # 0 => policy[stackName] = req[p].dist
      BY <1>2, <2>1, <2>3, TheDistribution DEF Granted
    <3>. QED
      BY <2>1, <2>3, <3>1, <3>2
  <2>5. KeyOf(p)'
    BY <1>2, <2>1, <2>2, <2>4 DEF KeyOf, Served, Trusted, OfStack
  <2>. QED
    BY <1>4, <2>1, <2>2, <2>5 DEF Keyed
<1>8. CASE Save(p)
  <2>1. pc[p] = "save" /\ pc'[p] \in {"lock", "idle", "toml"} /\ UNCHANGED aws
    BY <1>8, LeaveType DEF Save, Goto, Typed
  <2>2. KeyOf(p)' /\ pc'[p] # "save"
    BY <2>1 DEF KeyOf, Chosen
  <2>3. \A d, k : Served(d, k) => Served(d, k)'
    BY <1>2, <2>1 DEF Served, Trusted, OfStack, aws
  <2>4. (cf.key # 0 => Served(cf.dist, cf.key))'
    <3>1. CASE cf' = cf
      BY <2>3, <3>1 DEF Keyed
    <3>2. CASE cf' = Merged(req[p]) /\ req[p].key # 0
      <4>1. cf'.key = req[p].key /\ cf'.dist = req[p].dist
        BY <3>2 DEF Merged
      <4>2. Served(req[p].dist, req[p].key)
        BY <2>1, <3>2 DEF Keyed, KeyOf, Chosen
      <4>. QED
        BY <2>3, <4>1, <4>2
    <3>3. CASE cf' = Merged(req[p]) /\ req[p].key = 0
      <4>1. cf'.key = cf.key /\ cf'.dist = req[p].dist
        BY <2>1, <3>3 DEF Merged, Keyed
      <4>2. cf.key # 0 => cf.dist = req[p].dist
        BY <1>2, <2>1, TheDistribution DEF Keyed, Served, Trusted
      <4>. QED
        BY <2>3, <4>1, <4>2 DEF Keyed
    <3>. QED
      BY <1>8, <3>1, <3>2, <3>3 DEF Save
  <2>. QED
    BY <1>4, <2>2, <2>4 DEF Keyed
<1>. QED
  BY <1>5, <1>6, <1>7, <1>8 DEF Decides

\* A run comes to the policy, and to the end, by the other steps only with a
\* key that is already trusted, or with none.
LEMMA ComesTo ==
    ASSUME Typed, Sorted, NEW p \in Procs, Step(p), ~Decides(p), Walks(p)
    PROVE  /\ pc'[p] # "tag"
           /\ pc'[p] = "policy" => pc[p] = "tag"
           /\ pc'[p] = "merge" => pc[p] = "stored"
           /\ pc'[p] = "save" => pc[p] = "merge"
<1>. pc \in [Procs -> Places]
  BY DEF Typed, TypeOK, CFTypeOK
<1>1. ASSUME Leave(p) PROVE pc'[p] \in {"idle", "toml"}
  BY <1>1, LeaveType DEF Typed
<1>2. ASSUME pc[p] \in {"attach", "policy"} PROVE pc'[p] \in {"idle", "toml"}
  BY <1>1, <1>2, PlaceSets, Chain
  DEF Step, CFStep, Decides, EnableStarts, Find, Create, TagDistribution, StoredKey,
      AwsFails, LoadExisting, ReloadLoad, ReloadKey, ReloadStart, DeployStep,
      DeployStack, WriteToml, WritePassword, SavePassword, InitRepository, Complete,
      DeployFails, Download
<1>3. pc'[p] # "tag"
  BY DEF Walks, Decides
<1>. QED
  BY <1>2, <1>3, Chain, PlaceSets DEF Walks, Arc

LEMMA CarriesStep ==
    ASSUME Typed, Sorted, Single, Keyed, NEW p \in Procs, Step(p), ~Decides(p)
    PROVE  Keyed'
<1>. pc \in [Procs -> Places] /\ req \in [Procs -> Requests]
  BY DEF Typed, TypeOK, CFTypeOK
<1>1. stackName' = stackName /\ cf'.key = cf.key /\ cf'.dist = cf.dist
  BY SameStackName, CfStays DEF Decides
<1>2. \A d, k : /\ Trusted(d, k) => Trusted(d, k)'
                /\ Served(d, k) => Served(d, k)'
  BY <1>1, TrustedStays DEF Decides
<1>3. (cf.key # 0 => Served(cf.dist, cf.key))'
  BY <1>1, <1>2 DEF Keyed
<1>4. \A q \in Procs \ {p} : KeyOf(q)' /\ (pc'[q] = "save" => req'[q].cfg.key = cf'.key)
  BY <1>1, <1>2, Alone DEF Keyed, KeyOf, Chosen
<1>5. KeyOf(p)' /\ (pc'[p] = "save" => req'[p].cfg.key = cf'.key)
  <2>1. CASE Ends(p)
    BY <2>1 DEF Ends, KeyOf, Chosen
  <2>2. CASE Walks(p)
    <3>1. /\ pc'[p] # "tag"
          /\ pc'[p] = "policy" => pc[p] = "tag"
          /\ pc'[p] = "merge" => pc[p] = "stored"
          /\ pc'[p] = "save" => pc[p] = "merge"
      BY <2>2, ComesTo
    <3>2. CASE pc'[p] = "attach"
      BY <1>1, <2>2, <3>2 DEF Walks, KeyOf
    <3>3. CASE pc'[p] \in {"stored", "merge"}
      <4>1. pc[p] \in {"find", "stored"} /\ req'[p].key = req[p].key
        BY <2>2, <3>1, <3>3, Chain, PlaceSets DEF Walks, Arc
      <4>2. req'[p].key = 0
        BY <4>1 DEF Sorted
      <4>. QED
        BY <3>3, <4>2 DEF KeyOf
    <3>4. CASE pc'[p] \in {"policy", "save"}
      <4>1. /\ pc[p] \in {"tag", "merge"} /\ req'[p].key = req[p].key
            /\ req'[p].dist = req[p].dist
            /\ pc'[p] = "save" => req'[p].cfg = cf /\ pc[p] = "merge"
        BY <2>2, <3>1, <3>4 DEF Walks
      <4>2. KeyOf(p)
        BY DEF Keyed
      <4>3. ASSUME req'[p].key # 0
            PROVE  /\ cf'.key = 0 /\ Trusted(req[p].dist, req[p].key)'
                   /\ pc'[p] = "save" => Served(req[p].dist, req[p].key)'
        <5>1. /\ cf.key = 0 /\ Trusted(req[p].dist, req[p].key)
              /\ pc'[p] = "save" => Served(req[p].dist, req[p].key)
          BY <4>1, <4>2, <4>3 DEF KeyOf, Chosen
        <5>. QED
          BY <1>1, <1>2, <4>1, <5>1
      <4>. QED
        BY <1>1, <3>4, <4>1, <4>3 DEF KeyOf
    <3>. QED
      BY <3>1, <3>2, <3>3, <3>4 DEF KeyOf, Chosen
  <2>. QED
    BY <2>1, <2>2, StepWalks
<1>. QED
  BY <1>3, <1>4, <1>5 DEF Keyed

LEMMA KeyedStep ==
    Typed /\ Sorted /\ Ticketed /\ Found /\ SingleInv /\ OneStackInv /\ GrantedInv
        /\ KeyedInv /\ [Next]_vars => KeyedInv'
<1>. SUFFICES ASSUME Typed, Sorted, Ticketed, Found, SingleInv, OneStackInv, GrantedInv,
                     KeyedInv, [Next]_vars, ~overlapped'
              PROVE  Keyed'
  BY DEF KeyedInv
<1>1. CASE Restart
  BY <1>1 DEF Restart, config, aws, KeyedInv, Keyed, KeyOf, Chosen, Served, Trusted,
     OfStack
<1>2. CASE UNCHANGED vars
  BY <1>2 DEF vars, cfVars, config, aws, history, KeyedInv, Keyed, KeyOf, Chosen, Served,
     Trusted, OfStack
<1>3. ASSUME NEW p \in Procs, Step(p) PROVE Keyed'
  <2>1. Single /\ OneStack /\ Granted /\ Keyed
    BY <1>3, SameStackName DEF SingleInv, OneStackInv, GrantedInv, KeyedInv
  <2>. QED
    BY <1>3, <2>1, DecidesStep, CarriesStep
<1>4. ASSUME NEW p \in Procs, Arrive(p) PROVE Keyed'
  <2>1. /\ Keyed
        /\ stackName' = stackName \/ (stackName = None /\ \A q \in Procs : ~Worker(q))
    BY <1>4, ArriveWork DEF KeyedInv
  <2>2. pc'[p] \in {"stack", "start", "lock", "thaw"} /\ ~AttachKey(p) /\ ~Save(p)
    BY <1>4 DEF Arrive, Request, Enable, Disable, StartRestore, Goto, AttachKey, Save,
       Typed, TypeOK, CFTypeOK
  <2>3. KeyOf(p)' /\ pc'[p] # "save"
    BY <2>2 DEF KeyOf, Chosen
  <2>4. cf'.key = cf.key /\ cf'.dist = cf.dist
    BY <1>4, <2>2, CfStays
  <2>5. CASE stackName' = stackName
    <3>1. \A d, k : /\ Trusted(d, k) => Trusted(d, k)'
                    /\ Served(d, k) => Served(d, k)'
      BY <1>4, <2>2, <2>5, TrustedStays
    <3>2. \A q \in Procs \ {p} : KeyOf(q)' /\ (pc'[q] = "save" => req'[q].cfg.key = cf'.key)
      BY <1>4, <2>1, <2>4, <3>1, Alone DEF Keyed, KeyOf, Chosen
    <3>. QED
      BY <2>1, <2>3, <2>4, <3>1, <3>2 DEF Keyed
  <2>6. CASE stackName = None /\ \A q \in Procs : ~Worker(q)
    <3>1. cf.key = 0
      BY <2>1, <2>6, DistRecord, NoneAssumption DEF Keyed, Served, Trusted, OfStack,
         Dists
    <3>2. \A q \in Procs \ {p} : ~Chosen(q)'
      BY <1>4, <2>6, Alone, PlaceSets DEF Chosen, Sorted, Working
    <3>. QED
      BY <2>3, <2>4, <3>1, <3>2 DEF Keyed, KeyOf, Chosen
  <2>. QED
    BY <2>1, <2>5, <2>6
<1>. QED
  BY <1>1, <1>2, <1>3, <1>4 DEF Next

\* With the path enabled, no reload outstanding and no two runs overlapped, a
\* restore reads its packs and lists its bucket through the proxy, whichever
\* calls failed and wherever the container restarted before.
THEOREM RestoresRead == Spec => []RestoreReadsSucceed
<1>1. Init => /\ Sorted /\ SingleInv /\ Ticketed /\ Whole /\ Guarded /\ Reflected
              /\ Found /\ Paired /\ Aimed /\ OneStackInv /\ GrantedInv /\ KeyedInv
  <2>. SUFFICES ASSUME Init
                PROVE  /\ Sorted /\ SingleInv /\ Ticketed /\ Whole /\ Guarded /\ Reflected
                       /\ Found /\ Paired /\ Aimed /\ OneStackInv /\ GrantedInv /\ KeyedInv
    OBVIOUS
  <2>1. \A p \in Procs : pc[p] = "idle" /\ req[p] = NoRequest
    BY DEF Init, CFInit
  <2>2. Sorted /\ SingleInv /\ Found
    BY <2>1, PlaceSets, Chain DEF Sorted, SingleInv, Single, Worker, Working,
       DeploySteps, Found, Chosen
  <2>3. Ticketed
    BY DEF Init, CFInit, Ticketed, Creating, OneDistributionPerStack
  <2>4. Whole /\ Guarded /\ Reflected
    BY PlaceSets, NoneAssumption
    DEF Init, CFInit, Whole, Chosen, Guarded, Reflected, NoConfig
  <2>5. Paired /\ Aimed
    BY <2>1 DEF Init, CFInit, Paired, Aimed, NoRequest, NoConfig, NoProxy
  <2>6. OneStackInv /\ GrantedInv
    BY <2>1, PlaceSets DEF Init, CFInit, OneStackInv, OneStack, GrantedInv, Granted,
       NoProxy
  <2>7. KeyedInv
    BY <2>1 DEF Init, CFInit, KeyedInv, Keyed, KeyOf, Chosen, NoConfig
  <2>. QED
    BY <2>2, <2>3, <2>4, <2>5, <2>6, <2>7
<1>2. Spec => []Typed
  BY InitTypes, TypeStep, PTL DEF Spec
<1>3. Spec => [](Sorted /\ Ticketed /\ Whole /\ Guarded /\ Found /\ Aimed)
  BY <1>1, <1>2, SortedStep, TicketStep, WholeStep, GuardedStep, FoundStep, AimedStep,
     PTL
  DEF Spec
<1>4. Spec => [](Reflected /\ Paired /\ SingleInv)
  BY <1>1, <1>2, <1>3, ReflectedStep, PairedStep, SingleStep, PTL DEF Spec
<1>5. Spec => [](OneStackInv /\ GrantedInv /\ KeyedInv)
  BY <1>1, <1>2, <1>3, <1>4, OneStackStep, GrantedStep, KeyedStep, PTL DEF Spec
<1>6. Whole /\ Reflected /\ Paired /\ Aimed /\ OneStackInv /\ KeyedInv
         => RestoreReadsSucceed
  <2>. SUFFICES ASSUME Whole, Reflected, Paired, Aimed, OneStackInv, KeyedInv,
                       cf.enabled, ~overlapped, \A p \in Procs : pc[p] \notin Reloading
                PROVE  /\ Answer(proxy, coldBucket, TRUE, "GET") = "served by CloudFront"
                       /\ Answer(proxy, coldBucket, FALSE, "GET") = "passed to S3"
    BY DEF RestoreReadsSucceed
  <2>1. /\ Runs(cf) /\ cf.dist # 0 /\ cf.key # 0 /\ coldBucket # None
    BY DEF Reflected, Whole
  <2>2. proxy.bucket = coldBucket
    BY <2>1 DEF Runs, Aimed, OneStackInv, OneStack
  <2>3. Served(proxy.dist, proxy.key) /\ proxy.keyId = proxy.key
    BY <2>1 DEF Runs, Paired, KeyedInv, Keyed
  <2>4. SignedFetch(proxy) = "served by CloudFront"
    BY <2>3 DEF Served, Trusted, OfStack, SignedFetch
  <2>. QED
    BY <2>1, <2>2, <2>4 DEF Answer, Passthrough
<1>. QED
  BY <1>3, <1>4, <1>5, <1>6, PTL

-----------------------------------------------------------------------------
(* How a request ends *)

\* A row that says running has a request that will set it, and no restore
\* stands for one.
Attended == \A p \in Procs :
    /\ row[p] = "running" => pc[p] # "idle" /\ req[p].kind = "deploy"
    /\ pc[p] = "thaw" => req[p].kind = "restore"

\* What CloudFront's part of a request ends is no deployment.
LEMMA EndsOthers ==
    ASSUME Typed, NEW p \in Procs, CFStep(p), pc'[p] = "idle"
    PROVE  req[p].kind # "deploy"
<1>. pc \in [Procs -> Places] /\ req \in [Procs -> Requests]
  BY DEF Typed, TypeOK, CFTypeOK
<1>1. ASSUME Leave(p) PROVE req[p].kind # "deploy"
  BY <1>1 DEF Leave, Goto
<1>2. ~(EnableStarts(p) \/ Find(p) \/ Create(p) \/ CreateDistribution(p) \/ TagDistribution(p))
  BY Chain DEF EnableStarts, Find, Create, CreateDistribution, TagDistribution, Goto
<1>3. ~(StoredKey(p) \/ AttachKey(p) \/ AllowOnBucket(p) \/ LoadExisting(p))
  BY DEF StoredKey, AttachKey, AfterAttach, AllowOnBucket, LoadExisting, Goto
<1>4. ASSUME AwsFails(p) \/ Save(p) PROVE req[p].kind # "deploy"
  BY <1>1, <1>4 DEF AwsFails, Save, Goto
<1>5. ASSUME ReloadLoad(p) \/ ReloadKey(p) \/ ReloadStart(p) PROVE req[p].kind # "deploy"
  BY <1>1, <1>5 DEF ReloadLoad, ReloadKey, ReloadStart, Goto
<1>. QED
  BY <1>2, <1>3, <1>4, <1>5 DEF CFStep

LEMMA AttendedStep == Typed /\ Attended /\ [Next]_vars => Attended'
<1>. SUFFICES ASSUME Typed, Attended, [Next]_vars PROVE Attended'
  OBVIOUS
<1>. pc \in [Procs -> Places] /\ req \in [Procs -> Requests]
  BY DEF Typed, TypeOK, CFTypeOK
<1>0. DOMAIN row = Procs
  BY DEF Typed, TypeOK
<1>1. CASE Restart
  BY <1>0, <1>1 DEF Restart, Reconciled, Attended
<1>2. CASE UNCHANGED vars
  BY <1>2 DEF vars, cfVars, depVars, Attended
<1>3. ASSUME NEW p \in Procs, Step(p) PROVE Attended'
  <2>1. \A q \in Procs \ {p} : pc'[q] = pc[q] /\ req'[q] = req[q]
    BY <1>3, Alone
  <2>2. CASE CFStep(p) /\ UNCHANGED depVars
    <3>1. pc'[p] # "thaw" /\ (pc'[p] = "idle" => row[p] # "running")
      BY <1>3, <2>2, StepWalks, EndsOthers, Chain DEF Attended, Walks, Arc, Ends
    <3>2. req'[p].kind = req[p].kind \/ pc'[p] = "idle"
      BY <1>3, StepWalks DEF Walks, Ends
    <3>. QED
      BY <2>1, <2>2, <3>1, <3>2 DEF Attended, depVars
  <2>3. CASE DeployStep(p)
    <3>1. CASE Complete(p) \/ DeployFails(p)
      BY <1>0, <2>1, <3>1 DEF Complete, DeployFails, End, Goto, Attended
    <3>2. CASE DeployStack(p) \/ WriteToml(p) \/ WritePassword(p) \/ SavePassword(p) \/ InitRepository(p)
      <4>1. row' = row /\ pc'[p] \notin {"idle", "thaw"}
        BY <3>2 DEF DeployStack, WriteToml, WritePassword, SavePassword, InitRepository,
                    Goto, depVars
      <4>2. req'[p].kind = req[p].kind
        BY <1>3, <4>1, StepWalks DEF Walks, Ends
      <4>. QED
        BY <2>1, <4>1, <4>2 DEF Attended
    <3>. QED
      BY <2>3, <3>1, <3>2 DEF DeployStep
  <2>4. CASE Download(p)
    BY <2>1, <2>4 DEF Download, End, Goto, depVars, Attended
  <2>. QED
    BY <1>3, <2>2, <2>3, <2>4 DEF Step
<1>4. ASSUME NEW p \in Procs, Arrive(p) PROVE Attended'
  <2>1. \A q \in Procs \ {p} : pc'[q] = pc[q] /\ req'[q] = req[q]
    BY <1>4, Alone
  <2>2. ASSUME NEW s \in Stacks, Request(p, s) PROVE Attended'
    BY <1>0, <2>1, <2>2 DEF Request, Goto, Requests, Attended
  <2>3. ASSUME (Enable(p) \/ Disable(p)) /\ UNCHANGED depVars PROVE Attended'
    BY <2>1, <2>3 DEF Enable, Disable, Goto, Requests, depVars, Attended
  <2>4. ASSUME StartRestore(p) PROVE Attended'
    BY <2>1, <2>4 DEF StartRestore, Goto, Requests, depVars, Attended
  <2>. QED
    BY <1>4, <2>2, <2>3, <2>4 DEF Arrive
<1>. QED
  BY <1>1, <1>2, <1>3, <1>4 DEF Next

\* No row of a deployment says running once its request is over, wherever the
\* deployment failed or the container restarted.
THEOREM NoRowIsLeft == Spec => [](\A p \in Procs : pc[p] = "idle" => row[p] # "running")
<1>1. ASSUME Init PROVE Attended
  <2>1. \A p \in Procs : row[p] = "none" /\ pc[p] = "idle"
    BY <1>1, Zenon DEF Init, CFInit
  <2>. QED
    BY <2>1, Zenon DEF Attended
<1>2. Spec => []Typed
  BY InitTypes, TypeStep, PTL DEF Spec
<1>3. Spec => []Attended
  BY <1>1, <1>2, AttendedStep, PTL DEF Spec
<1>4. Attended => \A p \in Procs : pc[p] = "idle" => row[p] # "running"
  BY DEF Attended
<1>. QED
  BY <1>3, <1>4, PTL

\* How many steps a request may still take from where it is.
Height == [l \in Places |->
    CASE l \in {"stack", "start"}   -> 19
      [] l = "find"                 -> 18
      [] l = "oac"                  -> 17
      [] l = "key"                  -> 16
      [] l = "keygroup"             -> 15
      [] l = "cache"                -> 14
      [] l \in {"dist", "stored"}   -> 13
      [] l \in {"tag", "attach"}    -> 12
      [] l = "policy"               -> 11
      [] l = "merge"                -> 10
      [] l = "save"                 -> 9
      [] l = "lock"                 -> 8
      [] l = "open"                 -> 7
      [] l = "serve"                -> 6
      [] l = "toml"                 -> 5
      [] l = "password"             -> 4
      [] l = "dbpass"               -> 3
      [] l = "init"                 -> 2
      [] l \in {"complete", "thaw"} -> 1
      [] l = "idle"                 -> 0]

LEMMA ArcsDescend ==
    /\ Height \in [Places -> 0..19]
    /\ \A l \in Places : l # "idle" => Height["idle"] < Height[l]
    /\ \A l \in Provisioning \cup Reloading : Height["toml"] < Height[l]
    /\ \A l, m \in Places : Arc(l, m) => Height[m] < Height[l]
<1>1. Height \in [Places -> 0..19]
  BY PlaceSets DEF Height
<1>2. \A l \in Places : l # "idle" => Height["idle"] < Height[l]
  BY PlaceSets DEF Height
<1>3. \A l \in Provisioning \cup Reloading : Height["toml"] < Height[l]
  BY PlaceSets DEF Height
<1>4. ASSUME NEW l \in Places, NEW m \in Places, Arc(l, m) PROVE Height[m] < Height[l]
  <2>1. CASE l \in DOMAIN After
    BY <1>4, <2>1, PlaceSets DEF Arc, After, Height
  <2>2. CASE l \notin DOMAIN After
    BY <1>4, <2>2, PlaceSets DEF Arc, Height
  <2>. QED
    BY <2>1, <2>2
<1>. QED
  BY <1>1, <1>2, <1>3, <1>4

Descends(p) ==
    /\ Height[pc'[p]] < Height[pc[p]]
    /\ \A q \in Procs \ {p} : pc'[q] = pc[q]

\* Every step takes its own request nearer to the end and leaves the others
\* where they are: no call that fails sends a request back, and a request is
\* over after at most nineteen steps.
THEOREM StepsDescend == Spec => [][\A p \in Procs : Step(p) => Descends(p)]_vars
<1>1. ASSUME Typed, Typed', NEW p \in Procs, Step(p) PROVE Descends(p)
  <2>1. pc[p] \in Places /\ pc'[p] \in Places
    BY <1>1 DEF Typed, TypeOK
  <2>2. pc[p] # "idle"
    BY <1>1, Chain, PlaceSets
    DEF Step, CFStep, DeployStep, EnableStarts, Find, Create, CreateDistribution,
        TagDistribution, StoredKey, AttachKey, AllowOnBucket, AwsFails, LoadExisting,
        Save, ReloadLoad, ReloadKey, ReloadStart, DeployStack, WriteToml, WritePassword,
        SavePassword, InitRepository, Complete, DeployFails, Download
  <2>3. Height[pc'[p]] < Height[pc[p]]
    <3>1. CASE Ends(p)
      BY <2>1, <2>2, <3>1, ArcsDescend DEF Ends
    <3>2. CASE Walks(p)
      BY <2>1, <3>2, ArcsDescend DEF Walks
    <3>. QED
      BY <1>1, <3>1, <3>2, StepWalks
  <2>. QED
    BY <1>1, <2>3, Alone DEF Descends
<1>2. Typed /\ Typed' /\ [Next]_vars => [\A p \in Procs : Step(p) => Descends(p)]_vars
  BY <1>1
<1>3. Spec => []Typed
  BY InitTypes, TypeStep, PTL DEF Spec
<1>. QED
  BY <1>2, <1>3, PTL DEF Spec
=============================================================================
