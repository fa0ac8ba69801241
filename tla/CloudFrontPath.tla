--------------------------- MODULE CloudFrontPath ---------------------------
(***************************************************************************)
(* The free-egress path (src/api/internal/cloudfront, server/cloudfront.go): *)
(* provisioning a distribution, persisting its signing key in aws_config,  *)
(* and the local proxy that Manager.Reload starts from it.  Deployment      *)
(* composes these actions with the requests that deploy a stack.            *)
(*                                                                         *)
(* A distribution is its index in dists, a key pair a number (0 is the      *)
(* empty string), a bucket the stack that owns it.  The proxy's request     *)
(* bodies and headers, cache settings and log lines are left out.           *)
(***************************************************************************)
EXTENDS Naturals, Sequences

CONSTANTS Procs,    \* goroutines that serve one request at a time
          Stacks,   \* stack names
          None

ASSUME NoneAssumption == None \notin Procs \cup Stacks

VARIABLES
    stackName, coldBucket,   \* aws_config.stack_name and cold_bucket
    cf,         \* the cf_* columns of aws_config
    taken,      \* AWS: names of OACs, public keys, key groups, cache policies
    dists,      \* AWS: distributions, in the order they were created
    policy,     \* AWS: the distribution each cold bucket's policy allows, or 0
    keys,       \* key pairs generated so far
    proxy,      \* Manager.server and what it was built from
    lock,       \* the holder of Manager.mu, or None
    flag,       \* Manager.provisioning
    pc,         \* where each process is
    req         \* its request and locals

config == <<stackName, coldBucket, cf>>
aws    == <<taken, dists, policy, keys>>
mgr    == <<proxy, lock, flag>>
cfVars == <<config, aws, mgr, pc, req>>

NoConfig == [enabled |-> FALSE, dist |-> 0, keyId |-> 0, key |-> 0]
NoProxy  == [dist |-> 0, keyId |-> 0, key |-> 0, bucket |-> None]

\* The kind of request; EnsureConfig.StackName and ColdBucket; what EnsureReady
\* returns (distribution and new key, or 0); the StoredConfig last loaded; the
\* repository password of a deployment.
NoRequest == [kind |-> "none", stack |-> None, bucket |-> None, dist |-> 0, key |-> 0,
              cfg |-> NoConfig, pass |-> 0]

\* The resources Ensure creates before the distribution, each under a fixed
\* name, in this order.
After == [oac |-> "key", key |-> "keygroup", keygroup |-> "cache", cache |-> "dist"]

Provisioning == DOMAIN After \cup
    {"find", "dist", "tag", "stored", "attach", "policy", "merge", "save"}
Reloading == {"lock", "open", "serve"}

Configs == [enabled : BOOLEAN, dist : Nat, keyId : Nat, key : Nat]
MaybeStack == Stacks \cup {None}
Requests == [kind : {"none", "enable", "disable", "deploy", "restore"},
             stack : MaybeStack, bucket : MaybeStack, dist : Nat, key : Nat,
             cfg : Configs, pass : Nat]

CFTypeOK ==
    /\ stackName \in MaybeStack /\ coldBucket \in MaybeStack /\ cf \in Configs
    /\ taken \subseteq Stacks \X DOMAIN After
    /\ dists \in Seq([stack : Stacks, tagged : BOOLEAN, trusted : Nat])
    /\ policy \in [Stacks -> Nat] /\ keys \in Nat
    /\ proxy \in [dist : Nat, keyId : Nat, key : Nat, bucket : MaybeStack]
    /\ lock \in Procs \cup {None} /\ flag \in BOOLEAN
    /\ req \in [Procs -> Requests]

CFInit ==
    /\ stackName = None /\ coldBucket = None /\ cf = NoConfig
    /\ taken = {} /\ dists = <<>> /\ policy = [s \in Stacks |-> 0] /\ keys = 0
    /\ proxy = NoProxy /\ lock = None /\ flag = FALSE
    /\ pc = [p \in Procs |-> "idle"] /\ req = [p \in Procs |-> NoRequest]

Goto(p, l) == pc' = [pc EXCEPT ![p] = l]
End(p)     == Goto(p, "idle") /\ req' = [req EXCEPT ![p] = NoRequest]

\* The end of a request's CloudFront part.  A deployment goes on whatever came
\* of it; an enable run clears the flag, under the mutex.
Leave(p) ==
    \/ req[p].kind = "deploy"  /\ Goto(p, "toml") /\ UNCHANGED <<flag, req>>
    \/ req[p].kind = "enable"  /\ lock \in {None, p} /\ flag' = FALSE /\ End(p)
    \/ req[p].kind = "disable" /\ End(p) /\ UNCHANGED flag

-----------------------------------------------------------------------------
(* Requests.                                                                *)

\* handleCloudFrontEnable: the flag is looked at here and set in the goroutine.
Enable(p) ==
    /\ pc[p] = "idle" /\ coldBucket # None /\ stackName # None
    /\ lock = None /\ ~flag
    /\ req' = [req EXCEPT ![p].kind = "enable", ![p].stack = stackName,
                          ![p].bucket = coldBucket]
    /\ Goto(p, "start")
    /\ UNCHANGED <<config, aws, mgr>>

EnableStarts(p) ==
    /\ pc[p] = "start" /\ lock = None
    /\ flag' = TRUE
    /\ Goto(p, "find")
    /\ UNCHANGED <<config, aws, proxy, lock, req>>

Disable(p) ==
    /\ pc[p] = "idle" /\ stackName # None
    /\ req' = [req EXCEPT ![p].kind = "disable"]
    /\ cf' = [cf EXCEPT !.enabled = FALSE]
    /\ Goto(p, "lock")
    /\ UNCHANGED <<stackName, coldBucket, aws, mgr>>

-----------------------------------------------------------------------------
(* EnsureReady, Ensure and RotateKey.  Every call to AWS may also fail.     *)

Managed(s) == {d \in DOMAIN dists : dists[d].tagged /\ dists[d].stack = s}

\* findManagedDistribution, then reuse it or generate a key pair.  A
\* distribution whose tags cannot be read is skipped.
Find(p) ==
    /\ pc[p] = "find"
    /\ \/ \E d \in Managed(req[p].stack) :
            /\ req' = [req EXCEPT ![p].dist = d]
            /\ Goto(p, "stored") /\ UNCHANGED keys
       \/ /\ keys' = keys + 1
          /\ req' = [req EXCEPT ![p].key = keys + 1]
          /\ Goto(p, "oac")
    /\ UNCHANGED <<config, taken, dists, policy, mgr>>

\* Mutant: the names of a run carry a suffix, as RotateKey's do.
FreeSuffixed(name) == TRUE

\* CloudFront refuses a name that is in use.
Free(name) == name \notin taken

\* createOAC, createPublicKey, createKeyGroup, createCachePolicy.
Create(p) ==
    /\ pc[p] \in DOMAIN After
    /\ Free(<<req[p].stack, pc[p]>>)
    /\ taken' = taken \cup {<<req[p].stack, pc[p]>>}
    /\ Goto(p, After[pc[p]])
    /\ UNCHANGED <<config, dists, policy, keys, mgr, req>>

\* createDistribution creates it, and tags it with a second call.
CreateDistribution(p) ==
    /\ pc[p] = "dist"
    /\ dists' = Append(dists, [stack |-> req[p].stack, tagged |-> FALSE,
                               trusted |-> req[p].key])
    /\ req' = [req EXCEPT ![p].dist = Len(dists) + 1]
    /\ Goto(p, "tag")
    /\ UNCHANGED <<config, taken, policy, keys, mgr>>

TagDistribution(p) ==
    /\ pc[p] = "tag"
    /\ dists' = [dists EXCEPT ![req[p].dist].tagged = TRUE]
    /\ Goto(p, "policy")
    /\ UNCHANGED <<config, taken, policy, keys, mgr, req>>

\* EnsureReady after a reuse: rotate a fresh key pair if none is stored.
StoredKey(p) ==
    /\ pc[p] = "stored"
    /\ \/ cf.key # 0 /\ Goto(p, "merge") /\ UNCHANGED <<keys, req>>
       \/ /\ cf.key = 0
          /\ keys' = keys + 1
          /\ req' = [req EXCEPT ![p].key = keys + 1]
          /\ Goto(p, "attach")
    /\ UNCHANGED <<config, taken, dists, policy, mgr>>

\* Mutant: the rotation trusts that the failed run had granted access.
AfterAttachOnly == "merge"

\* RotateKey ends with the bucket policy, since the failed run may have stopped
\* before it.
AfterAttach == "policy"

\* RotateKey: the new key group, under a name of its own, replaces the trust of
\* the distribution; IfMatch makes the read and the update one step.
AttachKey(p) ==
    /\ pc[p] = "attach"
    /\ dists' = [dists EXCEPT ![req[p].dist].trusted = req[p].key]
    /\ Goto(p, AfterAttach)
    /\ UNCHANGED <<config, taken, policy, keys, mgr, req>>

\* allowDistributionOnBucket: a statement with our Sid is left as it is.  After
\* a fresh creation the run then waits for the deployment, whose outcome
\* changes nothing.
AllowOnBucket(p) ==
    /\ pc[p] = "policy"
    /\ policy' = [policy EXCEPT ![req[p].bucket] = IF @ = 0 THEN req[p].dist ELSE @]
    /\ Goto(p, "merge")
    /\ UNCHANGED <<config, taken, dists, keys, mgr, req>>

\* Any of these calls fails, and the run with it.
AwsFails(p) ==
    /\ pc[p] \in {"find", "dist", "tag", "attach", "policy"} \cup DOMAIN After
    /\ Leave(p)
    /\ UNCHANGED <<config, aws, proxy, lock>>

-----------------------------------------------------------------------------
(* Save: read the stored columns, merge, write them back.                   *)

LoadExisting(p) ==
    /\ pc[p] = "merge"
    /\ req' = [req EXCEPT ![p].cfg = cf]
    /\ Goto(p, "save")
    /\ UNCHANGED <<config, aws, mgr>>

\* The columns Save writes: an empty key keeps what was stored.
Merged(r) == [enabled |-> TRUE, dist |-> r.dist,
              keyId |-> IF r.key = 0 THEN r.cfg.keyId ELSE r.key,
              key   |-> IF r.key = 0 THEN r.cfg.key ELSE r.key]

Save(p) == LET c == Merged(req[p]) IN
    /\ pc[p] = "save"
    /\ \/ /\ c.keyId # 0 /\ c.key # 0
          /\ cf' = c
          /\ Goto(p, "lock") /\ UNCHANGED <<flag, req>>
       \/ /\ c.keyId = 0 \/ c.key = 0
          /\ Leave(p) /\ UNCHANGED cf
    /\ UNCHANGED <<stackName, coldBucket, aws, proxy, lock>>

-----------------------------------------------------------------------------
(* Manager.Reload, under Manager.mu: three reads of aws_config (the         *)
(* configuration, the private key, the bucket), then the proxy.             *)

Usable(c) == c.enabled /\ c.dist # 0 /\ c.keyId # 0

\* Mutant: Reload returns early, and the proxy stays.
NotStopped == proxy

\* stopLocked.
Stopped == NoProxy

\* The proxy built from a configuration c, with the bucket read last.
ProxyOf(c) == [dist |-> c.dist, keyId |-> c.keyId, key |-> c.key, bucket |-> coldBucket]

ReloadLoad(p) ==
    /\ pc[p] = "lock" /\ lock = None
    /\ \/ /\ Usable(cf)
          /\ lock' = p /\ req' = [req EXCEPT ![p].cfg = cf]
          /\ Goto(p, "open") /\ UNCHANGED <<proxy, flag>>
       \/ /\ ~Usable(cf)
          /\ proxy' = Stopped /\ Leave(p) /\ UNCHANGED lock
    /\ UNCHANGED <<config, aws>>

\* PrivateKey: the key is read by a query of its own, and may be a later one.
ReloadKey(p) ==
    /\ pc[p] = "open"
    /\ \/ /\ cf.key # 0
          /\ req' = [req EXCEPT ![p].cfg.key = cf.key]
          /\ Goto(p, "serve") /\ UNCHANGED mgr
       \/ /\ cf.key = 0
          /\ proxy' = Stopped /\ lock' = None /\ Leave(p)
    /\ UNCHANGED <<config, aws>>

ReloadStart(p) ==
    /\ pc[p] = "serve"
    /\ \/ coldBucket = None /\ UNCHANGED proxy
       \/ coldBucket # None /\ proxy' = ProxyOf(req[p].cfg)
    /\ lock' = None
    /\ Leave(p)
    /\ UNCHANGED <<config, aws>>

CFStep(p) ==
    \/ EnableStarts(p) \/ Find(p) \/ Create(p) \/ CreateDistribution(p)
    \/ TagDistribution(p) \/ StoredKey(p) \/ AttachKey(p) \/ AllowOnBucket(p)
    \/ AwsFails(p) \/ LoadExisting(p) \/ Save(p) \/ ReloadLoad(p) \/ ReloadKey(p)
    \/ ReloadStart(p)

-----------------------------------------------------------------------------
(* Proxy.ServeHTTP.                                                         *)

\* What CloudFront answers to a URL signed by the proxy q: the key pair must be
\* in the distribution's key group, the bucket must let the distribution read.
SignedFetch(q) ==
    IF /\ q.keyId = q.key /\ dists[q.dist].trusted = q.keyId
       /\ policy[dists[q.dist].stack] = q.dist
    THEN "served by CloudFront" ELSE "access denied"

\* serveS3Passthrough: the request goes to S3 itself, signed anew with the
\* credentials of the deployment.
Passthrough == "passed to S3"

\* The answer to a request: reads of a key go through the distribution,
\* everything else of the bucket, listings above all, to S3.
Answer(q, bucket, hasKey, method) ==
    IF bucket = None THEN "invalid request"
    ELSE IF bucket # q.bucket THEN "access denied"
    ELSE IF hasKey /\ method \in {"GET", "HEAD"} THEN SignedFetch(q)
    ELSE Passthrough

-----------------------------------------------------------------------------
\* The proxy runs what aws_config says whenever no reload is outstanding: it is
\* stopped after a disable and serves the saved distribution with the saved
\* key, however Save, Disable and the three reads of Reload interleave.  Its
\* bucket is RestoreReadsSucceed's concern.
ProxyReflectsStore ==
    (\A p \in Procs : pc[p] \notin Reloading) =>
        IF cf.enabled THEN [proxy EXCEPT !.bucket = coldBucket] = ProxyOf(cf)
                      ELSE proxy = NoProxy

\* One stack never gets two distributions, although nothing serialises the
\* runs: the second is refused the first name the other has taken.
OneDistributionPerStack ==
    \A d, e \in DOMAIN dists : dists[d].stack = dists[e].stack => d = e
=============================================================================
