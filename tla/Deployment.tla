----------------------------- MODULE Deployment -----------------------------
(***************************************************************************)
(* handleDeploy (server/router.go) and provisioning/*.go, composed with the *)
(* CloudFront path: a deployment creates the stack, provisions CloudFront,  *)
(* writes the rustic configuration and password and initialises the         *)
(* repository, while other requests deploy, enable or disable, and the      *)
(* container may restart at any step.                                       *)
(*                                                                         *)
(* Credentials, the account id, the queue and the snapshot-delete grant are *)
(* data that no step of the model reads, and are left out.                  *)
(***************************************************************************)
EXTENDS CloudFrontPath

CONSTANTS MaxRequests, MaxRestarts   \* bounds of a run

ASSUME BoundsAssumption == MaxRequests \in Nat /\ MaxRestarts \in Nat

VARIABLES
    row,        \* status of each process's backup_jobs row
    toml,       \* the stack rustic.toml names, or None
    passFile,   \* /config/repo.password
    dbPass,     \* app_config.encrypted_repo_password
    repo,       \* AWS: the password each stack's repository was made with, or 0
    setup,      \* app_config.setup_complete
    passwords,  \* passwords generated so far
    requests, restarts,
    overlapped, \* history: two runs overlapped, or the stack has changed
    again       \* history: a deployment began after the setup was complete

files   == <<toml, passFile, passwords>>
depVars == <<files, row, dbPass, repo, setup>>
history == <<requests, restarts, overlapped, again>>
vars    == <<cfVars, depVars, history>>

DeploySteps == {"stack", "toml", "password", "dbpass", "init", "complete"}

Places == {"idle", "start", "thaw"} \cup Provisioning \cup Reloading \cup DeploySteps

TypeOK ==
    /\ CFTypeOK
    /\ pc \in [Procs -> Places]
    /\ row \in [Procs -> {"none", "running", "failed", "completed"}]
    /\ toml \in MaybeStack
    /\ passFile \in Nat /\ dbPass \in Nat /\ passwords \in Nat
    /\ repo \in [Stacks -> Nat]
    /\ setup \in BOOLEAN /\ overlapped \in BOOLEAN /\ again \in BOOLEAN
    /\ requests \in 0..MaxRequests /\ restarts \in 0..MaxRestarts

Init ==
    /\ CFInit
    /\ row = [p \in Procs |-> "none"] /\ toml = None
    /\ passFile = 0 /\ dbPass = 0 /\ passwords = 0 /\ setup = FALSE
    /\ repo = [s \in Stacks |-> 0]
    /\ requests = 0 /\ restarts = 0 /\ overlapped = FALSE /\ again = FALSE

Busy == \E p \in Procs : pc[p] # "idle" /\ req[p].kind \in {"deploy", "enable"}

-----------------------------------------------------------------------------
(* The handler and the goroutine it starts.                                 *)

Request(p, s) ==
    /\ pc[p] = "idle"
    /\ row' = [row EXCEPT ![p] = "running"]
    /\ stackName' = s
    /\ req' = [req EXCEPT ![p].kind = "deploy", ![p].stack = s]
    /\ Goto(p, "stack")
    /\ overlapped' = (overlapped \/ Busy \/ stackName \notin {None, s})
    /\ again' = (again \/ setup)
    /\ UNCHANGED <<coldBucket, cf, aws, mgr, files, dbPass, repo, setup>>

\* Deploy: CDK creates the stack or finds it, and CloudFormation names its
\* buckets.  A bucket is called by its stack.
Deploy(s) == s

\* Bootstrap, Deploy and CreateIAMAccessKey in turn, then the bucket columns.
DeployStack(p) == LET bucket == Deploy(req[p].stack) IN
    /\ pc[p] = "stack"
    /\ req' = [req EXCEPT ![p].bucket = bucket]
    /\ coldBucket' = bucket
    /\ Goto(p, "find")
    /\ UNCHANGED <<stackName, cf, aws, mgr, depVars>>

\* writeRusticConfig writes rustic.toml, then a fresh repo.password.
WriteToml(p) ==
    /\ pc[p] = "toml"
    /\ toml' = req[p].stack
    /\ Goto(p, "password")
    /\ UNCHANGED <<config, aws, mgr, req, row, passFile, dbPass, repo, setup, passwords>>

WritePassword(p) ==
    /\ pc[p] = "password"
    /\ passwords' = passwords + 1
    /\ passFile' = passwords + 1
    /\ req' = [req EXCEPT ![p].pass = passwords + 1]
    /\ Goto(p, "dbpass")
    /\ UNCHANGED <<config, aws, mgr, row, toml, dbPass, repo, setup>>

\* Mutant: the UPDATE keeps the password of an earlier deployment.
PasswordStored(p) == IF dbPass = 0 THEN req[p].pass ELSE dbPass

PasswordToStore(p) == req[p].pass

SavePassword(p) ==
    /\ pc[p] = "dbpass"
    /\ dbPass' = PasswordToStore(p)
    /\ Goto(p, "init")
    /\ UNCHANGED <<config, aws, mgr, req, files, row, repo, setup>>

\* rustic init reads the configuration and refuses an existing repository.
InitRepository(p) ==
    /\ pc[p] = "init"
    /\ repo[toml] = 0
    /\ repo' = [repo EXCEPT ![toml] = passFile]
    /\ Goto(p, "complete")
    /\ UNCHANGED <<config, aws, mgr, req, files, row, dbPass, setup>>

Complete(p) ==
    /\ pc[p] = "complete"
    /\ setup' = TRUE
    /\ row' = [row EXCEPT ![p] = "completed"]
    /\ End(p)
    /\ UNCHANGED <<config, aws, mgr, files, dbPass, repo>>

DeployFails(p) ==
    /\ pc[p] \in {"stack", "toml", "password", "init"}
    /\ row' = [row EXCEPT ![p] = "failed"]
    /\ End(p)
    /\ UNCHANGED <<config, aws, mgr, files, dbPass, repo, setup>>

DeployStep(p) ==
    \/ DeployStack(p) \/ WriteToml(p) \/ WritePassword(p)
    \/ SavePassword(p) \/ InitRepository(p) \/ Complete(p) \/ DeployFails(p)

-----------------------------------------------------------------------------
(* A restore chooses how to download before the thaw (cfRestoreProfile).    *)

Reachable == proxy # NoProxy

\* A bucket in the request means the profile that points at the proxy, None
\* the default one.  The three reads are milliseconds apart, the download
\* hours or days later.
StartRestore(p) ==
    /\ pc[p] = "idle" /\ coldBucket # None
    /\ req' = [req EXCEPT ![p].kind = "restore",
                          ![p].bucket = IF cf.enabled /\ Reachable THEN coldBucket ELSE None]
    /\ Goto(p, "thaw")
    /\ UNCHANGED <<config, aws, mgr, depVars>>

Download(p) ==
    /\ pc[p] = "thaw"
    /\ End(p)
    /\ UNCHANGED <<config, aws, mgr, depVars>>

-----------------------------------------------------------------------------
\* Mutant: the rows of interrupted deployments are left as they are.
Unreconciled(status) == status

\* Mutant: a word of its own, which the type of the column does not have.
Interrupted(status) == IF status = "running" THEN "interrupted" ELSE status

Reconciled(status) == IF status = "running" THEN "failed" ELSE status

\* The container restarts.  main reloads the proxy and fails the running rows
\* before it serves requests.
Restart ==
    /\ restarts < MaxRestarts
    /\ restarts' = restarts + 1
    /\ pc' = [p \in Procs |-> "idle"] /\ req' = [p \in Procs |-> NoRequest]
    /\ row' = [p \in Procs |-> Reconciled(row[p])]
    /\ lock' = None /\ flag' = FALSE
    /\ proxy' = IF Usable(cf) /\ cf.key # 0 /\ coldBucket # None THEN ProxyOf(cf) ELSE NoProxy
    /\ UNCHANGED <<config, aws, files, dbPass, repo, setup, requests, overlapped, again>>

Step(p) ==
    /\ \/ CFStep(p) /\ UNCHANGED depVars
       \/ DeployStep(p) \/ Download(p)
    /\ UNCHANGED history

Arrive(p) ==
    /\ requests < MaxRequests
    /\ requests' = requests + 1
    /\ \/ \E s \in Stacks : Request(p, s)
       \/ Enable(p) /\ overlapped' = (overlapped \/ Busy) /\ UNCHANGED <<depVars, again>>
       \/ Disable(p) /\ UNCHANGED <<depVars, overlapped, again>>
       \/ StartRestore(p) /\ UNCHANGED <<overlapped, again>>
    /\ UNCHANGED restarts

Next == Restart \/ \E p \in Procs : Arrive(p) \/ Step(p)

\* Goroutines run on, calls to AWS, rustic init and restores end, and Reload
\* holds the mutex for at most eight seconds.  Every step moves its process.
Fairness == \A p \in Procs : WF_pc(Step(p))

Spec == Init /\ [][Next]_vars /\ Fairness

-----------------------------------------------------------------------------
\* With the path enabled and no reload outstanding, reading a pack and listing
\* the cold bucket through the proxy both work: the saved key is the one the
\* distribution trusts and the bucket lets the distribution read, whichever
\* calls failed and wherever the container restarted before.  Runs that
\* overlap, and a change of stack, are excluded: either can save a key the
\* distribution does not trust.
RestoreReadsSucceed ==
    /\ cf.enabled /\ ~overlapped
    /\ \A p \in Procs : pc[p] \notin Reloading
    => /\ Answer(proxy, coldBucket, TRUE, "GET") = "served by CloudFront"
       /\ Answer(proxy, coldBucket, FALSE, "GET") = "passed to S3"

\* Both copies of the password open the repository that rustic.toml names.
Opens == toml # None /\ repo[toml] # 0 /\ repo[toml] = passFile /\ repo[toml] = dbPass

\* Once the setup is complete, the configuration and both copies of the
\* password open the repository, unless somebody deploys again.
SetupOpensRepository == setup /\ ~overlapped /\ ~again => Opens

\* The same without the exception, as the documentation has it.
PasswordStaysValid == setup /\ ~overlapped => Opens

\* A restore that chose the proxy can read its packs from it when they have
\* thawed, as restores "fail open to direct S3".
RestoresFallBack == [][\A p \in Procs :
    Download(p) /\ req[p].bucket # None /\ ~overlapped =>
        Answer(proxy, req[p].bucket, TRUE, "GET") = "served by CloudFront"]_vars

\* Every request comes to an end and no row of a deployment stays 'running',
\* wherever calls fail and the container restarts.
RequestsEnd == \A p \in Procs : []<>(pc[p] = "idle" /\ row[p] # "running")
=============================================================================
