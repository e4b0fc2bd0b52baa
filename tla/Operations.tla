------------------------------ MODULE Operations ------------------------------
(***************************************************************************)
(* Changing the connection of a self-hosted gateway (selfhost/operations.py,*)
(* and what selfhost/main.py and runtime.py do with it).  The console       *)
(* stages settings or restores saved ones; with the stack stopped the       *)
(* command activate-config makes the staged ones active, gives them a       *)
(* policy and publishes both.  The mounted deployment file may be edited at *)
(* any time, and the process that runs may die between any two writes.      *)
(*                                                                         *)
(* control.lock admits one process: the console or activate-config.  The    *)
(* other two locks and Envoy's port only delay an activation and are left   *)
(* out.  Inside the console runtime.lock is held from the first to the last *)
(* step of a request that changes settings; apply publishes after it has    *)
(* released it.                                                             *)
(***************************************************************************)
EXTENDS Naturals, Sequences, FiniteSets, Functions

CONSTANTS
    Routes,       \* route mappings; a policy has a rule for each of theirs and no other
    Trusts,       \* console origin, gateway authentication and broker trust
    FirstFile,    \* deployment.yaml when the gateway was initialized
    HistoryLimit, \* saved revisions kept for a restore
    MaxVersion,   \* bound: settings are not changed any more from this version on
    MaxSaves,     \* bound: policies applied in the console
    MaxSecrets,   \* bound: secret files written
    MaxEdits,     \* bound: edits of deployment.yaml
    None

\* target_auth.secret_file: no secret, or the n-th file the console has written.
Secrets == 1 .. MaxSecrets
Configs == [routes : Routes, trust : Trusts, secret : Secrets \cup {None}]

ASSUME OperationsAssumption ==
    /\ FirstFile \in Configs /\ FirstFile.secret = None
    /\ HistoryLimit \in Nat \ {0} /\ MaxVersion \in Nat /\ MaxSaves \in Nat
    /\ MaxSecrets \in Nat /\ MaxEdits \in Nat

VARIABLES
    file,       \* deployment.yaml
    ops,        \* settings row operations.config
    policy,     \* settings row policy
    secrets,    \* secret files in the state directory
    current,    \* the published snapshot
    pc,         \* the process that holds control.lock
    config,     \* its deployment, None when there is no process
    job,        \* what the request it works on has computed
    due,        \* an applied policy is still to be published
    saves,      \* policies applied
    edits,      \* edits of the file
    tab,        \* history: the settings an administrator's page was loaded with
    promised,   \* history: the saved revision the console last said it had restored
    unmigrated  \* history: activated, and not published by a console since, while the
                \* saved policy did not fit the file

consoleVars == <<pc, config, job, due>>
historyVars == <<tab, promised, unmigrated>>
operations == <<file, ops, policy, secrets, current, saves, edits, consoleVars, historyVars>>

\* Rules as the routes configure them; body tells the contents of policies apart.
Defaults(r, version) == [version |-> version, routes |-> r, body |-> 0]

NewSettings == [version |-> 0, pending |-> None, active |-> None, history |-> <<>>]

\* After `init': a seeded policy and its snapshot exist, nothing was staged.
OperationsInit ==
    /\ file = FirstFile
    /\ ops = NewSettings
    /\ policy = Defaults(FirstFile.routes, 1)
    /\ secrets = {} /\ saves = 0 /\ edits = 0
    /\ current = [config |-> FirstFile, policy |-> Defaults(FirstFile.routes, 1)]
    /\ pc = "down" /\ config = None /\ job = None /\ due = FALSE
    /\ tab = NewSettings /\ promised = None /\ unmigrated = FALSE

\* active_config: active settings, with origin, authentication and trust of the file.
ActiveConfig ==
    IF ops.active = None THEN file ELSE [ops.active.config EXCEPT !.trust = file.trust]

\* seed_policy
Seeded(c) == IF policy = None THEN Defaults(c.routes, 1) ELSE policy

Newest(s, n) == IF Len(s) > n THEN SubSeq(s, Len(s) - n + 1, Len(s)) ELSE s

Entries == Range(ops.history) \cup ({ops.pending, ops.active} \ {None})

-----------------------------------------------------------------------------
(* The console.                                                             *)

ControlStartQuiet ==
    /\ pc = "down"
    /\ policy' = Seeded(ActiveConfig)
    /\ policy'.routes = ActiveConfig.routes
    /\ config' = ActiveConfig
    /\ pc' = "idle"
    /\ UNCHANGED <<file, edits, ops, secrets, current, saves, job, due, historyVars>>

\* SelfhostRuntime: a policy that does not fit the routes refuses the start.
ControlStart ==
    /\ pc = "down"
    /\ policy' = Seeded(ActiveConfig)
    /\ policy'.routes = ActiveConfig.routes
    /\ config' = ActiveConfig
    /\ pc' = "started"
    /\ UNCHANGED <<file, edits, ops, secrets, current, saves, job, due, historyVars>>

\* serve_control and apply publish the console's own deployment, with the policy that
\* is saved by then.
Publish ==
    /\ \/ pc = "started" /\ UNCHANGED due
       \/ pc = "idle" /\ due /\ due' = FALSE
    /\ current' = [config |-> config, policy |-> policy]
    /\ pc' = "idle" /\ unmigrated' = FALSE
    /\ UNCHANGED <<file, edits, ops, policy, secrets, saves, config, job, tab, promised>>

\* apply: another policy for the same routes.
Apply ==
    /\ pc = "idle" /\ saves < MaxSaves
    /\ saves' = saves + 1
    /\ policy' = [version |-> policy.version + 1, routes |-> policy.routes, body |-> saves']
    /\ due' = TRUE
    /\ UNCHANGED <<file, edits, ops, secrets, current, pc, config, job, historyVars>>

RefreshUnlocked ==
    /\ pc \in {"idle", "restoring"}
    /\ tab' = ops
    /\ UNCHANGED <<file, edits, ops, policy, secrets, current, saves, consoleVars, promised, unmigrated>>

\* snapshot, also the answer of stage and restore: what a page shows, read under the
\* lock.
Refresh ==
    /\ pc = "idle"
    /\ tab' = ops
    /\ UNCHANGED <<file, edits, ops, policy, secrets, current, saves, consoleVars, promised, unmigrated>>

\* The version a request carries is that of the page it was made on.
Requested == pc = "idle" /\ tab.version = ops.version /\ ops.version < MaxVersion

StagedInForce(c) ==
    LET revision == ops.version + 1
        previous == IF ops.pending # None THEN [ops.pending EXCEPT !.policy = policy]
                    ELSE IF ops.active # None THEN [ops.active EXCEPT !.policy = policy]
                    ELSE [revision |-> revision, config |-> config, policy |-> policy]
    IN  [ops EXCEPT !.version = revision,
                    !.pending = [revision |-> revision + 1, config |-> c, policy |-> None],
                    !.history = Newest(Append(@, previous), HistoryLimit)]

\* stage: what was pending, active or given by the file becomes history, with the
\* policy in force if it was in use.
Staged(c) ==
    LET revision == ops.version + 1
        previous == IF ops.pending # None THEN ops.pending
                    ELSE IF ops.active # None THEN [ops.active EXCEPT !.policy = policy]
                    ELSE [revision |-> revision, config |-> config, policy |-> policy]
    IN  [ops EXCEPT !.version = revision,
                    !.pending = [revision |-> revision + 1, config |-> c, policy |-> None],
                    !.history = Newest(Append(@, previous), HistoryLimit)]

\* candidate, without a new secret: one that the current or a saved connection uses.
Known == {None, config.secret} \cup {e.config.secret : e \in Entries}

Stage(c) ==
    /\ Requested
    /\ c.trust = config.trust /\ c.secret \in Known
    /\ ops' = Staged(c)
    /\ promised' = None
    /\ UNCHANGED <<file, edits, policy, secrets, current, saves, consoleVars, tab, unmigrated>>

\* stage with a new secret: its file first, which nothing refers to yet.
StageSecret(r) ==
    /\ Requested
    /\ Cardinality(secrets) < MaxSecrets
    /\ job' = [routes |-> r, trust |-> config.trust, secret |-> Cardinality(secrets) + 1]
    /\ secrets' = secrets \cup {job'.secret}
    /\ pc' = "staging"
    /\ UNCHANGED <<file, edits, ops, policy, current, saves, config, due, historyVars>>

StageCommit ==
    /\ pc = "staging"
    /\ ops' = Staged(job)
    /\ job' = None /\ pc' = "idle"
    /\ promised' = None
    /\ UNCHANGED <<file, edits, policy, secrets, current, saves, config, due, tab, unmigrated>>

\* restore, first write: the saved connection is staged, if its trust is still that of
\* the console.
Restore(item) ==
    /\ Requested
    /\ item.config.trust = config.trust
    /\ ops' = Staged(item.config)
    /\ job' = item /\ pc' = "restoring" /\ promised' = None
    /\ UNCHANGED <<file, edits, policy, secrets, current, saves, config, due, tab, unmigrated>>

RestorePolicyDropped ==
    /\ pc = "restoring"
    /\ job' = None /\ pc' = "idle"
    /\ promised' = job
    /\ UNCHANGED <<file, edits, ops, policy, secrets, current, saves, config, due, tab, unmigrated>>

\* restore, second write: the policy saved with it, if there is one; then the answer.
RestorePolicy ==
    /\ pc = "restoring"
    /\ ops' = [ops EXCEPT !.pending.policy = job.policy]
    /\ job' = None /\ pc' = "idle"
    /\ promised' = job
    /\ UNCHANGED <<file, edits, policy, secrets, current, saves, config, due, tab, unmigrated>>

-----------------------------------------------------------------------------
(* Commands and faults.                                                     *)

Version == IF policy = None THEN 0 ELSE policy.version

\* activate-config, the transaction: a restored policy, the defaults of new routes, or
\* the policy as it is.
Activate ==
    /\ pc = "down" /\ ops.pending # None /\ ops.version < MaxVersion
    /\ ops.pending.config.secret \in secrets \cup {None}
    /\ LET c == ops.pending.config IN
       /\ policy' = IF ops.pending.policy # None
                      THEN [ops.pending.policy EXCEPT !.version = Version + 1]
                    ELSE IF c.routes # ActiveConfig.routes THEN Defaults(c.routes, Version + 1)
                    ELSE policy
       /\ config' = c
    /\ ops' = [ops EXCEPT !.version = @ + 1, !.active = ops.pending, !.pending = None]
    /\ pc' = "activated" /\ promised' = None
    /\ unmigrated' = (unmigrated \/ (ops.active = None /\ policy # None /\ policy.routes # file.routes))
    /\ UNCHANGED <<file, edits, secrets, current, saves, job, due, tab>>

\* activate-config, after the transaction.
PublishActivated ==
    /\ pc = "activated"
    /\ policy' = Seeded(config)
    /\ current' = [config |-> config, policy |-> policy']
    /\ pc' = "down" /\ config' = None
    /\ UNCHANGED <<file, edits, ops, secrets, saves, job, due, historyVars>>

\* policy-reset, with the stack stopped as documented: the command takes no lock.
PolicyReset ==
    /\ pc = "down" /\ policy # None
    /\ policy' = None
    /\ UNCHANGED <<file, edits, ops, secrets, current, saves, consoleVars, historyVars>>

EditFile(f) ==
    /\ f # file /\ edits < MaxEdits
    /\ edits' = edits + 1
    /\ file' = f
    /\ UNCHANGED <<ops, policy, secrets, current, saves, consoleVars, historyVars>>

\* The console is stopped, or either process dies.
End ==
    /\ pc # "down"
    /\ pc' = "down" /\ config' = None /\ job' = None /\ due' = FALSE
    /\ UNCHANGED <<file, edits, ops, policy, secrets, current, saves, historyVars>>

OperationsNext ==
    \/ ControlStart \/ Publish \/ Apply \/ Refresh
    \/ \E c \in Configs : Stage(c)
    \/ \E r \in Routes : StageSecret(r)
    \/ StageCommit
    \/ \E item \in Range(ops.history) : Restore(item)
    \/ RestorePolicy
    \/ Activate \/ PublishActivated \/ PolicyReset
    \/ \E r \in Routes, t \in Trusts : EditFile([routes |-> r, trust |-> t, secret |-> None])
    \/ End

OperationsSpec == OperationsInit /\ [][OperationsNext]_operations

-----------------------------------------------------------------------------
\* Every connection that is active or can still be activated or restored is usable:
\* the policy kept with it has the rules of its routes and no others, and its secret
\* file exists, whichever of staging, restoring, activating, editing the file and
\* resetting the policy came first and wherever one of them was cut off.  The
\* exception: a first activation compares the staged routes with those of the file
\* and not with those of the saved policy, which the file may have left behind.
ConnectionsAreUsable ==
    /\ \A e \in Entries : /\ e.policy # None => e.policy.routes = e.config.routes
                          /\ e.config.secret \in secrets \cup {None}
    /\ (ops.active # None /\ policy # None /\ ~unmigrated) =>
         policy.routes = ops.active.config.routes

\* One version names one state of the settings, so a page that passes the version
\* check of stage and restore shows what it is about to replace: also after restores
\* that were cut off between their two writes, restarts and activations.
VersionNamesSettings == tab.version = ops.version => tab = ops

\* What the console said it had restored is what the next activation puts in force,
\* connection and policy, although the policy may have been changed, the file edited
\* or a process killed since.
RestoredIsActivated ==
    [][(promised # None /\ ops'.active # ops.active) =>
         /\ ops'.active.config = promised.config
         /\ promised.policy # None =>
              policy' = [promised.policy EXCEPT !.version = policy'.version]]_operations

\* While the console runs, what it publishes is the active connection and the saved
\* policy, also when activate-config died before it published, or the console before
\* it published what was applied.
PublishedIsActive ==
    (pc = "idle" /\ ~due) => current = [config |-> config, policy |-> policy]
=============================================================================
