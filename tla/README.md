# Verification of the AI security gateway

TLA+ modules for the control logic of `src/asr_proxy`: the Agent Access Broker,
the attestation and its replay protection, the inspection engine and the inline
stream that runs it, the gateway in front of it, the three channels between control
plane and data plane (policy snapshots, evidence, agent keys), the life of both
planes and of the inspector pool under their supervisor, changing the connection
settings, and signing in to the console. TLC checks every module on small
instances; TLAPS proves every safety property of these runs for all values of the
constants.

`tlc -config X.cfg M` runs a configuration, `tlapm M.tla` checks the proofs of a
module; `PROJECT.json` lists runs, mutants, theorems, hazards and the source lines
behind every definition.

## 1. The system

A client sends a tool or model call to the **gateway** (`selfhost/gateway.py`),
which authenticates it, signs an **attestation** and passes it to Envoy. Envoy
opens an **ext_proc stream** per request to an inspector
(`inspection/server.py`, `console/dataplane.py`); the **engine** verifies the
attestation, scans, and asks the **access broker** for permission. Every final
verdict is written to the **evidence spool** before Envoy gets it. The
**console** (control plane) is another process: it edits agents, delegations,
approvals and keys in shared stores, publishes the policy as a signed
**snapshot**, and imports evidence.

| Component | State it keeps | Operations | What makes it correct | What is hard |
|---|---|---|---|---|
| Access broker (`access_broker/broker.py`, `models.py`) | agents, delegations, approvals, audit | register, delegate, authorize, decide, review | a high-risk call rests on one human review of this very call, spent once; nothing outlives its delegation | replaced delegations, legacy calls without a transaction, clock read twice |
| Broker store (`access_broker/store.py`) | JSON file, a copy per process, a flock | transaction, read_transaction | read and write are one step across processes; what was answered is durable | crash, power loss and failure between any two file operations |
| Attestation (`inspection/identity.py`) | nonce table | sign, verify and consume | one attestation releases one request | stalled threads with stale clock readings, purge by another process |
| Inline stream (`inspection/server.py`, `console/dataplane.py`) | one stream each, 16 stream and 4 worker slots | headers, bodies, final reply, cancellation | nothing passes uninspected, evidence before reply, one record per stream | cancellation at any await; threads that outlive their stream |
| Engine (`inspection/engine.py`) | none | inspect request, metadata, response; redact, SSE | what is sent is what was authorized; findings are hidden and nothing else; only whole streams are released | findings cut up over interleaved events, write-back of longer or shorter text, an error at any step |
| Gateway (`selfhost/gateway.py`, `auth.py`) | slots, waiters | authenticate, admit, forward | nothing is sent that was not allowed after it arrived; slots are conserved | checks before waiting, keys revoked meanwhile |
| Agent credentials (`selfhost/agent_credentials.py`) | key table | issue, rotate, revoke, authenticate | a revoked key is refused, a key is rotated once | key and agent are in two stores |
| Policy snapshots (`selfhost/snapshot.py`, `dataplane.py`, `main.py`, `inspector_pool.py`) | history, `current.json`, trust key; a snapshot per process | publish, poll, load, apply, restart | an acknowledged policy is enforced everywhere, no process goes back | crash between files, file replaced between stat and read, workers replaced |
| Evidence spool (`selfhost/spool.py`, `runtime.py`, `console/store.py`) | files, cursor, database | append, rotate, import, unlink | every acknowledged record is imported once and in order | rotation during a pass, short writes, crashes |
| Console authentication (`console/app.py`, `store.py`, `sso.py`) | account, sessions, attempts, SSO transactions | login, logout, password, start, callback | login limit, sessions follow the password, sign-in used once | handlers in threads, only login takes the lock |
| Data-plane process and inspector pool (`selfhost/main.py`, `inspector_pool.py`, `dataplane.py`) | workers, misses, restarts, readiness flag, spool health | wait for a snapshot, start, monitor, replace, drain, stop; admission | admission is open only while every inspector answers; it opens again after every fault that ends | probes race with failures, restart limit, workers' failed writes that the gateway does not hear of |
| Supervisor (`selfhost/supervisor.py`) | two child processes | restart the control plane, end with the data plane | whatever died comes back | exits and signals at any moment |
| Operations (`selfhost/operations.py`, `main.py`) | pending, active and saved settings, secret files, the policy | stage, restore, activate, reset | a saved connection can be restored with its policy; a page never overwrites what it has not seen | crash between two writes, the mounted file edited meanwhile |

Parsing, detectors, configuration, providers, metrics, the benchmark and the demo
keep no state worth exploring; section 7 says why each is left out.

## 2. Modules

| Module | Models | Used by |
|---|---|---|
| `AccessBroker` | broker.py and models.py | `MCAccessBroker`, `AccessBrokerProofs` |
| `OneTimeApproval` | abstract: opened for one subject, decided once, used at most once for it | `AccessBroker` (refinement) |
| `BrokerStore` | FileAccessBrokerStore | `AccessBrokerProofs` |
| `Attestation` | AttestationVerifier inside an inspection deadline | `MCAttestation`, `GatewayProofs` |
| `SseStream` | `_redact_sse`: life cycles, lanes, masking, write-back | `Engine` |
| `Engine` | inspect_request, the unmapped mirror, inspect_response | `MCEngine`, `EngineProofs` |
| `InlineStream` | ExternalProcessor, InspectionWorkers, StreamInspection, ConsoleProcessor | `InlineStreamProofs` |
| `AgentCredentials` | agent_credentials.py | `Gateway` (composition) |
| `Gateway` | forward and admission, over `AgentCredentials` | `MCGateway`, `GatewayProofs` |
| `PolicySnapshot` | publisher, loader, refresh, apply, pool | `PolicySnapshotProofs` |
| `EvidenceSpool` | spool.py and the two ingest_events | `EvidenceSpoolProofs` |
| `ConsoleAuth` | login, logout, password, SSO | `MCConsoleAuth`, `ConsoleProofs` |
| `DataPlane` | serve_dataplane, SelfhostInspectorPool, admission and maintain | `Supervisor` (composition) |
| `Supervisor` | run, over `DataPlane` | `SupervisorProofs` |
| `Operations` | operations.py with activate-config, policy-reset and serve_control | `MCOperations`, `ConsoleProofs` |

Where one proof module is about two models, the second one's `Init`, `Next` and the
like carry its name (`StoreInit`, `AttestationNext`, `OperationsSpec`).

How state and steps correspond to the code:

- **AccessBroker.** `agents`, `delegations`, `approvals` are the store's
  dictionaries, `grants` the allow decisions with their tokens. What runs in one
  store transaction is one action (`AuthorizeOpen`, `AuthorizeAllow`,
  `AuthorizeSpend`, `Review`, `CreateDelegation`, ...). `decide` without a
  request digest (legacy) reads without a transaction: `DecideRead`, then
  `DecideOpen` or `DecideAllow`. A request that is refused changes no record and
  is a stuttering step. `now` is read at the check and may be later when the token is issued.
- **BrokerStore.** A process goes through queued, loaded, changed, written,
  replaced, synced; `Fail` is any exception, with the reload of the except branch
  (assumed to succeed), `PowerLoss` falls back to what was synced.
- **Attestation.** `Start`, `Check` (clock reading), the purge-and-insert
  transaction and `Release` are separate steps of a thread. Deadlines are real
  time: a thread past its deadline releases nothing.
- **InlineStream.** One record per stream holds the locals of `Process`, the
  `StreamInspection` and its inspection thread. Every await is a point where
  `Leave` (cancellation or timeout) can happen; a running thread goes on and
  stores its verdict later. `persist` reads the verdicts (`SaveBegin`) and writes
  the line (`SaveOk`, `SaveFail`) in two steps, so that a late thread can come
  between. Verdicts are reduced to allow and block. A stream always finds a policy when it
  opens: no process listens before its first snapshot, and none loses it.
- **Engine.** `phase` is the step of `inspect_request`: validate and route,
  metadata, parse, scan, redact, verify, trust or ask. Each step may raise one of
  the reasons its functions have (`Reasons`), and the except branches are
  `Failed`, `Unavailable` and `InspectUnmapped`. `inspect_response` is a call of
  its own that gets the mode and the policy; the locals of the first call are gone. If
  the request ended before a policy was selected, the response gets the one of a route that
  is looked up without the request's headers, or the global one (`ResponsePolicies`).
- **SseStream.** One event is one step. The conditions under which an event or a
  lane is refused are listed in the order the code tests them (`EventChecks`,
  `EndChecks`), the first one that holds gives the reason. `Joined` is the table
  behind `select_lane`. A raised error drops the locals. Text is a sequence of
  characters in which one pair is personal data and one is a secret; scanners are
  thereby assumed to find what there is in a text they are given, and
  the question is whether they are given the right text. What a client joins is
  written down separately (`ClientText`, `Alone`); for Gemini it is a part of a
  candidate. `StringAssumption` says that the events have only strings that one of the
  two tables names.
  Checks local to one event are its `defect`.
- **Gateway / AgentCredentials.** `Lookup` and `LookupAgent` are the two reads of
  `authenticate`. Between them and the first await inside `admission()` the event
  loop is not given up, so checking admission and taking a slot or starting to
  wait are one step. `open` stands for `DataplaneRuntime.admission() is None`.
- **PolicySnapshot.** Publishing takes two steps (history file, pointer), loading
  two (fingerprint, read). Signatures are the key that made them; `Garbage` is a
  file that does not verify. A read that fails and a policy no engine can be built from
  are one step (`RefreshUnreadable`), also at boot. One apply at a time is modelled.
- **EvidenceSpool.** Bytes are lines; files are inodes, numbered in the order of
  their creation; a file may end in a fragment. Globbing, listing, reading one file, committing and unlinking are
  separate steps of the console.
- **ConsoleAuth.** Each SQLite transaction is a step; login holds `lock` over its
  five steps. `Restart` keeps the database only.
- **DataPlane.** `plane` is where `serve_dataplane` is, `monitor` the one coroutine
  that first starts and then watches the workers; each await of it (a probe, a
  termination, the wait for a replacement) ends a step, so workers die and stall and
  the disk fails between any two of them. `ready` is `inspector_ready`, `healthy` the
  health of the gateway's own spool; a worker's spool is another object, so with a
  pool only the probe of `maintain` reports a full disk. Restarts are counted over
  the life of the pool, as in the code.
- **Supervisor.** The loop looks at the data plane first and finishes the round in which a
  signal comes, so a restart that is due is still made. `Orchestrate` is the
  container's restart policy (external); `Killed` leaves workers behind that notice
  by themselves that their parent is gone. Delays are finite and not measured.
- **Operations.** `ops` is the settings row, `tab` what an administrator's page has
  read of it. `restore` commits twice (`Restore`, `RestorePolicy`) and staging a new
  secret writes a file first (`StageSecret`, `StageCommit`); `End` can come in
  between. A connection is its routes, its trust fields and its secret file; a policy
  is the routes it has rules for and a body. Ports, locks and validation errors only
  refuse, and are the guards.

## 3. Runs

| Run | Instance | Checks |
|---|---|---|
| `access_broker` | one agent, one delegation id with several payloads, two approvals, two digests, two grants, clock 0..1 | `SpentOnce`, `ReviewedBeforeGrant`, `ReviewIsFinal`, `NothingOutlivesDelegation`, refinement of `OneTimeApproval` |
| `broker_store` | two processes, two approvals, two calls each, two crashes | `AllowedOnce`, `SeenIsStored`, `EveryCallReturns` |
| `attestation` | two threads, two nonces, clock 0..4 | `ReleasedOnce`, `RememberedWhileFresh` |
| `inline_stream` | two streams, one stream slot, one worker, one failing write | `InspectedBeforeRelease`, `RepliesAreRecorded`, `NeverOverclaims`, `RecordedOnce`, `EveryStreamEnds` |
| `gateway` | three requests, one slot, three keys, two administrators | `SentWasAllowed`, `RotatedOnce`, slots conserved (`TypeOK`) |
| `policy_snapshot` | pooled inspectors, two connections, two revisions, two faults | `AppliedIsEnforced`, `RevisionNamesContent`, `OneConnection`, `LastKnownGood`, `PublishedIsEnforced` |
| `evidence_spool` | five records, files of three lines, passes of two, two crashes | `ImportedInOrder`, `AcknowledgedIsKept`, `AcknowledgedIsImported` |
| `console_auth` | two threads, two browsers, two passwords, clock 0..2, limit of two failures | `GuessesBounded`, `SessionsFollowPassword`, `SignInUsedOnce` |
| `engine` | inline and mirror, with and without broker, four request bodies, two settings, streams of seven events with three strings in five protocols | `NothingDetectedIsReleased`, `OnlyFindingsAreHidden`, `ReleasedIsWhole`, `AuthorizationMatchesRelease`, `ResponseFollowsPolicy` |
| `planes` | one inspector or a pool of two, three misses, two replacements, four faults | `ReadyMeansAllAnswered`, `AdmissionSettles` |
| `operations` | two routes, two trusts, settings versions up to 4, two saved revisions, one secret, one applied policy, one edit of the file | `ConnectionsAreUsable`, `VersionNamesSettings`, `PublishedIsActive`, `RestoredIsActivated` |
| `evidence_rotation` (violation) | rotation inside a pass | `KeptAcrossRotation` |

Why the bounds are enough to be interesting: every hazard below needs at most two
actors in one another's way and one or two faults. Two processes and two calls
let one consume what the other has loaded; two streams on one worker let one
queue behind a thread whose caller has gone; three requests on one slot let one
hold it, one wait and one be turned away; five records in files of three make a
rotation and passes that stop inside a file; three strings split a finding over
two events with another string between them, and seven events open and close two
content blocks; a mark of three characters makes arguments longer for one finding
and shorter for two that touch; one clock tick more than the
longest lifetime lets everything expire; four faults kill the first worker and each
of its two replacements, so that the pool is exhausted, and leave one for the disk or
the control plane; two saved revisions make the third staging drop one, and four
versions let settings be staged, activated, staged and restored. Limits like 5 failures, 60 s, 1000
transactions or 16 slots are constants, given small values. Symmetry is declared
in the MC modules for sets whose members the specification never tells apart, and
only in runs without liveness properties.

The type invariant of `Gateway` is checked because it says that slots are
conserved; those of the other modules are there for proofs and for reading.

Every property of a passing run has a mutant: a plausible mistake in the code
(a dropped guard, a missing reset, a swapped order) under which TLC finds it violated.

### Fairness

- `broker_store`: a process that is running takes its next step; crashes and
  failures are not forced.
- `inline_stream`: streams are under `asyncio.timeout`, evidence threads end and
  replies are sent. Inspection threads may hang for ever.
- `policy_snapshot`: every running process keeps polling (`maintain`).
- `evidence_spool`: the console keeps importing, and a writer that has started to
  append gets on.
- `planes`: coroutines, loops and booting processes go on, a snapshot arrives, the
  spool is probed (`maintain` runs for ever) and the orchestrator restarts the
  container. Faults, recoveries of a stalled worker and of the disk are not forced;
  `AdmissionSettles` says what follows once the disk stays as it is, and `MaxFaults`
  makes faults cease.

Deadlock is checked where the system must always be able to go on
(`broker_store`); the others stop when their bounds are used up.

## 4. Differences met while modelling

**Rotation during a pass** (run `evidence_rotation`, expected to be violated). `_files`
globs the sealed files (`spool.py:69`) and then looks for the active one (`spool.py:72`).
If the writer seals the active file and starts the next one between the two, the file just
sealed is in neither: it was not sealed yet when the directory was globbed, and the active
path names its successor by now. The pass reads the successor alone and commits a cursor in
it. To the next pass the sealed file lies before the cursor, and "Files before the cursor
were fully committed earlier" (`spool.py:90`): it is unlinked unread. This is the shortest
trace, and the one TLC reports; it ends with the commit that puts the cursor past records
that were acknowledged and never read, so it needs no `Unlink`.

There is a second window in the same pass. The inode is taken when files are listed
and the active file is opened by name later (`spool.py:96`); a rotation in between makes the
cursor count lines of the new file against the old inode. The model has this window too
(`ReadFile` opens what the path names at that moment), and `raced` excepts both in the
properties of `evidence_spool`.

The others are not runs; the properties name them as exceptions or the modules
contain them:

- *Short writes* (`torn` in `EvidenceSpool`). The fragment stays in the file and the
  next acknowledged record is appended to the same line, which does not parse.
  `ImportedInOrder`, `AcknowledgedIsKept` and `AcknowledgedIsImported` hold without
  this case and without the rotations above (`raced`).
- *A lost signing key* (`keys > 1` in `PolicySnapshot`).
  `docs/en/plane-separation.md:74` says the console creates a new pair and
  republishes; `publish` returns early when the content is unchanged
  (`snapshot.py:103`), so `current.json` keeps a signature the exported key does not
  verify until somebody edits the policy.
- *The file's trust fields after an activation.* `activate` returns the staged
  configuration without the overlay of `active_config`, so the snapshot that
  activate-config publishes carries the trust fields of the staging, although
  `docs/en/operator-workspace.md:19` says the file still controls them. The console's
  next start publishes the right ones, which is why `PublishedIsActive` is about the
  running console.
- *A first activation after the file was edited to the staged routes*
  (`unmigrated` in `Operations`). The routes are compared with the file and not with
  the saved policy (`operations.py:180`), the old policy stays, and the console
  refuses to start until `policy-reset`; `docs/en/operator-workspace.md:17` says that
  route changes reset policies.
- *A restore cut off between its two commits* stages the connection without its
  policy. `VersionNamesSettings` holds nevertheless, because no page can have read the
  version in between, and `RestoredIsActivated` is about restores that were answered.
- *Policy edits between staging and activation* are not in the saved revision, which
  has the policy of the staging; a revision saved under other trust fields cannot be
  restored any more.
- *A monitor that ends with an exception* (`MonitorLost`; no process can be spawned,
  or one outlives its SIGKILL, `inspector_pool.py:139-144`). Nobody awaits the task:
  the pool has not failed, admission stays closed and nothing restarts.
  `AdmissionSettles` excepts it.
- *A pooled inspector that cannot write evidence* fails its own requests, but new
  ones are admitted until the gateway's own probe fails. `disk` is the one evidence volume
  of all these processes; a fault of one worker's directory alone, which the probe of the
  gateway would never see, is not modelled.
- `policy-reset` takes no lock; it is modelled with the stack stopped, as documented.
- `stage` and `restore` call `snapshot` while they hold `runtime.lock`, which is
  re-entrant; the comment at `operations.py:61` says it is never held across the
  status request that `snapshot` makes.

Other exceptions that properties spell out: `RecordedOnce` leaves out streams
whose append raised, as the line may have been written before `fsync` failed and
is written again; `AppliedIsEnforced` leaves out answers given while the pool is
starting, when nobody asks the workers, and those given after five seconds of waiting
(`GiveUp`, audited as pending); `PublishedIsEnforced` leaves out a lost key and a process
that once failed to read or to use a snapshot; `ReviewedBeforeGrant` speaks of high-risk
actions, not of the other actions of an agent whose own tier is high; `SessionsFollowPassword` leaves out a
login that had checked the old password when it changed; `SentWasAllowed` asks for
admission at some moment since the request came, because it is not asked again
after waiting.

## 5. Proofs

| Proof module | Proves about | Properties |
|---|---|---|
| `AccessBrokerProofs` | `AccessBroker` | `SpentOnce`, `ReviewedBeforeGrant`, `ReviewIsFinal`, `NothingOutlivesDelegation`, refinement of `OneTimeApproval` |
| | `BrokerStore` | `AllowedOnce`, `SeenIsStored` |
| `GatewayProofs` | `Gateway`, `AgentCredentials` | slots conserved (`TypeOK`), `SentWasAllowed`, `RotatedOnce` |
| | `Attestation` | `ReleasedOnce`, `RememberedWhileFresh` |
| `InlineStreamProofs` | `InlineStream` | `InspectedBeforeRelease`, `RepliesAreRecorded`, `NeverOverclaims`, `RecordedOnce`, worker slots conserved |
| `EngineProofs` | `Engine` | `AuthorizationMatchesRelease`, `ResponseFollowsPolicy` |
| | `SseStream` | `ReleasedIsWhole`, `NothingDetectedIsReleased`, `OnlyFindingsAreHidden` |
| `PolicySnapshotProofs` | `PolicySnapshot` | `AppliedIsEnforced`, `RevisionNamesContent`, `OneConnection`, `LastKnownGood` |
| `EvidenceSpoolProofs` | `EvidenceSpool` | `ImportedInOrder`, `AcknowledgedIsKept` |
| `ConsoleProofs` | `ConsoleAuth` | `GuessesBounded`, `SessionsFollowPassword`, `SignInUsedOnce` |
| | `Operations` | `ConnectionsAreUsable`, `VersionNamesSettings`, `RestoredIsActivated`, `PublishedIsActive` |
| `SupervisorProofs` | `DataPlane`, `Supervisor` | `ReadyMeansAllAnswered` |

TLAPS checks all of them to the last leaf. No assumption is made beyond the named
ones in the modules, which TLC evaluates in every run. The bounds of the exploration
(`MaxCrashes`, `MaxRecords`, `Horizon` and so on) are constants like the others, so
the theorems hold for every bound.

**AccessBroker** (for all agents, requests, lifetimes and horizons). The safety
invariants are not inductive by themselves: that an approval is spent once needs
to know that every grant names an approval that still exists, and legacy
approvals, which carry no binding, must not be confused with strict ones. So

    IInv == TypeOK /\ LegacyUnbound /\ NamedApprovals /\ SpentOnce /\ ReviewedBeforeGrant

is proved inductive, one lemma per action. The lemmas separate two questions: do
the grants made earlier keep their approval (`KeepsNamed`, `EarlierGrants`), and
is the new grant, if there is one, sound (`OneNewGrant`). From `IInv` follow
`RecordsWellFormed`, `ApprovalSpentOnce`, `HighRiskIsReviewed`, the action
properties `ReviewsAreFinal` and `DelegationBoundsEverything`, and
`BrokerImplementsOneTimeApproval`: initial states map to initial states and each
step to an abstract step or a stutter. Assumptions: lifetimes are positive naturals
(`BoundsAssumption`), records and requests are well formed (`RecordAssumption`),
two requests with the same bound fields are the same request
(`RequestAssumption`), `None` is not a record (`NoneAssumption`).

**BrokerStore** (for all processes, approvals, calls, crashes and power losses).
Neither property is inductive: what a process writes is its own copy, and whether
that copy loses somebody's spending depends on who was inside the flock when. So

    StoreIInv == StoreTypeOK /\ DurableIsOlder /\ InsideCopy /\ FirstToSpend
                 /\ SeenIsStored /\ AllowedOnce

says what the copy of the process inside is at each step: the file's content until
it decides, that content and the approval it spends until it has renamed its file,
and the file's content from then on. Assumption: `StoreAssumption`.

**Attestation** (for all threads, nonces and clocks). `ReleasedOnce` needs the
history of the table: a nonce that was inserted stays until the grace period
after its expiry is over (`RememberedWhileFresh`), and at most one thread that
inserted it is still inside its deadline (`OneLiveInsert`). A second insert
succeeds only after a purge, which lies so long after the first check that
the thread's own deadline has passed (`SecondInsertIsLate`); this is where
`DeadlineAssumption`, `Deadline <= Grace + 2`, is used. The code has a grace of
5 s and Envoy's 2 s message timeout.

**Gateway and AgentCredentials** (for all requests, slots, keys, agents,
administrators). `SentWasAllowed` is about moments in the past, so the invariant says
at each step of `forward` what has been established (`Established`) and that whatever
holds now has been witnessed (`UpToDate`); a key read by `Lookup` still has its owner
when the agent is looked up. `RotatedOnce` needs that a key with a successor is
revoked (`ReplacedIsRevoked`). Slots are counted by cardinalities (`SlotsConserved`):
one lemma says how each change of a request's step changes the two sets.
Assumptions: `SlotsAssumption`, `NoCredentialAssumption`.

**InlineStream** (for all streams, slots and failing writes). A step touches one
stream and the worker slots, so

    IInv == Typed /\ SlotsTaken /\ \A s \in Streams : StreamInv(s)

and a frame lemma leaves one obligation per action about the stream that moves.
`StreamInv` has eight parts: what a stream is before its first message, which
messages have come (`Ordered`), where a thread may still run (`Phases`), what has
passed (`Passing`, `Verdicts`), that a final reply or the one about to be sent is on
disk (`Recorded`), what a draft and a record may say (`Claims`) and how many there
are (`Once`). They are needed together: a draft is taken before a late thread
stores its verdict, and whether the record is still true depends on where the
stream stood when it left. Assumption: `SlotAssumption`.

**Engine** (for all bodies, settings and texts). `AuthorizationMatchesRelease`
relates the decision to what the broker was asked steps before, so

    RequestIInv == RequestTyped /\ MirrorOnlyReports /\ NothingIsUsedUp /\ PassedIsSent
                   /\ AuthorizationMatchesRelease

follows the body from the scan to the decision: before it has passed, nothing is
used up; from then on the content that will be sent holds no finding and is of the
resource that was asked for. That masking leaves no finding (`MaskHides`) is a fact
about every text: each character of the masked text is one of the text outside the
findings or one of a mark, and a pair of neighbours from either is no finding.

`ResponseFollowsPolicy` relates the answer to a response to the settings and to what
upstream sent. `ResponseIInv` adds that inline the verdict carries the selected policy
from the moment it is parsed (`PolicyIsKept`) until its response is answered, whatever
the request went through, and that `PiiPolicy` is the first setting that is set. That a
response is called clean exactly if it was takes two directions: what was not changed
holds no finding, because what is written back holds none, and where nothing is found
masking, starring and slicing return the text (`MaskNothing`, `CleanStream`).

Assumptions: `ConfigAssumption`, and `MarkAssumption`, that the mark is nothing to
detect and does not complete anything with its neighbours, as `[REDACTED]` does not for
the detectors that are masked.

**SseStream** (for all events, strings and bounds). `ReleasedIsWhole` is about the
events read, while the code tests flags and sets: `terminal`, `open`, `seen`,
`candidates`, `finished`. `StreamIInv` says what they stand for in terms of the
events (`ClosedAtEnd`, `BlocksAreCycles`, `CandidatesAreRead`), with `OneFamily` and
`ReleasedAtEnd`. The conditions for refusing are lists, and that no condition of
a list holds when the first reason is "none" (`FirstOfList`) also through
concatenation and flattening (`ClearJoined`, `ClearParts`) is proved about
lists of every length.

`NothingDetectedIsReleased` and `OnlyFindingsAreHidden` are about the texts a client
joins, while the code works on lanes and writes fragments back. `ContentIInv` says that
every collected string is one of a payload read, in the lane `select_lane` gives it
(`RefsRead`), and what was written back of a released stream (`WrittenBack`). From it:

1. `SamePlaces`, `LanesAreTexts`: two strings are in one lane exactly if the client joins
   them, and the strings of a lane are of one kind, for every pair of places in the
   tables. A string in a lane of its own that the client joins to another one, or the
   reverse, would be found here.
2. `PartsOfJoined`, `CutsJoin`: where the parts of a text lie in it, and that pieces cut
   at ascending places join to the whole. `StarsJoin` applies them to text fragments:
   starred one by one at their offsets they join to the starred text. `SlicesJoin` applies
   them to argument fragments: slices at the old lengths, of which the last takes the
   rest, join to the replacement, whether it is longer or shorter than the arguments.
3. `LaneReleased`: before and after of each text of a client. `StarsHide` and `MaskHides`
   say that the after holds neither finding nor signature.

Assumptions: `EventAssumption`, `StringAssumption`, `MarkAssumption`.

Induction over data has no theorem to cite, as those of the library take an
operator. Where a proof needs it (files of the spool, joined lists and texts), the set of numbers for which a claim fails has a least member
(`LeastNatural`, from the well-foundedness of the naturals), which gives the
contradiction.

**PolicySnapshot** (for all inspectors, settings, revisions and faults). What the
console knows when it acknowledges a policy is the revision each inspector reported
at some earlier time; inspectors die and load again in between. So

    IInv == Typed /\ Pool /\ OneConnection /\ HistoryOrdered /\ RevisionNamesContent
            /\ FromHistory /\ Learnt /\ AppliedIsEnforced

says that revisions and policies of the history grow together (`HistoryOrdered`),
that every snapshot in use is one of the history and the pointer is about to name the
newest (`FromHistory`), and that what `wait_applied` has learnt stays true (`Learnt`),
because a process that comes back loads the current snapshot. Assumptions:
`PlaneAssumption`, `NoneAssumption`.

**EvidenceSpool** (for all file sizes, read limits, records and crashes).

    IInv == Typed /\ Newest /\ Genuine /\ (raced \/ torn \/ Ordered)

`Ordered` names a function `base` that counts the records written before each file.
The database holds as many as the cursor's position says, a pass has read on
from there, file by file, and no file is unlinked that the cursor has not passed.
`Genuine` is what remains when a rotation fell into a pass or a write was cut short:
what parses was written as a whole. Assumptions: `SpoolAssumption`, `AbsentAssumption`.

**ConsoleAuth** (for all threads, browsers, limits and lifetimes).

    IInv == Typed /\ Limits /\ Revoked /\ SingleUse

`Limits`: only one login is between its check and its count (`OneLogin`), the limit
it checked still is not reached (`StillOpen`), and the wrong passwords that count are
the last ones, those before being `LockFor` older (`Counted`). From that follows that of
`MaxFailures + 1` wrong passwords in a row the last comes `LockFor` after the first or
later. `Revoked`: the version a login read is the current one or the login was
overtaken. `SingleUse`: a state is pending, being exchanged or used, and never two of
these. Assumption: `LimitAssumption`.

**Operations** (for all routes, trusts, secrets and bounds). `OperationsIInv` has, next
to the types of what is saved, what the console serves (`ConsoleFits`), what a request
has between its writes (`JobFits`), that the saved policy has the rules of the active
connection unless the file was edited before the first activation (`PolicyFits`), that a
page is older or shows the settings as they are (`PageIsOlder`), that a promised restore
is pending, and that the snapshot is behind an applied policy only. `PageIsOlder` holds
across the two commits of a restore because the version moved with the first, so no
page can have the version of the second. Assumption: `OperationsAssumption`.

**Supervisor** (for all pool sizes, miss and restart limits). `ReadyMeansAllAnswered`
is not inductive: the monitor raises the flag after its last worker by looking at the
workers of its pool, while the property is about all workers, and a new process may
come up in place of an old one at any time. So

    IInv == Typed /\ IndexInPool /\ MissesInPool /\ ReadyMeansAllAnswered

is proved inductive: the monitor's index stays inside the pool, workers outside it
have missed nothing, and before a pool is watched nothing was missed and nothing is
ready. `AdvanceKeeps` is the heart: going on to the next worker opens admission only
after a round in which nobody has a miss. The only assumption is `PoolAssumption`.

Only model-checked is liveness (`EveryCallReturns`, `EveryStreamEnds`,
`AcknowledgedIsImported`, `PublishedIsEnforced`, `AdmissionSettles`), which is out of the
prover's reach. Every safety property of the passing runs is proved.

## 6. Plan

Done: broker, store, attestation, spool, snapshots, stream, console
authentication, gateway with agent keys, engine with event streams, data-plane
process with its pool under the supervisor, operations; the proofs of section 5.
Next, in this order:

1. **Abstract specifications**: an atomic register for the store, a FIFO channel for the
   spool.
2. **Composition**: the verdict of `Engine` in the place of the choice in
   `InlineStream`; `Gateway`'s `open` as `Admits` of `DataPlane`.

Constants carry named assumptions, actions are one per step, and no module uses
a RECURSIVE operator, so that each of these can be proved about.

## 7. Not modelled

- `pii.py`, `secret_detection.py`, `signatures.py`, and which bytes `protocol.py` and
  `llm.py` refuse: parsing and detection over arbitrary text; a small set of values
  would say nothing about them. What they may raise is in `Engine`.
- `config.py`, `providers.py`, `credentials.py`, `contracts.py`: validation and
  translation without state.
- `latency.py`, `benchmark.py`, `demo.py`, `scenarios.py`, `destination.py`, the
  JavaScript console, deployment files and examples: measurement, demonstration, presentation.
- The mirror HTTP application, the synthetic issuer of the SSO demonstration, JWT
  and client-key authentication at the gateway: straight-line checks that end in a refusal.
- Envoy, SQLite, the file system, the identity provider and asyncio are external:
  modelled as the code uses them (a transaction is atomic, `rename` is atomic,
  a semaphore is locked while somebody waits for it).
- `inspection/pool.py`, the stand-alone pool: its monitor follows the same scheme as
  the self-hosted one in `DataPlane`; what differs is a status file and port checks.
- `console/workers.py`, `network.py`, `runtime.py`: the demonstration's listener
  containers, worker processes and scenarios around one stored number.
- `inspection/audit.py`: one appended line per verdict under a lock.
- The length of delays (backoff, poll intervals), ports and locks that only refuse.
- Several data-plane writers in one evidence directory, and concurrent applies.
