# Formal model of argos-cyber-tools

This directory holds TLA+ modules that model the part of argos-cyber-tools that
decides whether a containment action runs, and how often: approvals and their
consumption, the rate limiter, the gateway's `authorize`, the execution of what
it allows and its rollback, and the validation of attack paths, which asks the same
gateway. Beside it stand the tool catalogue, its manifest and its version ledger, and
the analyses of the cluster graph. TLC checks the modules on small instances; TLAPS
proves every safety property that holds of them for every value of the constants.
`PROJECT.json` maps every definition to the lines it models.

## 1. The system

The repository is a library of Python packages, called by other services; it
has no server of its own. Its callers may use it from several threads and from
several processes (replicas): `DurableApprovalStore` exists for exactly that.

| Part | State | Operations | Talks to |
| --- | --- | --- | --- |
| `policies/approval/__init__.py` fields, plan hash, signature | none | `compute_plan_hash`, `compute_signature_ref`, `_validate_approval_fields` | both stores, gateway |
| `ApprovalStore` (same file) | `_consumed`, a set in memory | `validate_and_consume` | gateway (default store) |
| `DurableApprovalStore` (`policies/approval/durable_store.py`) | one SQLite connection; the table `consumed_approvals`, shared by processes and surviving them | `__init__`, `validate_and_consume`, `is_consumed`, `close` | gateway (injected store) |
| `RateLimiter` (`mcp_gateway/__init__.py`) | `_calls`, per tool, in memory | `check_and_record` | gateway |
| `Gateway` (same file) | catalogue, store, limiter | `authorize`, `_check_safety_chain`, `_mint_ephemeral_credential` | all of the above, `tool_catalog`, `target_allowlists` |
| `execute_with_authorization` (`mcp_gateway/controlled_execution.py`) | none | one call of `authorize`, then one of the executor | gateway, executors |
| executors (`executors/kubernetes.py`, `scale_to_zero.py`, `increase_monitoring.py`) | the simulated cluster; an `IdempotencyStore` each | the effect, its verification, the `ActionResult` | contracts (validation) |
| rollback (`rollback/`) | the executors' cluster state; an `IdempotencyStore` per call unless one is given | three rollbacks, three verifications, `mark_rolled_back` | the executors' state |
| tool catalogue (`tool_catalog/`) | definition files, `catalog.manifest.json` | `load_catalog`, manifest verification | gateway |
| version ledger (`tool_catalog/version_ledger.py`) | a JSON file | load, check, write | tool catalogue |
| cluster graph (`graph/`) | a snapshot built from manifests | `build_graph`, exposure, escalation, blast radius, attack paths | gateway (attack paths) |
| MCP servers, Cilium and evidence clients, OPA, sandbox, Shuffle, runbooks | none at run time | filters, interfaces, configuration | programs outside the repository |

### What is hard, and what makes each part correct

* **Approvals.** An approval is accepted only if it is an APPROVE, unexpired,
  signed for this very plan, and given by someone who is neither requester nor
  executor; an approval the code cannot read raises and accepts nothing.
* **Stores.** No `approval_id` is accepted twice. Hard because of two processes
  at one INSERT, a thread that does not own the connection, a locked file, a
  process that dies between commit and answer, and, in memory, of the gap
  between lookup and `add`.
* **Rate limiter.** No minute holds more admitted attempts than the limit, and
  none is refused while the minute has room. Hard at the window's boundary and
  when threads interleave between the read of the history and its write.
* **Gateway.** An execution rests on a consumed approval bound to its tool,
  target, action and safety envelope, and a denial consumes nothing. Hard
  because of the order of the checks, `now` being fixed at the start, and the
  caller supplying the plan hash.
* **Execution.** One approval changes the cluster at most once; a retry does not
  repeat the effect; the answer is about what was asked; what was authorized
  happens unless the process dies. Hard because effect and `remember` are two
  steps and the `IdempotencyStore` dies with its process.
* **Rollback.** The original value is restored, whatever executions, retries and
  other rollbacks happened since; a late duplicate must not undo a new
  containment.
* **Attack paths.** What a validation reports of a path must not depend on what else the
  gateway is serving. Hard because a validation is an ordinary call of `authorize`, quota
  included, and its answer is read off the text of the reason.
* **Tool catalogue.** A process serves the signed release, whole, or nothing. Hard because
  a load reads the files twice, one after the other, while a deployment replaces them one
  by one, may die half-way, and ends with a manifest that is emptied before it is filled.
* **Version ledger.** The high-water mark of a tool never goes down. Load, check
  and write are three steps on a file.
* **Cluster graph.** Every subject and service that shares the fate of a target is
  reported, every dangerous rule found once; pure algorithms.

`PROJECT.json`, "hazards", lists each of these at its line, with the property that
covers it.

## 2. The modules

```
Approvals                pure operators: plan hash, signature, field checks
  |-- DurableApprovalStore ---- refines ----> ConsumeOnce
  |-- MemoryApprovalStore
RateLimiter
Gateway                  = RateLimiter + INSTANCE DurableApprovalStore + the checks
  |-- ControlledExecution  = Gateway + executors + IdempotencyStore
  |-- AttackPath           = Gateway + validate_attack_path
Containment              executors' state, idempotency stores and rollbacks, per target
CatalogLoad              load_catalog, its manifest, and deployments
VersionLedger ---- refines ----> HighWaterMark
ToolRelease              = CatalogLoad + VersionLedger
ClusterGraph             build_graph and the analyses of what it has built
MC<module>               the values of the constants for TLC

<module>Proofs (TLAPS) for DurableApprovalStore, MemoryApprovalStore, Gateway (with RateLimiter;
cites the proofs of DurableApprovalStore), ControlledExecution and AttackPath (cite those of
Gateway), Containment, ToolRelease (with CatalogLoad and VersionLedger) and ClusterGraph
```

Operators commented "Faulty" (`Insert_NoPrimaryKey`, `Full_OffByOne`, ...) are not
part of a specification: each is a plausible mistake in the definition after it,
kept to show which property would notice it.

**Approvals.** A plan hash is the record that is hashed and a signature the pair
that is signed: SHA-256 is taken to be injective. `readable` says whether
`expires_at` is a timestamp with a zone that can be compared with `now`; if it is
not, Python raises and the call accepts nothing. The order of the checks is the
code's, as far as it can be told from outside: a raise and a rejection differ.

**ConsumeOnce.** What either store promises: an id goes from fresh to granted or
to burned (lost with its process) and never leaves that state.

**DurableApprovalStore.** A worker is a thread; `ProcOf` gives its process, `Opener`
the thread that made the process's connection. The instant `at` of a call is any past one:
the gateway fixes `now` before other checks, and the call may reach the store later. `validate_and_consume` is three
steps, cut where something else can come between: `Call` (the field checks),
`Insert`/`Replay`/`Unavailable` (SQLite runs the INSERT as one transaction) and
`Return`. `Crash` loses calls and keeps rows. `dbLocked` stands for everything that
makes the file not answer. `grants` and `burned` are history variables.

**MemoryApprovalStore.** The same with a set per process: `Call` looks the id up and
checks the fields at any past instant, `Add` adds it without looking again, `Restart` forgets all.

**RateLimiter.** `check_and_record` is `Read`, which copies the window of the history,
and `Limit` or `Admit`, which store it back. A list is a set of numbered attempts
because the code never looks at its order.

**Gateway.** `Receive` fixes `effective_now`; `CountAttempt` is the limiter; `Decide` is
every check that reads the request alone, up to the call of the store; `Consume` and
`Answer` are the store. A denial carries its reason, that is the check that denied, because
`AttackPath` reads it. The catalogue, the allowlists and the requests are constants;
`valid_until` without a zone raises out of `authorize`, as it does in the code.
`TokenPassthroughError` is left out: the credential is a fresh UUID. `Gateway` extends
`RateLimiter` and shares its clock; the store is an instance.

**AttackPath.** A validation is one more client: `Validate` is `Receive` with a request that
executes without an approval, and everything `authorize` does follows, the limiter included.
`Decision` is the classification: the code searches the reason for "Approval", "SafetyEnvelope"
and "VerificationResult", which are in the texts of the safety chain and of the approval. The
allowlist's text quotes the target; targets are Kubernetes names, in lower case, so no
target holds one of the three words.

**ControlledExecution.** `Lookup`, `Effect` and `Record` are the three steps the three
executors share. `contract_ok` says whether the result satisfies the action-result
contract. The cluster outlives processes; results remembered do not.

**Containment.** What `ControlledExecution` leaves out: what a tool replaces, and how it
is taken back. `held` is the pair (original, current) that `FakeReplicaState` and
`FakeMonitoringState` keep per target; for `isolate`, whose state is the set of isolated
targets, the original is the open network. Only a rollback carries a value
of it from one step to the next. `Begin` is the lookup of the key, `Apply`,
`Rehearse`, `Observe` and then `RestoreValue` or `RemoveIsolation` are the work, and `Report` builds,
validates and remembers the result from the state as it is by then. `job.kept` says
whether the caller of a rollback handed over an `IdempotencyStore`; without one the
rollback starts from an empty store and what it remembers is lost with it. `Contain` and
`Resting` give each tool's contained value and each target's value before anything was
done; a target may rest at the contained value (no replicas).

**CatalogLoad.** A load is the manifest (`Start`), the listing (`Glob`), one `Hash` per file,
`Compare`, the listing again (`GlobAgain`), one `Parse` per file and `Return`. A loader in
`Unsigned` gives a `definitions_dir`, for which `load_catalog` asks no manifest.
Deployments are outside the repository but end with `write_integrity_manifest`, which is in
it: `Deploy` and `Copy` replace the files in any order, `Build` hashes them, `EmptyManifest` and
`FillManifest` are `write_text`, and `Abort` is a death at any of these. `Edit` is a hand in the
directory. There is one deployment at a time and no edit during one. `signed`, `intact` and
`calm` are history: what the last whole manifest was made of, whether anything was touched
since, and whether a load ran undisturbed.

**ToolRelease.** `version_ledger.main` calls `load_catalog` and hands its versions to the ledger:
`OpenLedger` is the step from one module to the other. Gateways load and serve.

**VersionLedger.** A run of `check`, with or without `--update`, is `Load`, `Check`, `Truncate`,
`Fill`, `Exit`: `write_text` empties the file before it fills it. A file is absent, torn or
whole; a torn one raises `JSONDecodeError`. Versions are numbers because only their order
is used. `kept` and `floor` are history variables: what was last written in full, now and
when the run loaded the ledger. **HighWaterMark** is what the docstring promises.

**ClusterGraph.** One action per handler of `build_graph`; `Skip` is a kind without one and
`Raise` is `InvalidManifest`. Every prefix of a list of manifests is itself a list of
manifests, so the analyses, which are operators on the graph, are asked about in every
state. The history `read` keeps the manifests, and the properties compare the analyses
with definitions on `read` that do not use the graph. The code's lists are sets in the
model: their order is not looked at, and a finding reported twice counts as one.
Ports, selectors, hosts, API groups, resource names and evidence references are left out.

## 3. What each run checks

| Run | Shows |
| --- | --- |
| `durable_safety` | three threads in two processes on one file, with outages, crashes, reopening, a clock and a thread that does not own its connection: single grant, conservation of consumption, soundness and permanence of the rows, refinement of `ConsumeOnce` |
| `durable_threads` (violated) | a thread that did not open the connection is told "unavailable" with a healthy file |
| `memory_two_threads` (violated) | two threads of one process are granted the same id |
| `attack_safety` | ten requests of clients, three of them sound, one that presents another's approval and six with one defect each, and seven validations, by two processes: every execution is bound to its approval, no denial spends one, none authorizes twice; the limiter keeps its bound and refuses only with cause; VALIDATED and GATE_BYPASSED are earned |
| `attack_scope` (violated) | a validation that meets the rate limit reports OUT_OF_SCOPE for a path the catalogue does not exclude |
| `exec_safety` | retries, a second client, a second target, a dry-run, crashes at every step: one effect per approval, effects only where authorized, approvals well spent, answers that match, no repeated effect in a lifetime |
| `exec_liveness` | `authorize` returns and an authorized execution takes effect, or its process dies, even if the file stays locked |
| `exec_shared_key` (violated) | a dry-run and its execution under one key: the execution consumes its approval and does nothing |
| `containment_safety` | three tools on two targets by two threads, with repeated keys, kept and fresh idempotency stores, rehearsals and malformed results: the original value is never lost, rollbacks say what they did, a remembered key does not act again |
| `release_safety` | deployments of two releases that may die at every step, edits by hand, a gateway and a ledger check that load meanwhile: an undisturbed verified load gives the signed release, an exception out of an undisturbed load has a cause, a verdict is about the release and right, what can be read of the ledger is what was kept, and `HighWaterMark` is implemented |
| `graph_analyses` | every list of up to four of twenty-one manifests: escalations and exposure agree with the manifests, nobody is left out of a blast radius, GO is given only when the model of the code allows it, more manifests never hide anything |
| `graph_reach` (violated) | a wildcard ClusterRole that a RoleBinding grants in one namespace is graded critical, as if it were granted in the cluster |

The five violated runs are disagreements between the code and what its text says;
`PROJECT.json`, "findings", quotes the text.

### Bounds

* *Threads and processes*: three and two for the store, which is the least that has
  both a second process and a second thread in one process; two and two elsewhere.
  The proofs remove this bound, and the ones on ids, plans, attempts and clocks, wherever
  section 4 has a theorem.
* *Approvals*: two ids; the first is signed for two plans, the second also comes
  rejected, signed by the executor, and unreadable, so that each field check is the
  only one that can refuse some call.
* *Clock*: `MaxNow` is 1 for the durable store, the gateway and liveness, which separates
  before and after an expiry and is one minute of the limiter, so that an attempt leaves its
  window; 2 in `memory_two_threads`; 0 where the clock plays no part (`exec_safety`).
* *Attempts*: `MaxAttempts` is 2 for the gateway (a replay needs two, and one tool has a limit
  of one a minute, so that it is reached, refused, left and reached again), and 3 for execution
  (dry-run, execution, retry).
* *Containment*: five calls, which is two containments and two rollbacks of one target and
  a call beside them; each target is served by one thread (`Serves`), because the state
  has no lock. The second target rests at zero replicas.
* *Release*: two files, versions 1 and 2, a tool that comes and goes; an edit that cannot be
  parsed and one that repeats a name. Versions 1 and 2 let a mark rise and a release fall
  behind it; unbounded otherwise. The constraint `Separated` lets one process at a time be
  between its start and the ledger, and no deployment run while one is at the ledger: loads only
  read, and the ledger touches nothing a load or a deployment does, so that what it excludes
  are other orders of independent steps. Deployments and edits do interleave with each load.
* *Graph*: four manifests are the least that has a role, its redefinition and two
  bindings, or two services, a policy and a binding. The manifests reuse names across
  namespaces (a role, a binding, a service) and kinds (a user and a group), and two
  cluster-wide objects carry a namespace in their metadata. `graph_reach` needs two manifests,
  a ClusterRole and a RoleBinding to it, and has three.
* *Deadlock* is not checked in `containment_safety`, where the calls are bounded, and in
  `graph_analyses`, where a build ends.
* *Symmetry* is used in `attack_safety` alone: the permutation exchanges both processes
  together with their threads. No property of the run names one of them.

### Fairness

`ExecFairSpec` asks weak fairness of the steps a thread takes inside
`execute_with_authorization`: Python runs it to its end, and no step waits for another
thread. Nothing is asked of the lock, the clock or new calls. A call at a locked file
is not stuck: `busy_timeout` ends it, which is the action `Unavailable`. Crashes are
never forced; the properties name them as the only excuse.

### The thread assumption

The runs of the gateway, of attack paths and of execution have one thread per process, and some
theorems assume it (`OneThread`). This is an assumption on the caller, not something the code
ensures: the in-memory set, the history of the limiter and the idempotency store have no lock.
`memory_two_threads` shows the consequence for the set; that a process of one thread is safe
from it is proved and has no run. The same gap exists at `RateLimiter.check_and_record` (between lines 118 and 123) and in the
executors (between `get` and `remember`), and both models have the two steps apart, so that
setting `ProcOf` to one process shows it. What the gateway promises about approvals does not
need the assumption, and is proved without it.

## 4. What is proved

Every theorem is for all values of the constants that satisfy the named ASSUMEs: all sets of
threads, processes, ids, plans, tools, requests, keys, files and releases, and every bound.
A hypothesis beyond that is in the table.

| Module | Theorem | States |
| --- | --- | --- |
| `DurableApprovalStoreProofs` | `TypeCorrect` | `Spec => []TypeOK` |
| | `Conservation` | `Spec => []ConsumptionAccounted` |
| | `SingleUse` | `Spec => []AtMostOnce` |
| | `RowSoundness` | `Spec => []RowsWereApproved` |
| | `RowsPersist` | `Spec => RowsAreForever` |
| | `Refinement` | `Spec => ImplementsConsumeOnce` |
| `MemoryApprovalStoreProofs` | `TypeCorrect` | `Spec => []TypeOK`, given `Parameters` |
| | `SingleUse` | `Spec => []AtMostOncePerLifetime`, given `Parameters`, `OneThread` |
| | `SetIsGrants` | `Spec => []ConsumedIsGranted`, given `Parameters`, `OneThread` |
| `GatewayProofs` | `LimiterTypeCorrect` | `LimiterSpec => []LimiterTypeOK` |
| | `Bounded` | `LimiterSpec => []WindowBound`, given `OneThread` |
| | `Justified` | `LimiterSpec => RefusalJustified`, given `OneThread` |
| | `GatewayTypeCorrect` | `Spec => []TypeOK` |
| | `GatewayKeepsThePromise` | `Spec => Db!ImplementsConsumeOnce /\ Db!RowsAreForever` |
| | `ExecutionsBound` | `Spec => []ExecutionIsBound` |
| | `OneExecution` | `Spec => []OneExecutionPerApproval` |
| | `DenialsSpendNothing` | `Spec => []DenialSpendsNothing` |
| | `QuotaBounds`, `QuotaJustified` | the limiter's two promises, of the gateway, given `OneThread` |
| `ControlledExecutionProofs` | `ExecTypeCorrect` | `ExecSpec => []ExecTypeOK` |
| | `EffectsAuthorized` | `ExecSpec => []EffectsAreAuthorized` |
| | `OneEffect` | `ExecSpec => []OneEffectPerApproval` |
| | `AnswersMatch` | `ExecSpec => []AnswerMatchesRequest`, given `OwnKey` |
| | `WellSpent` | `ExecSpec => []ApprovalIsWellSpent`, given `OwnKey` |
| | `RetriesRepeatNothing` | `ExecSpec => RetryHasNoEffect`, given `OneThread`, `ContractsKept` |
| `ContainmentProofs` | `TypeCorrect` | `Spec => []TypeOK` |
| | `OriginalKept` | `Spec => []OriginalIsKept` |
| | `FreshRollback` | `Spec => []FreshRollbackVerifies`, given `OneAtATime` |
| | `Accounted` | `Spec => []RollbacksAccounted`, given `OneAtATime` |
| | `NoDuplicateActs` | `Spec => DuplicatesDoNotAct`, given `OneAtATime`, `KeysAreOfOneTarget` |
| `AttackPathProofs` | `PathTypeCorrect` | `PathSpec => []PathTypeOK` |
| | `ClassesAreEarned` | `PathSpec => []ClassIsEarned` |
| | `ValidationsAreHarmless` | `PathSpec => []` of `ExecutionIsBound`, `OneExecutionPerApproval`, `DenialSpendsNothing` |
| | `ValidationsKeepTheQuota` | `PathSpec => []WindowBound /\ RefusalJustified`, given `OneThread` |
| `ToolReleaseProofs` | `CatTypeCorrect` | `CatSpec => []CatTypeOK` |
| | `CalmLoadsAreSigned` | `CatSpec => []CalmLoadIsSigned` |
| | `AlarmsHaveCause` | `CatSpec => []AlarmHasCause` |
| | `LedgerTypeCorrect` | `Spec => []TypeOK` |
| | `Readable` | `Spec => []ReadableIsKept` |
| | `RightVerdicts` | `Spec => []VerdictIsRight` |
| | `LedgerRefinement` | `Spec => ImplementsHighWaterMark`, given `OneUpdater` |
| | `ReleaseImplementsBoth` | `ReleaseSpec => CatSpec /\ Spec` |
| | `ReleaseTypeCorrect` | `ReleaseSpec => []ReleaseTypeOK` |
| | `ReleaseIsSafe` | `ReleaseSpec => []` of `ReadableIsKept`, `VerdictIsRight`, `CalmLoadIsSigned`, `AlarmHasCause` |
| | `ReleaseRefinement` | `ReleaseSpec => ImplementsHighWaterMark`, given `OneUpdater` |
| | `VerdictsAreOfTheRelease` | `ReleaseSpec => []VerdictIsOfRelease` |
| `ClusterGraphProofs` | `GraphTypeCorrect` | `Spec => []TypeOK` |
| | `EscalationsAreExact` | `Spec => []EscalationsExact` |
| | `NobodyIsForgotten` | `Spec => []NobodyForgotten` |
| | `GoIsSafeAlways` | `Spec => []GoIsSafe` |
| | `ExposuresAreExact` | `Spec => []ExposureExact` |
| | `MoreHidesNothing` | `Spec => MoreNeverHides` |

The durable store's `TypeOK` and `RowsAreForever` are proved and in no run of their own, and so
are the in-memory store's `TypeOK` and `ConsumedIsGranted`. The hypotheses are about the
callers, and none is void: `OneThread`, `OwnKey` (no two requests of a tool share a key) and
`ContractsKept` (every result keeps the action-result contract) hold in `exec_safety`,
`OneThread` also in `attack_safety`, `OneAtATime` and `KeysAreOfOneTarget` (no two targets
share an idempotency key of one tool and store) in `containment_safety`, and `OneUpdater` in
`release_safety`. `exec_shared_key` shows what happens without `OwnKey`, `memory_two_threads`
without `OneThread`. `Parameters` is what the in-memory store's constants are, written as a
hypothesis of its theorems instead of as an ASSUME; `memory_two_threads` meets it.

### The arguments

**Durable store.** `AtMostOnce` is not inductive: from a state with one grant of an id and no
row of it, an `Insert` succeeds. The strengthening is `ConsumptionAccounted`, which ties the
three places an accepted id can be in (granted, burned, on its way to a caller) to its row,
and makes them exclude one another. `RowsWereApproved` needs that a call at the INSERT
still vouches for its arguments (`CallsAreVouched`): the expiry and the signature were
checked in `Call`, and nothing changes them before the INSERT. The refinement maps
`grants` and `burned` to themselves, `Return` of an accepted call to `Grant` and `Crash` to
`Burn`, and uses `Conservation` to show that what is granted or burned was fresh.

**In-memory store.** `Accounted` says that the id a call is about to add is not in the set yet.
That is where `OneThread` enters: nobody else of the process adds it between lookup and `add`.

**Rate limiter.** `WindowBound` speaks of every window, the code looks at the one that ends now.
`HistoriesAreRight` closes the gap: what `_calls` has forgotten is at least a minute old. `Informed`
says the same at the instant of an attempt, which may be past when the attempt is counted, and that
what it has read is still what is stored, which needs `OneThread`. When an attempt is admitted, a
window that holds it ends within a minute of it, and what else that window holds is in the history
the code has counted.

**Gateway.** A step of the gateway is a step of the limiter and a step of the store, or stutters
in them (`ImplementsLimiter`, `ImplementsStore`), so that all that is proved of the parts holds of
the whole. `SessionsAreBound` says that the store is asked only for a request that has passed every
check, with its own approval and plan; `Granted`, that what was authorized is what the store has
granted, once each, and that it has granted nothing else. With `SingleUse` and `Conservation` the
three theorems about approvals follow. The store's own refinement carries over as it is.

**Attack paths.** A validation is a step of the gateway (`ImplementsGateway`), and so inherits all of
the above. `ClassIsEarned` speaks of the answer alone and is not inductive: `ProbesAreOnTheirWay`
follows a validation through the gateway. `OnItsWay` says that what is decided of it is decided of
its own request, that it never gets as far as the store, and that each reason of a denial was given
by the check it names; the clock may move on, which is why the safety chain is spoken of at some
instant so far.

**Execution.** A step of the execution is a step of the gateway or leaves it alone, and `PermitsOnly`
says what a step of the gateway does to the sessions. `Budget` bounds the effects of a request,
had or pending, by the times it was authorized; with `OneExecution` this is `OneEffect`, for all
keys, retries and crashes. `ResultsFit` says that a result, in hand or remembered, belongs to a
request that was served: with `OwnKey`, to the request that is being answered. `RepeatsKnown` says that what
took effect in a process is remembered, or is about to be by the one thread it has.

**Containment.** `OriginalKept` holds for overlapping calls too: a rollback writes back what it
has read as the original (`UndoesToResting`), so two of them at once, or one across an execution,
write the same. The other two need that calls on one target do not overlap (`OneAtATime`, which
the code leaves to its callers): then what a rollback observed is still so when it acts
(`SeesContained`), and what it restored is still so when it reports (`HasRestored`); `Frame`
shows that the steps of other threads disturb neither. `Accounted` counts with a set of
reporting rollbacks that has at most one member (`OneUndoing`). `DuplicatesDoNotAct` looks at the
instant of the effect, the code at that of the lookup: `Unanswered` says that nothing was
remembered in between. The worker itself remembers only after its effect, and another one
has another target (`OneAtATime`), so another key (`KeysAreOfOneTarget`, which the code
leaves to its callers as well).

**Catalogue.** `Agrees` ties a calm load to the files as they are: what it has seen is there, what it
has still to visit is there too, and once it has compared, the files are what was signed.
`ManifestIsSigned` gives the comparison its meaning, and `DeployIsOnItsWay` carries it through a
deployment. Every step of a deployment and every edit takes the calm of all loads in progress.

**Version ledger.** `VerdictIsRight` is not inductive, since it says nothing of a run that has
loaded and not yet checked: `Informed` adds that what such a run has seen is the marks kept at its
load, which is what `ReadableIsKept` gives at `Load`. It needs no assumption on the updaters. The
refinement needs `OneUpdater`, at most one run with `--update` at a time: then the marks an
updater is about to write are those of its catalogue and of what is still kept (`Current`),
so `Fill` is a `Raise`. The code has no lock that would ensure `OneUpdater`; with two updaters
both invariants above still hold and the refinement does not.

**Release.** `AtTheLedger` says that a run that holds the ledger's marks was handed the versions of
what its own load has read, and that this load has ended; `ParsedIsLoadable`, that what was
parsed can be loaded, so that it has versions. With both, a step of the host is a step of
each component or leaves it alone, all that is proved of the components holds of it, and a verdict
is about what the load returned, which `CalmLoadIsSigned` says is the signed release.

**Cluster graph.** The properties compare the graph with definitions on `read`. `Mirrors` ties the
two: a role or service is in the graph exactly if a manifest of it is in force, and is what that
one says (`RolesMirror`, `ServicesMirror`); bindings, Ingresses and policies are there exactly if
they were read (`ListsMirror`). It is inductive: one more manifest is the last of its object and
puts out of force, of those before it, only the one of the same object. The rest is about the operators: what a rule
matches is what its holder can do, a wildcard stands for all, a role is found under the key its
binding makes of it; and, for `GoIsSafe`, `ExposureExact` and `MoreNeverHides`, that the sets
which are counted are finite, and so empty if they count zero, as many as the services in
force, and no fewer when they have grown.

Assumed are only the named ASSUMEs of the modules: constants have their types, approvals and
requests are records of the right kind, instants and limits are natural numbers, releases can be
loaded, the versions of every directory that loads are among the ledger's `Catalogs`, manifests
have the fields of their kind, no target rests isolated, and `None` is not an ActionResult. TLC
evaluates them in `durable_safety`, `attack_safety`, `exec_safety`, `containment_safety`,
`release_safety` and `graph_analyses`. The in-memory store has `Parameters` for them.

Out of the prover's reach, and left to TLC: liveness and ENABLED; induction over data;
anything about RECURSIVE operators (no module here uses one).

Only model-checked: the two liveness properties, `AuthorizedTakesEffect` and `AuthorizeReturns`,
and that the five properties which a run violates are violated there.

## 5. What is not modelled

* A dictionary key missing from an `Approval`: the contract requires all of them.
* A clock that steps back.
* Gateways with the in-memory store, and `authorize` in two threads of one process: the parts
  are modelled and checked in `MemoryApprovalStore` and `RateLimiter`.
* The availability of the quota: validations and calls that are later denied use it up, which
  the docstring of the limiter states as the intention.
* A retry of a call whose result was malformed: nothing is remembered, so the retry repeats
  the effect. `RetryHasNoEffect` speaks of well-formed results.
* Two threads on one target in `Containment`, two updaters in `release_safety`, two deployments
  at once or an edit during one in `CatalogLoad`.
* What a load that overlaps a deployment returns: it may mix what was verified with what came
  after, since the files are read twice; `CalmLoadIsSigned` says so by its premise.
* `get_tool`, which is a load and a lookup; a target allowlist file that repeats a tool.
* `mark_rolled_back`, a copy with two fields set.
* API groups and resource names of a rule, and the pods a NetworkPolicy selects: the
  analyses do not look at them. Nor do they at the namespace in which a RoleBinding grants a
  ClusterRole: `EscalationsExact` takes a rule without its reach, as the code does, and
  `graph_reach` shows what the docstring of `effective_rules` says against it.
* Which executions deserve GATE_BYPASSED. The docstring of `validate_attack_path` (lines 46-50) and
  the reason at line 85 keep it for an execution without an approval and without a safety
  chain; the code gives it to every allowed execution, the safety chain having been demanded
  of each, and `graph/README.md`, `runbooks/README.md` and a test agree with the code.
  `ClassIsEarned` holds in either reading: the path is not excluded and needs no approval.
* `InvalidLedgerVersion`: the schema of a definition admits no version but three numbers, so the
  versions of a catalogue parse, and so do those a run of the ledger has written. A ledger
  edited by hand could hold another, and the run would raise before it writes.
* JSON Schema validation, evidence, wording of reasons (but for the three words above) and logs.
* The MCP servers (stateless filters), the Cilium client (an interface without
  implementation), the evidence verifier (one comparison), OPA, egress, sandbox,
  Shuffle, runbooks and scripts (configuration for other programs).

## 6. Plan

In order of weight for the system's safety:

1. *(done)* `Approvals`, `ConsumeOnce`, `DurableApprovalStore` and its proofs.
2. *(done)* `MemoryApprovalStore`, `RateLimiter`, `Gateway`, `ControlledExecution`.
3. *(done)* `Containment` and its proofs.
4. *(done)* `VersionLedger`, `HighWaterMark` and their proofs.
5. *(done)* `ClusterGraph`.
6. *(done)* `AttackPath` over `Gateway`.
7. *(done)* `CatalogLoad` and its proofs, `ToolRelease`.
8. *(done)* Proofs for `MemoryApprovalStore`, `RateLimiter`, `Gateway` and `ControlledExecution`.
9. *(done)* Proofs for `AttackPath`, `ToolRelease`, `ClusterGraph` and of `DuplicatesDoNotAct`.
10. *(done)* The reach of a RoleBinding, as the violated run `graph_reach`.
11. A limiter whose clock steps back, and two threads on one target in `Containment`.
