# TLA+ models of the formae Kubernetes plugin

The plugin is a process the formae agent starts and calls: `Create`, `Read`,
`Update`, `Delete`, `Status` and `List` for some fifty Kubernetes resource types
and for Helm releases. The agent polls `Status` with the `RequestID` an operation
returned until it hears of success or failure; it retries some failures by driving
the whole operation again. Several calls may be served at once, the agent may
restart or give up on a call that goes on, and the plugin may be killed at any
point. Helm has no operation controller on the server, so a Helm operation is a
goroutine of this process; the release record in the cluster is at the same time
Helm's lock and the only state of the operation that survives the process. That is
where the program's own hard logic is, and where these models begin.

## The system and what makes each part correct

| part (source) | state | operations | what is hard | what must hold | here |
|---|---|---|---|---|---|
| In-flight registry (`resources/helm/inflight.go`, `flight_lifecycle.go`, `main.go`) | a map from cluster and release to the one operation under way, reader counts, the number of drains | reserve, rejoin, activate, finish, consume an outcome, retain, release, retire, drain | a dozen lock regions entered by callbacks, workers, timers and a graceful stop in any order | one driver per release; an outcome is reported or kept; readers keep their entry; a drain misses no worker | `FlightRegistry`, `ReleaseLock` |
| Helm release provisioner (`resources/helm/release.go`) | none of its own: the record, the registry | Create, Update, Delete, Status, planning, recovery, readiness; Read, List | crashes between Helm's writes, re-driven commands, a Helm CLI beside the plugin, deadlines on work that cannot be interrupted | success means done; recovery rewrites nothing it has not judged; nothing runs twice; commands end | `HelmRelease`; not Read, List, chart loading |
| Credential bridge (`auth_bridge.go`, `callback_budget.go`) and transport (`auth/transport.go`) | a token, the time of the last service, two generations, a queue of one request, a slot | Token (worker), Service (callback), Invalidate, Close; one retry on 401 | the worker waits for callbacks, and callbacks for the worker's record; a 401 or the worker's end during a fetch | no refused token returns; a closed bridge holds nothing; nobody waits for ever | `AuthBridge` |
| Token cache (`auth/cache.go`) | the current token, the refresh under way, a generation | Token, Invalidate | one leader refreshes for all, its caller may be cancelled, an invalidation may race it | a rejected token never returns; waiters are neither failed by another's cancellation nor lost | `TokenCache` |
| Inventory cache (`inventory.go`) | inventories with a time to live, a generation | build outside the lock, store, invalidate | a build overtaken by an operation's end | what a listing uses is not older than the last change made here | `Discovery` |
| Ownership filter (`owners.go`) | answers remembered for one listing | walk up owner references | cut-off walks, cycles, failed lookups, remembered answers | only what a release owns is hidden, and all of it | `Discovery` |
| Typed provisioners and the lifecycle decorator (`prov/*.go`, `resources/<group>/*.go`) | the object in the cluster | apply, patch, read back, delete, status around finalizers | a deleted object lingers; controllers, finalizers and other clients act between two calls; statuses lag behind specs | gone means gone; Success means rolled out | `Objects`, `Provisioners` |
| Namespace (`core/namespace.go`) | the object, its condition, its deletion time | clearing the finalizers of a stuck namespace | what is read once is acted on later | only a stuck namespace loses its finalizers, and it does | `Objects` |
| Custom resources (`custom/customresource.go`) | the object, the definition of its kind | wait for the definition, remember and reset the mapping | definitions come and go | | `Objects` |
| Routing and version gates (`k8s.go`, `k8sversion`, `transport/client.go`) | the version and the kinds a client remembers | dispatch, refusal of what the cluster does not have, collapse of Helm's objects | what is remembered is older than the cluster | | `Objects`, `Discovery` |
| Client cache (`transport/cache.go`) | clients by identity | get or build | builders race; a client expires under a callback | | what sharing a client means, in `AuthBridge` and `Objects` |
| Configuration, identity providers, kubeconfig and registry credentials, schema and tools | none that outlives a call | parsing, one request each | | | not modelled |

Components interact in four ways. The agent calls the provisioners. A Helm
callback reserves its release in the registry, starts a worker and returns; the
worker publishes its end in the registry; polls retain the entry while they look.
The worker asks the bridge for credentials and the callbacks serve the bridge
through the token cache. Workers invalidate the inventory, which listings fill.

## Modules

| module | what it is |
|---|---|
| `FlightRegistry` | the registry with everything that enters it: callbacks, workers, timers, drains |
| `ReleaseLock` | what the registry promises: a lock on each release and a seal on all of them |
| `FlightRegistryProofs` | theorems about `FlightRegistry`, and that it implements `ReleaseLock` |
| `MCFlightRegistry` | model values and symmetry for TLC |
| `AuthBridge` | the bridge, the requests of a worker over it, the callbacks that serve it |
| `AuthBridgeProofs` | theorems about `AuthBridge` |
| `Discovery` | a listing beside Helm: the inventory cache, and the two filters that hide what releases own |
| `DiscoveryProofs` | theorems about the inventory cache and the filters in `Discovery` |
| `Provisioners` | the typed provisioners: a record of what distinguishes each, and its status rule |
| `Objects` | one object under one provisioner: agent, routing, decorator, handlers, API server, controllers |
| `ObjectsProofs` | theorems about `Objects` |
| `HelmRelease` | one release: agent, callbacks, worker, Helm, record, objects, CLI, deaths |
| `ReleasePromise` | what the commands on a release promise the agent, without records, workers or callbacks |
| `HelmReleaseProofs` | theorems about `HelmRelease` that hold beside any other tool: types, the owner of the entry, the worker's end |
| `HelmRecoveryProofs` | what the record says and who may write it, when no other tool interferes |
| `HelmSuccessProofs` | what the agent may conclude from a success: without other tools, where `HelmRelease` implements `ReleasePromise`, and beside one operation of another tool |
| `MCHelmRelease` | model values and symmetry for TLC |
| `TokenCache` | the cache of a bearer token: callers, the leader of a refresh, invalidation, the clock |
| `TokenCacheProofs` | theorems about `TokenCache` |
| `MCAuthBridge`, `MCDiscovery`, `MCObjects`, `MCTokenCache` | model values for TLC |

### FlightRegistry

One action is one critical section under `flightMu` (or one step of a callback
that ends before the next one). `flights[k]` is the map entry: its generation, a
`phase` that joins `preparing`, `finished` and `outcome`, `stopping`,
`statusReaders`, `reported` and whether `cancel` is set. A callback is a member of
`Calls` issued once with the arguments `arg[c]` (kind, key, fingerprint of the
desired state, identity and binding); as it draws one uuid at most, its name is
also the generation. `pc[c]` is where it is between two lock regions, `held[c]`
the generation it retains as a reader, `seen[c]` what it carries out of a region
and uses in a later one (the stale copies the code works with), `answer[c]` what
it returns. `workers[c]` is the goroutine `c` started. What a callback learns
outside the lock, from the record, the chart or the credential service, is a
nondeterministic choice. A drain is a member of `Drains`: it marks every entry and
takes the cancel functions in one region (`DrainStart`), calls them outside it,
polls, and gives up or succeeds; its deferred decrement is a step of its own.

### HelmRelease

Here the registry has the single entry `flight`, and the decisions are made from
real data: `rec` is the latest revision in Helm's storage (status, revision,
ownership label, desired state, and whether it is older than twice the release's
timeout, the only thing the code asks the clock about a record), `live` the desired
state each object comes from, `hooksRan` the revision whose post-deploy hooks ran.
`helm["plugin"]` and `helm["cli"]` are Helm operations: take the record, apply the
objects one at a time, run the hooks, write the record last and return after that,
or fail at any point before it.
`call[c]` is a callback being served, `host` the agent with its command, its
RequestID and whether it has recorded the resource. A desired state is a chart
version with values: `Pinned` ones name their version explicitly (without which
nothing counts as settled), `Hooked` ones have post-deploy hooks.

`Plan` is `submit` from its reading of the record to the choice of operation, with
`PlanSubmit` for `planSubmit`; `Judge` and `Rewrite` are the two halves of
`recoverAbandoned`, `RewriteFails` and `RewriteErrs` its error return (the revision is
gone; the write is refused, or done and its answer lost); the status path is
`AcquireFlight`, `StatusVerdict`, `AcquireRecovery`, `ReadRecord`, `ReadAbandoned`,
`Reconcile`, with `InstallReplies` and `DeleteReply` for `installStatus` and `deleteStatus`. Helm,
the agent, the CLI and process death are external and do what the code and its
comments rely on.

`ReleasePromise` says what the agent gets without saying how: the release is in one of
its desired states or in between, moves only while something it was asked for is not
over and only to what it was asked for, is there when the agent is told so, and a
success ends all that was asked for before. Under the mapping in `HelmRelease` the state
is `At`, the desired states the record, the objects and the hooks agree on (none while
Helm is at work); `Owed` is what the agent waits for, what the worker does and what
the callbacks were sent to do; `patient` is that the agent has not restarted, which is
the one way in which it leaves a call behind. Everything between, the record's
intermediate states, the registry, deadlines, retirements, crashes and recovery, is a
stutter or a step of `Work`.

### TokenCache

One action is one region under `c.mu`; the provider's answer is a step between two
of them. A member of `Calls` is one call of `Token`: `call[c].gen` and `prev` are
the leader's copies of `generation` and `current` (`cache.go:74`), `got` is what the
provider answered or what the call returns. `refreshing` names the leader whose
channel is in place; closing the channel (`Woken`) sends those who wait back to the
top of the loop. `Invalidate` comes from outside, on a 401 or on behalf of a
worker; so does the end of a caller's context, at any point. The provider errs, or
gives any token with any life in `Lives`, or repeats the one it gave. Times are in
seconds and the arithmetic of `cache.go:94-113` is the code's. Three fields of an
entry are history for the properties: `born` (the generation in which it was asked
for), `first` (when the token with this expiry was first seen) and `at` (when the
provider was last asked).

### AuthBridge

One action is one region under `b.mu`, or one step outside it: a fetch, the
invalidation of the source. `bridge` is the `authBridge`; `servicing` is the channel
of one element that admits one callback at a time; `call[c]` is a callback, with
Service's copy of the generation (`gen`) and what it fetched (`got`); `req[r]` is a
request of the worker in `TokenTransport.RoundTrip`, with the token it carries and
the one its first attempt carried. A token is known by the number of its issue. The
token cache under a callback is what `TokenCache` shows it to be, `cache[k]` of the
API client `k` the callback was given. The callback that started the worker
(`Starter`) begins in `awaitRecordedWithService`; the others are polls.

### Discovery

`entry` and `generation` are `invCache` and `invGeneration`, one region under
`invMu` each; `rendered` is what the manifests of all releases name. A `List` call
goes from the objects its provisioner listed to an inventory (cached, or built and
stored) to the filters. `CollapseHelmOwned` hides what the manifests name and sets up
the walks of the others (`todo`). A walk of `owners.go:92` is one action for each node it
comes to: `at` is that node and `chain` the ones looked up before it, and the actions
are the exits of the code's loop in its order: the memo knows the node (`Recall`), the
walk has been here (`MeetItself`), the lookup fails (`LookUpFails`), there is no owner,
the owner is a release's, or the limit is reached (`LookUp`, which otherwise goes on).
`Answered` is `remember`. The objects are taken in any order. A node keeps the namespace
of the object its walk began at, as in the code. `ver`, `settled` and `floor` are
history: which change of the releases an inventory shows, and the last one that was
invalidated when the call began; `lost` are the objects whose own walk failed.

### Objects and Provisioners

A provisioner's file is the same program each time: apply, reconcile labels, get,
delete, and a status rule. `Provisioners` has a record per provisioner with what
differs (whether a namespace is asked for, how a delete propagates, whether the
payload or the whole kind is gated by the version, whether Update gets the object
again, Kubernetes' own finalizers), and an operator per status rule. The record
together with the shared actions of `Objects` stands for the handlers of the file,
from Create to Status; that is what its lines in `PROJECT.json` name.

In `Objects` every API call of a handler is one action, so that controllers, other
clients, finalizers and the clock act between any two: `call.pc` is `called`, `patch`
(before `ReconcileMetadata`), `reread`, `readback` (before the decorator's look at
what it deleted) or `finalize` (before the forced write). `obj` is the object in the API
server with a `uid` that tells it from one created later under its name; of a
workload it has the pods of the spec the controller saw last (`new`) and of earlier
ones (`old`), and how many are ready. `plan` is the rollout strategy. `known` is the
version, or the mapping of a custom resource's kind, that the API client remembers;
`served` is what the cluster has. An apply is `Apply`, a delete `Marked`: both belong
to the API server, as `ControllerSees`, `RollOut`, `ConditionWritten`, `PhaseMoves` and
`Drained` belong to Kubernetes, and are marked external. `ResetMapper` is the
reset of that memo by any callback of the same client. The agent starts a command, polls `Status` while
it is told of progress, and after a delete may take not-found for done.

## Runs

| run | what it asks | bounds |
|---|---|---|
| `registry_callbacks` | exclusion, reader retention and counting, delivery and matching of outcomes | 3 callbacks of any kind, 1 release, 2 desired states, 2 identities |
| `registry_drain` | a successful drain left nothing running; nothing starts behind it; the registry implements `ReleaseLock` | 2 callbacks, 2 releases, 2 overlapping drains |
| `registry_liveness` | callbacks return, entries leave, drains end | 2 callbacks, 1 drain |
| `helm_crash` | success is true and comes after the worker; recovery is alone; nothing is repeated; deployed means done; the provisioner implements `ReleasePromise` | 2 commands, 2 objects, charts with hooks, a crash anywhere, an agent restart, 2 callbacks at once, an agent that may be slow |
| `helm_cli` | another tool's revision is not our success as long as neither plugin nor agent dies | 2 commands, 2 desired states, one CLI operation, a crash and a transient failure anywhere |
| `helm_progress` | every command ends | 2 commands, one callback at a time, one crash, restart or transient failure anywhere |
| `token_cache` | no rejected or ending token is returned, one refresh at a time, nobody fails for somebody else, tokens are renewed in time, every call returns | 3 calls, 1 token, 1 invalidation, cancellations and failures anywhere, lives of 15 s and 10 min |
| `auth_bridge` | no refused token comes back, a retry is fresh, a closed bridge is empty, the worker's end is no error, every request ends | 2 requests, 2 callbacks (one starts the worker, both may poll), 1 client, 2 tokens of life 1, a clock of 2 |
| `discovery` | a listing sees the plugin's own changes; what is hidden is owned; what is owned is hidden | one listing after another, 1 cached key and uncached calls, 1 change of the releases, every owner graph over 3 kinds and 2 names, depth 2, any order, any failed lookup |
| `objects` | gone is gone, Success is rolled out, only the stuck are forced, a stuck namespace goes | all 36 provisioners, 2 replicas, every hold of a rollout, 3 commands, 1 act of another client, 1 failed call |
| `helm_dropped`, `rollout_surge` | what the source's comments say and the code does not do (see Findings) | the least that shows it |

Why the bounds suffice. Three callbacks are a driver, a re-drive and a poll, the
most parties the registry's rules tell apart on one release; every rule is about
one key, so a second key is there only for the drain, which spans keys, and two
drains are what it takes to see one end while the other relies on the fence. In
`HelmRelease` two commands give every predecessor an operation can meet (none,
failed, deployed, other state, being deleted), two objects tell "some applied" from
"all applied", and two callbacks are a re-drive beside what it repeats. Revisions are not
bounded: commands and troubles bound them. `MaxGen` cuts nothing off, since there is
always a name nobody refers to (`TypeOK`, and the theorem `TypesHold`); a generation
nobody refers to any more is used again, as a uuid's only property is to be
different. `MaxTrouble` bounds crashes, restarts and transient
failures together. In `TokenCache` three calls are a leader, one that waits for it
and one that comes after an invalidation or finds the token the first two left;
`Instants` are the moments that matter in the life of a ten-minute token (its
beginning, after it is due at 480 s, and a recheck later), and a life of 15 s lies
below the minimum margin and ends inside the safety margin of the next instant. The
margins are the code's (10, 10 and 60 seconds). In `AuthBridge` two requests are one
that is refused and one that uses or asks for the token beside it, two callbacks are
one that fetches and one that waits for the slot or comes next, two tokens are the
refused and the new one, and the window and the deadline coincide at one and two
units, so starvation, expiry and the deadline all occur. In `Discovery` an owner graph
over two names has chains longer than the depth limit (2, where the code has 4), cycles,
and owners two objects share, which are the cases the memo tells apart; a root is listed
too, as only a walk that begins on a cycle meets itself. One change of the releases may
overtake any build, which is all that a stale store needs; for any number of listings,
targets and changes there are the theorems. There is one namespace: with two,
`HiddenIsOwned` fails as described below. In `Objects` two replicas tell some pods from all, three
commands are a create, an update and a delete of what another client may have
replaced. Deadlock is checked where the system can always go on (`auth_bridge`,
`discovery`); elsewhere commands, callbacks or drains are used up in the end, and
nothing is left to do.

Fairness. In `FlightRegistry` a callback that was issued runs on, as every wait in
it is bounded (`recordTimeout`, the callback's context, the action deadline), and
timers and drains run on. Workers are not assumed to end: a legacy uninstall
cannot be interrupted. In `HelmRelease` the agent polls, callbacks run on, the
worker's Helm operation proceeds (Helm's own timeout bounds it), the clock moves.
Nothing is assumed of the CLI, of faults, of deadlines or of deaths. In `TokenCache`
a call runs on and the provider answers, as every request has a context of at most
thirty seconds (`runtime_auth.go:57`); nothing is assumed of invalidations,
cancellations or the clock. In `AuthBridge` the worker's requests and a callback
inside Service run on, a callback that waits takes a request that is queued, and a
callback blocked on the slot gets it: the slot is a Go channel, which serves blocked
senders in turn, hence strong fairness of `Acquire`. Neither the clock nor a further
poll is assumed, nor that the callback goes on waiting: `RequestsEnd` asks for an
answer only while it does, or when the deadline has passed. In `Objects` a callback
that has begun ends, the agent polls while it is told of progress, and the two
minutes of `terminatingGracePeriod` pass; nothing is assumed of controllers,
finalizers or other clients.

`SlowAgent` says whether the agent may leave a poll for longer than the five
minutes an outcome is retained (`flight_lifecycle.go:75-78`). With a slow agent a
failed outcome can be forgotten before it is asked for and the poll is answered
from the record, which may be another tool's, so `helm_cli` excludes it.

## Findings

Each is a run TLC must find violated, with the line it contradicts in
`PROJECT.json`.

- **`helm_dropped`**: recovery cannot tell the objects of the previous revision from
  those of the abandoned one. An upgrade killed after its record was written and
  before anything was applied is recorded as deployed, then found settled.
- **`rollout_surge`**: a Deployment's rule counts ready pods of any revision. With a
  surge, one of two new pods is not ready, an old one makes up the count, and the update
  is answered with Success while the rollout is incomplete. A DaemonSet with `maxSurge`
  has the same rule.

## Observations

Met while modelling; the models do what the code does, and no run claims otherwise.

Helm:

- The switch in `submit` has no case for `actionBlocked`; a release another tool left
  pending goes on like an install, which Helm then refuses (`release.go:732`).
- A poll with no flight recovers any pending release at the expected revision, also
  one that a running Helm CLI is working on.
- A poll that finds an older revision than it waits for is answered with progress,
  whether or not anybody is left to write the awaited one (`release.go:1575-1578`).
  `submit` means to return only when the record exists or Helm has failed before it
  (`release.go:870`), but a failure to serve the worker's credentials returns progress
  earlier (`flight_lifecycle.go:236-238`). If the plugin dies then, no poll reaches a
  verdict and `CommandsEnd` fails. It takes an upgrade (after an install that failed and
  left revision 1), that failure and a crash: `HelmProgress.cfg` with `MaxTrouble = 2` and
  `MaxRestart = 0` shows it. An agent that restarts has the same without a death: the
  abandoned callback of a command it drives twice can consume the failure of a worker
  that never recorded its revision (`Slots = {1, 2}`). `helm_progress` allows one trouble
  and serves one callback at a time, and there every command ends.
- A recovery whose write fails answers with an error although the verdict may be on
  record; the next command finds it there.
- After a crash, a deployed release of another tool at the revision a RequestID names
  is reported as the success of the agent's command. `SuccessIsOurs` is therefore
  stated for commands during which neither plugin nor agent died.
- A poll that is answered from the record compares the revision and does not ask who
  made it. Another tool that removes the release and installs it anew begins again at
  revision 1, which is then taken for the agent's own: with two CLI operations
  (`MaxCli = 2`) `SuccessIsOurs` fails. `helm_cli` allows one.
- One operation of another tool is enough when the agent does the rest: after a create
  (revision 1) the tool records its upgrade (revision 2) and applies; the agent deletes
  the release meanwhile, creates it again (revision 1) and updates it (revision 2). The
  tool's last write names its release by the same number and lands on the agent's
  record, and the poll, which compares numbers, reports another tool's state as the
  update's success. TLC finds it with `MaxCommands = 4` and no trouble at all. The theorem
  `SuccessIsTheAgents` therefore assumes that no removal by the plugin falls between
  that tool's first write and its last.
- A create over the plugin's own failed install becomes an upgrade, whose polls do
  not withhold the NativeID (`release.go:836`).

Credentials: the client cache's entries live ten minutes. Two callbacks on either
side of an expiry hold two clients, hence two token caches, and the bridge tells only
the one that serves first of a 401: the other installs the refused token again. With
two clients `RefusedStaysOut` and `RetryIsFresh` fail; run and theorems assume one.

Discovery:

- Namespaced objects are indexed in the empty namespace too (`inventory.go:228-234`),
  and an owner is looked up there as well (`owners.go:146`), so that an owner of the
  same kind and name in another namespace passes for the release's and hides the
  object.
- A walk that was cut off by the depth limit is remembered as "not owned" for every node
  on it, also for those near enough to be answered otherwise; `OwnedIsHidden` excepts
  listings with such a chain.
- The worker invalidates the inventory after its outcome was published
  (`release.go:856-868`), so a listing between the two may use the older one:
  `OwnWritesSeen` speaks of listings after the invalidation.

Objects:

- The failure conditions of a Deployment are read before the generation gate, so an
  update that repairs a stuck rollout is answered with the failure of the one
  before; a ReplicaSet has no gate.
- A claim in phase `Lost` reads as not found, so a delete of it is answered with
  Success while it is still there.
- A version that is remembered lets a delete of a kind that the cluster has come to
  serve be answered with Success, and a poll with not found, for up to ten minutes.
- Create over an object that is being deleted, applied again, is answered with
  Success. Update answers with the object as it was before `ReconcileMetadata`
  patched it, except for a namespace.
- A custom resource whose definition is gone is answered with an error by Read and
  Delete, not with not-found. `isEstablishRetryable` names cases in its comment that
  it does not test.
- A Job's Update does not check the payload against the version, as its Create does.
- A poll of any namespace that somebody else deleted more than two minutes ago
  escalates too.

## Proofs

`FlightRegistryProofs` proves, for any finite set of callbacks, any number of
drains, and any keys, desired states and identities:

- `TypeCorrectness`, `ConsistencyHolds`, `ReadersAreCounted`, `ReleasesAreExclusive`,
  `ReadersAreSafe` from the inductive invariant `IInv`: types, `Consistency` (each
  entry agrees with the callback and the worker behind it, and each of those finds
  the entry it relies on), `ReadersCounted` (the count is the cardinality of the
  readers) and `DrainsCounted` (`activeDrains` is the number of drains under way).
  `ReleaseExclusion` alone is not inductive: nothing in it says that a worker's
  entry still carries the worker's generation, which is what stops the next
  reservation. `Consistency` in turn needs the reader count, since an entry is
  removed when the count is zero and must not be while somebody reads.
- `DrainIsSound`, `DrainCancelsWorkers`, `DrainFences` from `DInv`, which adds what a
  drain knows at each of its stages: everything it has not collected is gone, what it
  has taken is cancelled or about to be, and no entry without `stopping` exists
  after the sweep.
- `VerdictsAreFinal`: a poll passes on a terminal reading of the record only when
  the worker has ended.
- `CallbacksHearOfTheirOwn`, from `WInv`, which says of the generation a callback retains
  what `OwnWorkOnly` says of the one it answers with: the comparison is made when the
  entry is retained, the answer given steps later, when the entry could have changed
  hands but for `Consistency`.
- `OutcomesAreKept`, from `OInv`. What the property says of one step depends on the past: the
  last reader deletes an entry marked `reported`, so whoever marked it must have told
  the outcome or been its timer (`ReportedTold`), and nobody may take back what it told
  (`TellsOnce`: a callback answers once, and one that consumes a failure is returning it).
- `RegistryIsALock`: the registry implements `ReleaseLock` under the mapping that
  sends a release to the callbacks driving it: initial states map to initial
  states, and every step to `Take`, `Leave`, `Stop` or a stutter.

The steps are proved one action at a time; an action touches one key, and the
lemmas `LocalStep`, `ReportStep` and `DriversStep` carry every other key over. The
assumptions are that `Calls` and `Drains` are finite and `NoCall` is not a callback.

`TokenCacheProofs` proves, for any number of calls, any tokens and lives and any
margins:

- `TokensAreFenced`, `RefreshesAreAlone`, `CacheTypes` from `IInv`: a cached token is
  of the present generation, and a leader's copy of `current` is still what is cached
  as long as its copy of the generation is the present one, while after an
  invalidation nothing is cached at all until the leader settles (`CallOK`). The
  second half is what makes it safe to fall back to the copy after a failed
  refresh.
- `TokensAreLive`, `LiveCallsAreServed`, `TokensAreChecked`, properties of the steps in
  which a call ends, from the same invariant and two lemmas that say how a call may
  come to be served or to fail. `TokensAreChecked` also needs `NextCheckInTime`: the
  time of the next check is soon, or leaves both margins.

The assumptions are that `Nothing` is neither a call nor a token, that the times
are natural numbers and that `Recheck` is not zero.

`AuthBridgeProofs` proves, for any number of requests, callbacks and clients, and any
lives and times, `BridgeTypes`, `ClosedBridgesAreEmpty` and `EndsAreNoErrors`, and, for one
client, `RefusedTokensStayOut` and `RetriesAreFresh`. Its `IInv` has three parts beside the
types: `Issued` (a token that is anywhere was issued, so a new one is none of the
refused), `HolderOK` (whoever holds the slot began in the generation the source was
told of) and `Fenced`: a refused token is in the callbacks' cache only as long as the
source is behind the bridge (`sourceGen < gen`) or is being told, and a refused token
that was already fetched will not pass the generation check. `RefusedStaysOut` alone
says nothing of what is in the cache or on its way.

`ObjectsProofs` proves, for every provisioner, any number of replicas and any number of
commands, of acts of other clients and of failing calls, `ObjectTypes`, `GoneIsTold` and
`ForceIsForTheStuck`, and, where no rollout has a surge, `SuccessWithoutSurge`. `IInv` says that
the object is well formed and its pods fit the plan (`Pods`), what a callback knows of
it between two API calls (`CallOK`: what is read back after a delete is being deleted or
is another object; what is to be forced was seen stuck), and that the last answer is
true (`Truthful`). Truth is stable because of how objects evolve (`Evolves`): what is gone
comes back with a higher `uid`, and a deletion is never taken back; `TruthStays` is that
lemma, and every step is then a bystander or an answer that is true when it is given.
`SuccessLands` is the arithmetic of the three workload rules, which fails with a surge,
as `rollout_surge` shows.

The assumptions are those on the constants: times are natural numbers, the allowance
covers a window, `Replicas` is positive, `Managed` are provisioners.

`DiscoveryProofs` proves three properties for any number of listings, targets, objects and
changes, any owner graph and any depth limit. For `OwnWritesAreSeen`: `OwnWritesSeen` says
nothing of the entries and of builds that are yet to be stored; its `IInv` does: an entry is at least as new as the last change that was
invalidated (`EntryOK`), and so is a build whose generation is still the present one,
while a build that was overtaken may be old and is not stored (`CallOK`).

For the filters, `HiddenIsOwned` speaks of what is hidden and `OwnedIsHidden` of the end
of the walks; what lies between is in `FInv`. A walk has followed the owners of the
object it began at, each of its nodes leads to the next, and none is a release's
(`WalkOK`). What the memo remembers as owned leads to a release; what it remembers as not
owned does not, unless some listed object has its release further up than the limit
(`MemoOK`). When a walk ends without an answer of "owned", the nodes it followed are a set
closed under owners, or lead to a node remembered as not owned: that is why a cycle and a
root may be remembered, and why a chain that was cut off may not, on which `OwnedIsHidden`
is silent. And what is neither hidden, lost nor still to be walked from is not owned
(`KeptOK`). As the walk is a sequence of steps and "owned" is stated by closed sets rather
than by recursion, no induction over the data is needed. `OwnedAreHidden` holds in any
number of namespaces; `HiddenAreOwned` assumes one, and `HiddenHaveNamesakes` is what
remains with several: somewhere above what is hidden is an object of the kind and name of
one in a manifest.

The three Helm modules are one argument in four layers, a refinement on top of them and
one theorem beside them, for any number of callbacks, desired states, objects, commands
and faults.

- `HelmReleaseProofs`: `IInv` is `Shape` (types) and `Ownership`: who owns the entry finds it
  preparing under its own generation and is alone; a reader finds the operation it
  retains and is among its readers; the entry of one that waits for the record, if it is
  still its own, has begun; Helm runs for the plugin exactly while the entry says
  `running`; and what callbacks were sent and the agent waits for has the form it should.
  From it follow `TypesHold` and `SuccessAwaitsTheWorker`. Nothing is assumed of the CLI,
  crashes or restarts: they may happen any number of times. `NamesLast` shows that a new
  generation is one nobody refers to.
- `HelmRecoveryProofs`: `AInv` adds what the record means. The worker's step tells which
  record it left and which objects it has applied (`WorkerOK`); without a record nothing
  of the release exists, every record is formae's, and an operation that ended well
  left what it should (`RecordOK`); the record a recovering callback has read is still
  the one it writes back, and the release a submit has planned for is still the one it
  planned for (`JudgedOK`), since each owns the entry and no worker runs. Hence
  `DeployedIsDone`, `RecoveriesAreAlone` and `WorkIsNotRepeated`.
- `HelmSuccessProofs`: `BInv` adds that a revision number in use names one desired state: the
  worker's, the entry's, the waiting callback's and the record's agree whenever the
  numbers do. `SuccessIsAchieved` follows, for any number of crashes and restarts: after
  a delete nothing is left; after a create or an update the release is deployed,
  formae's, every object exists, and with hooks all is of that very revision. What
  `BInv` cannot say is that the revision is the one this command asked for. `LInv` says
  it of an agent that does not restart: it waits for every callback there is, a submit
  that waits for the record finds its own entry, its RequestID names the entry, or
  afterwards the record, of the state it wants, and a deployed record is in force.
  `SuccessHolds` is then `SuccessIsLive` itself.
- `PromiseIsKept`, also in `HelmSuccessProofs`: under `LInv` the initial states of
  `HelmRelease` are initial states of `ReleasePromise`, and every step is one of its steps or
  a stutter. Helm's steps are `Work`, as the worker's desired state is owed; a retired or
  failed command owes less than before; and when success is told, `LInv` leaves no worker
  and no other callback, so that nothing is owed any more. `SuccessStands` is what the agent
  gains: what a success reported stays so until its next command.
- `SuccessIsTheAgents` is `SuccessIsOurs` beside one operation of another tool, which
  begins at any time and takes as long as it likes. The layers above do not help, as the
  record may be the other tool's at any moment; the argument, `OInv`, is `IInv` and a
  second account of the record. The tool's own record lasts while it writes, and no
  other has its number (`CliOK`). As long as the tool has not begun, all is as if it did
  not exist; once it has, it takes no record any more (`CliSpent`). So an operation finds
  what it was planned for, or the tool has come first and is done with taking records
  (`Clear`); the worker's record is its own until its last write (`Writing`); and what it
  wrote under the flight's number stays true (`Lasting`). A poll may indeed read the
  tool's revision under the number of the agent's, namely before the agent's worker has
  begun; but then the worker either is refused or goes on to the next number and records
  the agent's state there (`Overtaken`), so that the success told later is true of the
  record at that time, which is why `SuccessIsOurs` speaks of two moments.

Hypotheses. `HelmRecoveryProofs` and, but for its last theorem, `HelmSuccessProofs` assume
`MaxCli = 0`: another tool may write what it likes, and the properties are false beside it.
`SuccessIsTheAgents` assumes `MaxCli \in {0, 1}`, `SlowAgent = FALSE` (an outcome that is
forgotten before the poll leaves only the record) and `[][Spares]_vars` (see Observations:
without it the property is false). `SuccessHolds`, `PollsNameTheWanted`, `PromiseIsKept` and
`SuccessStands` also assume `MaxRestart = 0`, because a restarted agent leaves
callbacks behind that drive an earlier command, and enough of these can delete and
install again what the present command polls for at revision 1; and `NeverConfirmed`,
that is that every chart has hooks or the plugin does not crash, because otherwise
recovery may record an upgrade that applied nothing as deployed (the finding
`helm_dropped`). One restart beside crashes is what `helm_crash` checks of `SuccessIsLive`.
The assumptions on the constants: `Slots` is finite and 0 is no slot; `MaxGen` is more
than `2 * Cardinality(Slots) + 2`, which is what leaves a free name when every callback
refers to two generations and agent and entry to one each, and stands for the fact that
uuids do not run out.

Only model-checked: every liveness property (fairness and `ENABLED` are beyond the
prover); `SuccessIsLive` and `ImplementsReleasePromise` across an agent's restart; and
`SuccessIsOurs` where the plugin removes the release while the other tool is at work
(`helm_cli`, which does not exclude it, has too few commands for the case above).

## Not modelled, and why

- Helm's own goroutine may outlive `RunWithContext` when its context is cancelled;
  that is inside Helm. The models take the return of the action for the end of the
  work.
- Atomic installs with their rollback, the pruning of the history at ten revisions,
  chart loading and choice, `Read` and `List` of releases.
- In `FlightRegistry` and `HelmRelease` the inside of the credential bridge: a service
  call succeeds, fails or fails transiently there; the bridge is `AuthBridge`.
- The readiness of objects is up to the cluster: judged ready or not at any poll.
- `List` and `Read` of the typed provisioners, the conversion of live objects to
  properties, and the fields of a payload: sequential code, tested object by object.
  Only what a listing hides is in `Discovery`.
- A rollout's strategy is fixed for a behaviour of `Objects`; a user who changes it in an
  update is not modelled.
- The cache of API clients is two lock regions around one build; only what it means to
  share a client, or not to, is modelled.
- Configuration parsing, the requests to cloud token endpoints, registry credentials,
  the schema and the tools: no state that outlives a call.

Where a definition says less than the code, and why nothing turns on it:

- `AuthBridge.Fetch`: every issue of a token has a number of its own. A provider may
  repeat the refused token after an invalidation (`cache.go:99`); that the bridge then
  holds it again is the provider's doing.
- `AuthBridge.Returned`: the error the starter gets from a closed bridge ends the call;
  in the code `progressAfterFlightError` turns it into progress or the outcome
  (`flight_lifecycle.go:220-239`), which ends the call too. `HelmRelease` has it
  (`AwaitFails`).
- `AuthBridge.Observe`: the lookup of the entry, which may be gone or another's
  (`flight_lifecycle.go:128-132`), is that the bridge is closed.
- `TokenCache.SettleReuse`: no cancellation falls between `cache.go:110` and
  `cache.go:124`, where the code returns the caller's own error in place of the token,
  to a caller that is gone.
- `Discovery.WorkerWrites`: one worker writes at a time, while those of several releases
  may run together (`release.go:856-868`). Each invalidates the whole inventory when it
  is done, so that the last one's invalidation is all that counts for a later listing.
- `HelmRelease.HelmRecords` and the other steps of Helm are Helm's own; the plugin's part
  is the choice of the operation and its label (`release.go:952-991`).

## Plan

1. `SuccessIsLive` and `ReleasePromise` proved for an agent that restarts, under a bound on
   the callbacks it leaves behind.
2. Atomic installs with their rollback.
3. Read and List of releases and of custom resources.
