# Karpenter provider for DigitalOcean: TLA+ specifications and proofs

The provider lets Karpenter run on DigitalOcean Kubernetes (DOKS). Every
NodeClaim becomes one DOKS node pool with one node. This directory has TLA+
models of the parts of the provider that keep state or share it, TLC
configurations that check them on small instances, and proofs, checked by TLAPS,
that the main safety properties hold for all instances.

Paths below are relative to the repository.

## 1. Inventory

| Component | State | Operations | Talks to |
|---|---|---|---|
| Instance provider, `pkg/providers/instance` | none of its own; each `Create` is a goroutine's stack (pool ID, attempt) | `Create` (create pool, poll for the droplet, clean up, clear taints), `Delete`, `Get`, `List` | DOKS through godo |
| Cloud provider, `pkg/cloudprovider` | none; what it returns is stored in the NodeClaim (provider ID, annotations, labels) | `Create`, `Delete`, `Get`, `List`, `IsDrifted`, `GetInstanceTypes`, the filter and order of instance types | called by Karpenter's lifecycle, disruption and provisioning controllers; calls the providers |
| Garbage collector, `pkg/controllers/nodeclaim` | the work queue and informer cache that controller-runtime keeps for it | `Reconcile`: list pools, list NodeClaims, delete the difference | informer cache, instance provider |
| Node class controller, `pkg/controllers/nodeclass` | conditions in the DONodeClass's status | `Reconcile`, `setCondition` | informer cache, API server, region provider |
| Region provider, `pkg/providers/region` | map of regions under an RWMutex, filled once | `List`, `IsAvailable` | DigitalOcean's Regions API |
| Instance type provider, `pkg/providers/instancetype` | slice of instance types under an RWMutex, filled once | `List`, `fetchInstanceTypes`, `filterByRegion` | Sizes and Options API, pricing |
| Pricing provider, `pkg/providers/pricing` | map of prices under an RWMutex | `InstanceTypePrice`, `LivePricing` (called once, at the start) | Sizes API |
| Load balancer provider | none | pass-through | never called |
| Operator and main | wiring | `NewOperator`, `NewControllers` | everything |
| DOKS (external) | the cluster's node pools | create, get, list, update, delete | provisions and removes droplets on its own |

Karpenter's own controllers (external) call the cloud provider. One goroutine at a
time works for a NodeClaim, but those of different NodeClaims, the garbage
collector and DOKS run side by side, and they meet only in the node pools and in the
NodeClaims.

What is hard here:

* `Create` is a sequence of API calls that takes minutes. While it polls, its
  pool has a droplet but no NodeClaim shows the droplet's ID yet. The
  garbage collector runs meanwhile and decides by that ID.
* The collector reads pools from the API and NodeClaims from a cache that is
  behind. What it decided is carried out after both have changed.
* Every call can fail with and without effect, and the process can stop
  between any two. Nothing is persisted but NodeClaims and pools.
* The clean-up of a failed `Create` uses the context that may have made it fail.
* Work is started by events: a collector pass by NodeClaim events, a node class
  reconcile by DONodeClass events, including those of its own writes.
* Caches filled once (regions, sizes, prices) outlive what they were filled from.

What makes each part correct:

* Instance and cloud provider: `Create` returns; a failed one leaves no pool; a
  claim is finalized only when its pool is gone; deletion completes; no call
  made for one claim touches the pool of another, or a pool that is not
  Karpenter's.
* Collector: it never takes a node in service, and it takes every orphan.
* Node class controller and region provider: a status written judges the object
  it is written to; it settles on the right verdict; the controller comes to rest.
* Instance type and pricing providers: a list is one reading of the catalogue,
  its prices were the catalogue's, and an empty reading is not kept.
* Selection, drift and registration: pods fit the size that is bought; a claim whose
  smallest fitting size can be had is launched; a node's Drifted condition follows its class; a registered node
  does not get the taint back that kept pods away.

## 2. Modules

| Module | Models | State |
|---|---|---|
| `DOKS` | the node pool API and what DOKS does on its own (external) | `pools`, `ctxDone` |
| `InstanceProvider` | `pkg/providers/instance` | `calls[c]`: the goroutine that works for claim `c` |
| `CloudProvider` | `pkg/cloudprovider`: `Create`, `Delete`, `Get`; Karpenter's lifecycle controller as far as it calls them | `claims`: NodeClaims in the API server |
| `GarbageCollection` | `pkg/controllers/nodeclaim` | `seen`: the informer cache, `queue`, `gc`: the pass in progress |
| `Lifecycle` | the composition of the four, stops, crashes and restarts; the properties | `restarts` |
| `NodePoolLedger` | the abstract specification: which claim answers for which pool | `stage`, `owner`, `phase`, `bound`, `settled` |
| `LifecycleLedger` | the refinement mapping from `Lifecycle` to `NodePoolLedger` | |
| `Registration` | the taint between `Create`, DOKS, the kubelet and Karpenter's registration controller, with the collector beside them | `nodes`: the Kubernetes node of each pool |
| `RegionProvider` | `pkg/providers/region` | `offered`: the API's answer, `known`: the map |
| `NodeClassController` | `pkg/controllers/nodeclass` and the API server around it | `classes`, `cached`, `queue`, `rec`, `events` |
| `Drift` | `IsDrifted` of `pkg/cloudprovider`, and nodes made from classes | `nodes`: each node with its NodeClaim |
| `PricingProvider` | `pkg/providers/pricing`, and DigitalOcean's catalogue of sizes (external) | `history`: the catalogues so far, `prices` |
| `InstanceTypeProvider` | `pkg/providers/instancetype` | `cache`, `lists[w]`: a call of `List` |
| `Launch` | the choice of a size: `Create` and `filterInstanceTypesByRequirements` of `pkg/cloudprovider` after Karpenter's scheduler | `claim` |
| `NodeClassLedger` | the abstract specification of the node class controller: a class is judged in one step | `region`, `valid`, `ready`, `open` |
| `DriftLedger` | the refinement mapping from `Drift` to `NodeClassLedger` | |
| `LifecycleProofs`, `HeldProofs`, `LedgerProofs`, `NodePoolLedgerProofs`, `DriftProofs`, `ClassLedgerProofs`, `LaunchProofs`, `RegistrationProofs` | proofs | |
| `MCLifecycle`, `MCLaunch` | symmetry and catalogues for TLC | |

`InstanceProvider` extends `DOKS`, `CloudProvider` extends it, and `GarbageCollection`
extends that with the collector and its informer. From there two
compositions are built: `Lifecycle` adds stops, crashes and restarts, and
`Registration` adds Kubernetes nodes. Both have the collector, because it can take a pool
before its node is registered as well as after. They are kept apart to keep their state spaces
small: a restart in `Registration` would end a `Create` before its claim is stored,
and nodes are matched with stored claims only. `Drift` extends `NodeClassController`, which extends
`RegionProvider`. `Launch` extends `InstanceTypeProvider`, which extends
`PricingProvider`. The three groups share no variable: what passes between them is
that `Create` may fail before it calls DOKS, which changes nothing there, and the
size, which the lifecycle's properties do not tell apart.

### Actions and code

`Create` is one action per API call, because anything can happen between two:

| Action | Code (`instance.go`, `cloudprovider.go`, `controller.go`) |
|---|---|
| `BeginCreate` | `CloudProvider.Create` down to `instanceProvider.Create` |
| `SubmitPool` | the request and `CreateNodePool` |
| `PollNode` | an iteration of `waitForNode`: `GetNodePool`, the droplet check, the sleep |
| `GiveUp` | `waitForNode` runs out of attempts or is cancelled in its sleep |
| `CleanUp` | `DeleteNodePool` with the same context, its result dropped |
| `ClearTaints` | `UpdateNodePool`, its error only logged |
| `Register` | `instanceToNodeClaim`, then the lifecycle controller stores the claim |
| `BeginDelete`, `Lookup`, `DeletePool` | `CloudProvider.Delete`: by the annotation, else by the droplet ID among all managed pools; 404 is success |
| `CheckTerminated`, `FinalizeUnlaunched` | `CloudProvider.Get` answers not found and the finalizer goes; a claim never launched needs no call |
| `ListInstances`, `ListClaims`, `Sweep`, `FinishPass`, `Requeue` | the garbage collector's `Reconcile`, step by step |
| `Join`, `Enforce`, `RegisterNode` (external) | the kubelet joins with the taint its pool was created with, DOKS puts the spec's taints on nodes, Karpenter takes the taint off once; from the comments at `instance.go:103-106` and `134-139` |
| `Fetch`, `Validate`, `UpdateStatus`, `FailUpdate` | the node class controller's `Reconcile`: read from the cache, judge, write under the version read |
| `CheckDrift`, `WriteDrifted` | `IsDrifted` on the cached class; Karpenter writes the verdict afterwards |
| `LaunchFrom` | Karpenter launches from classes that are Ready; `Create` takes the class's tags |
| `Begin`, `GetOptions`, `ListSizes`, `Store`, `FailCall` | `DefaultProvider.List` of the instance types (`instancetype.go`): the look under the read lock, the two API calls, the write under the lock |
| `Schedule` (external) | Karpenter picks the sizes that fit from `GetInstanceTypes` and makes them the claim's requirement |
| `Buy`, `FailCreate` | `Create` lists again, filters, sorts and takes the first; DOKS has the size or not |

### Abstractions

* A pool Karpenter creates has `Count: 1`, so its ID stands for its droplet's ID
  and for the provider ID made of it. IDs are never reused; running out of
  `PoolIDs` is an account at its limit.
* Whether DOKS refuses a second pool of the same name is not known from this
  repository: both are allowed.
* A list is one page, and when there are more pools than `PageSize` any page
  may be the one returned.
* A call gives "ok", "notFound" or "error". With fault "api" it fails without
  effect; with "lost" it takes effect and its answer is lost.
* A watch delivers the latest version: an informer may skip versions and
  never goes back. In the node class model a version is the object's
  content with the number of the user's edit.
* `metav1.Now()` is one of two values: only whether a timestamp changes matters.
  A condition's message is the set of regions that its text names: that is what the reason
  does not tell, and it changes the object when status and reason stay the same.
* `maxAttempts` is a constant; the proofs are for every value of it.
* `Launch` follows one claim. Other claims touch it only through the cache of instance types,
  and there they are callers of `List`. `sort.Slice` is not stable, and the
  order of the API is unknown: any type that nothing sorts before may be first.
* In `Drift` the region of an instance is the cluster's, because the instance
  provider fills it in from its own region (`instance.go:262`, `nodePoolNodeToInstance`), whatever
  pool it is. A claim's instance-type label is the pool's size, another, or missing.

## 3. Runs

| Run | Configuration | Shows |
|---|---|---|
| `faults` | `MCFaults.cfg` | Type and inductive invariant, foreign pools untouched, finalized claims leave no pool, nodes in service are kept, and `Lifecycle` implements `NodePoolLedger`, under every fault |
| `two_claims` | `MCTwoClaims.cfg` | When calls succeed every running pool is held by its claim, no pool by two, and a node in service is safe from the other claim's calls, with lost annotations too |
| `live` | `MCLive.cfg` | `Create` returns, deletion completes, no pass of the collector loses an orphan, and orphans are collected while a NodeClaim exists |
| `registration` | `MCRegistration.cfg` | Every launched node whose pool the collector has not taken is registered, and stays without the taint, whether it joins before or after the taint is cleared from the pool |
| `node_class` | `MCNodeClass.cfg` | Statuses judge the object they are written to and settle, a verdict that repeats of the same region writes nothing, the controller comes to rest, Drifted follows the class, and `Drift` implements `NodeClassLedger` |
| `launch` | `MCLaunch.cfg` | Lists of instance types are one reading of the catalogue, with its prices, however calls overlap and fail; an empty reading is not kept; pods fit what is bought; a claim whose smallest fitting size can be had is launched |

These end with a violation of what a comment or document says:

| Run | Property | What happens |
|---|---|---|
| `in_flight` | `PoolWithNodeClaimIsNoOrphan` | The pool of a `Create` in progress is collected though its NodeClaim is in the list |
| `shutdown` | `FailedCreateLeavesNoPool` | Clean-up with a cancelled context does nothing |
| `last_claim` | `EveryOrphanIsCollected` | Without NodeClaims no pass is started |
| `taint` | `TaintResolves` | After a failed `UpdateNodePool` DOKS puts the NoExecute taint back after Karpenter's registration took it off, for good |
| `ready_stale` | `ReadyFollowsRegion` | A class edited to another region stays Ready |
| `tags` | `TagDriftIsNoticed` | A node whose pool has other tags than its class is never called drifted |

Also met while modelling, and kept by no run:

* The collector can take a pool while its `Create` polls it, and DOKS goes on
  returning its droplet until it is removed, so `Create` may succeed (`instance.go:169`). The claim is then
  live with the ID of a droplet that is gone, and no node ever joins. `in_flight` shows how the
  pool is taken; `LaunchedNodeRegisters` excepts a pool that was, and TLC
  violates it without that exception. `DeletionCompletes` says that such a claim can still be deleted.
* A NodeClaim whose provider ID is stored but has not reached the collector's cache loses its
  pool in the same way. `NodeInServiceIsKept` begins when the cache shows the ID.
* With more managed pools than one page (200), a claim is finalized while its pool
  runs, because `Get` does not find it: `FinalizedClaimLeavesNoPool` fails when `PageSize` is
  smaller than the number of pools. The theorem is about behaviours in which it is not:
  `Spec /\ []FitsOnePage => ...`.
* A region missing from the first list of regions stays unknown until a restart,
  though the comment in `IsAvailable` speaks of refreshing the cache. `StatusSettles` compares with
  what the cache answers.
* Types are ordered by CPU and memory, never by price, though the comment at
  `cloudprovider.go:290-291` calls the first the cheapest. Any pricing of sizes
  that is not monotone tells the two apart.
* A stale Ready has Karpenter launch a node that is drifted from the start, and its
  replacement is too, without end.
* A claim can be refused for as long as the first size of its list cannot be had:
  `Create` never tries the second. `SmallestFitIsLaunched` says what remains true.

### Bounds, and why they are enough

* `faults`: one claim, three pools and a foreign one, two attempts, one restart. Three
  pools are what a claim can have at once in the worst order: one whose
  answer was lost, one of a failed clean-up and one in use. `PageSize` is 4,
  so all fit.
* `two_claims`: two claims, each with one pool, and the fault that makes `Delete` search
  by droplet ID, which is the one way from a claim to another's pool. The properties relate
  a pool and its claim; a second claim keeps the collector running. The invariants
  that carry them are proved for any number.
* `live`: one claim and two pools, for a retry after a lost answer. Without symmetry.
* `registration`: one claim and two pools, so that a claim may have had a lost or collected pool
  before the one it is launched with, and two attempts, so that the collector can come between the polls of
  one `Create`. Claims share no pool (`ClaimsShareNoPool`, a theorem about `Lifecycle`) and a node
  belongs to a pool, so two claims meet only in the collector's pass, which takes any number of
  pools one after the other; the safety property is proved for any number.
* `node_class`: one class, two regions (the cluster's and another), one node and four
  events, which are enough for: class created, made Ready and edited or deleted and created
  anew during a reconcile or a drift check, and a fault, restart, relabelling or change of
  the regions besides. Classes meet only in the regions that are known, and one class that
  is edited has them looked up in every order that two would; nodes do not meet.
  The proof that statuses are current is for any number of classes. `Tags` has one element
  there and two in `tags`: tags decide nothing that is checked.
* `launch`: two callers, because an answer depends on the caller's own reading and on
  what one other stores; two sizes that differ in CPU, and a change of the catalogue that
  can fall between the seeding of prices, the options, the sizes, the other's reading,
  the scheduling and the purchase.
* The bounds in guards are `PoolIDs` (account limit), `MaxAttempts` (the code's
  own), `MaxRestarts`, `MaxEvents` and `MaxChanges`. Deadlock is not checked: every
  model ends when its events are used up, its claims are gone and nothing is left to do,
  as the program does when nobody asks anything of it.

### Fairness

`Lifecycle!Fairness`: goroutines run (`CreateCall`, `ClaimStep`, `GCStep`):
controller-runtime gives each reconcile a worker and retries what failed. Watch
events are delivered (`Deliver`), and each NodeClaim has an event again some time
(`Touch`: heartbeats of its status, and the resync of controller-runtime's
cache). DOKS removes a pool that is being deleted (`RemovePool`). A process that was
told to stop is started again, by its Deployment. Nothing is assumed of users, of
faults (the runs allow them without end, where they are not bounded) or of a
droplet ever coming up. `MCLive` has no fault "api": calls that fail for ever
leave nothing to be shown.

`Registration!Fairness`: goroutines run, a node with a droplet joins, and DOKS
enforces taints. Karpenter's registration controller is one of the goroutines. Nothing is
assumed of the collector: what must happen happens whether it runs, stops between any two of its steps or
sleeps.

`Drift!Fairness`: watch events are delivered, the worker runs, and a request in the
queue is not passed over for ever: the queue is FIFO, with a delay for retries, so
`Fetch` is strongly fair. Karpenter's disruption controller checks every node for drift
periodically and writes what it found; a check whose calls always fail leaves nothing to
be shown. The resync of controller-runtime's cache, which `Touch` stands for in `Lifecycle`, is not in
`Drift`: nothing needs it to settle, and `ComesToRest` is about the requests that the controller's own
writes bring.

`Launch!Fairness`: Karpenter asks for instance types again and again (its
provisioning and disruption controllers poll), calls go on, and an API call that is made
again and again succeeds some time: `GetOptions` and `ListSizes` are strongly fair
beside `FailCall`. Some of the answers are used for scheduling and for `Create`, which
succeeds some time if its size can always be had: callers come back for other reasons too, so
these are strongly fair. A claim that stays refused is deleted by Karpenter's
liveness timeout (`Expire`), and its pods are scheduled anew.

## 4. Proofs

All proofs are checked by tlapm. They assume the named assumptions on the
constants (`ConstantsAssumption` and the like, which say what the constants are) and
what the last column names.

| Module | Theorem | Says | Assumes |
|---|---|---|---|
| `LifecycleProofs` | `Invariance` | `Spec => []IInv` | |
| | `TypeCorrectness` | `Spec => []TypeOK` | |
| | `ForeignPoolsAreSafe` | `Spec => []ForeignPoolsUntouched` | |
| | `ClaimsShareNoPool` | `Spec => []NoPoolHasTwoClaims` | |
| | `FinalizedClaimsLeaveNoPool` | `Spec => []FinalizedClaimLeavesNoPool` | `[]FitsOnePage` |
| | `NodesInServiceAreKept` | `Spec => NodeInServiceIsKept` | |
| | `CreateRunsOutOfSteps` | each step of a `Create` leaves it fewer steps, and only a restart interferes | |
| `HeldProofs` | `NoPoolGetsLost` | `Spec => []NoPoolIsLost` | `[]FitsOnePage`, `CallsSucceed` |
| | `CollectorPursuesOrphans` | `Spec => OrphansArePursued` | `[]FitsOnePage` |
| `LedgerProofs` | `ProviderKeepsLedger` | `Spec => KeepsLedger`, the refinement | `[]FitsOnePage` |
| | `ProviderAccountsAreSound` | the ledger's invariant holds of `Lifecycle` | `[]FitsOnePage` |
| `NodePoolLedgerProofs` | `LedgerIsSound` | `Spec => []Sound` of the abstract specification | `NamesDiffer` |
| | `SettledClaimsAreKept` | a settled claim stays so until its deletion is requested | `NamesDiffer` |
| `RegistrationProofs` | `TypeCorrectness` | `Spec => []TypeOK` | |
| | `OnlyTheSpecTaints` | a registered node has the taint only if its pool's spec has it | |
| | `RegisteredNodesStayUntainted` | `Spec => []RegisteredNodeIsUntainted` | `CallsTakeEffect` |
| `DriftProofs` | `TypeCorrectness` | `Spec => []TypeOK` | |
| | `StatusIsCurrent` | `Spec => StatusJudgesCurrentRegion` | |
| | `RepeatsAreSilent` | `Spec => RepeatedVerdictWritesNothing` | |
| `ClassLedgerProofs` | `ControllerKeepsClassLedger` | `Spec => KeepsClassLedger`, the refinement | |
| `LaunchProofs` | `LaunchInvariance`, `TypeCorrectness` | `Spec => []LInv`, `Spec => []TypeOK` | |
| | `PodsAlwaysFit` | `Spec => []PodsFit` | |
| | `AnswersAreReadings` | `Spec => []AnswerIsOneReading` | |
| | `PricesAreReal` | `Spec => []NoPriceIsMadeUp` | |

`FitsOnePage` is a state predicate, not an assumption on constants: the pools that exist
at the moment, of which there may have been any number, are no more than the page that is read
shows. Where it is named the theorem is `Spec /\ []FitsOnePage => ...`. The source reads one page of 200
(`instance.go:239`), and beyond it the properties fail.
`CallsSucceed` leaves only the loss of annotations as a fault, `CallsTakeEffect` excludes
the fault "api". The runs `shutdown`, `last_claim` and `taint` show what becomes of the properties
without them. `NamesDiffer` says that `None` names no claim and no pool.

### Lifecycle

None of the properties is inductive. What carries them is that
everybody who is about to act on a pool acts on one that is his: `CallInv` says so
of the calls of a claim, `ClaimInv` of provider IDs and annotations, `SeenInv` that the
collector's copy of a claim is older than the claim and never different, `PassInv` that
the collector has only managed pools in hand, and `PoolInv` that foreign pools
are unmanaged. `IInv` is their conjunction with `TypeOK`, and TLC checks it in run
`faults`. The lemmas about the API calls (`Advance`) say what no call ever does: take away the
tag, owner or droplet of a managed pool, or bring a pool back. With them the proof
that a step keeps `IInv` looks at one action at a time.
`ClaimsShareNoPool` follows from `IInv` at once: whoever holds a pool is its owner.
`NodesInServiceAreKept` needs besides that a pool in service is not in the collector's list
of orphans when it lists NodeClaims, because the cached claim it reads shows the
pool's ID, and that a claim that is not being deleted has no `Delete` under way.
`FinalizedClaimsLeaveNoPool` is inductive with `IInv` and `FitsOnePage`.

`NoPoolGetsLost` follows a pool from hand to hand. `HeldInv` adds to `IInv` that a running
pool is covered by the claim it was made for, as its provider ID or in its call, that
an idle call has no pool in hand, and that the context is not done. A pool is let go in four
places, and each needs a reason: `CleanUp` (the deletion was answered, `DeleteStops`), the
return of `Delete` (the pool is the provider ID), `CheckTerminated` (it was not found,
so it is gone) and `FinalizeUnlaunched` (there is none). The collector only stops pools.

Two theorems are what liveness rests on as far as single steps go. `CreateRunsOutOfSteps`
counts the steps that a `Create` has left (`StepsLeft`): with `MaxAttempts` attempts
it makes at most `MaxAttempts + 3`, whatever is answered. `CreateReturns` adds only
that goroutines run. `CollectorPursuesOrphans` says that
nothing takes an orphan up again (`HoldsBefore`: a claim comes to hold a pool by making
it, or has it already), that a list shows every orphan there is, and
that no cached claim stands for one (`OrphanIsUnknown`): the cache is behind the claims, so a claim in it with
that ID has the ID still, and if it were gone its pool would be too. Here `FitsOnePage` enters
twice. `OrphansAreCollected` adds that passes are started and deletions succeed.

### The ledgers

`NodePoolLedger` knows neither calls nor caches: pools are rented for claims that have none, bound
once, settled, given back, and a claim goes after its pool. `LifecycleLedger` maps to it;
a claim is settled when it stands, the collector's cache shows its provider ID and no pass
holds its pool for an orphan. `ProviderKeepsLedger` shows that `Init` maps to
`Init` and each action to a ledger action or a stutter: `SubmitPool` to `Rent`, `Register`
to `Bind`, `CleanUp`, `DeletePool` and `Sweep` to `GiveBack`, `RemovePool` to `Remove`,
`CheckTerminated` to `Finalize`, for which it needs `FitsOnePage`, and what makes a claim
known (`Deliver`, `Restart`, a `Sweep` whose call fails) to `Settle`.
`LedgerIsSound` is about the ledger itself, which promises what it should: claims are bound to
their own pools, settled ones run, finalized ones have left none. Through the refinement
`ProviderAccountsAreSound` carries that over to `Lifecycle`.

`NodeClassLedger` judges a class in one step, as it is and by the regions known then, and
gives Ready only to one that suits then. It leaves open when the regions known are refreshed or
forgotten, and whether a class that does not suit keeps a Ready it has: the code keeps it, and
`ready_stale` shows that this contradicts `types.go`. `DriftLedger` maps to it the objects in the API server
and the regions known to be available. The cache, the copy that was read, the verdict
in hand, conflicts and failed updates map to stutters, `UpdateStatus` to `Judge`,
`Validate` to `Learn` when it fills the map of regions, and so does `Restart`. The proof
needs of `DInv` that the verdict in hand is still what the class and the known regions
give, if the write is not refused.

### Registration, node classes, instance types

* `RInv`: a call that creates works on a pool of its claim's own, and a registered node is
  named by its claim's provider ID and has no taint that its pool's spec has not. This needs
  nothing of the calls. The collector's `Sweep` only stops pools: what it deletes is clear or not as before
  (`CollectorKeeps`), and the types of its own variables follow separately (`CollectorTyped`). With `CallsTakeEffect`, `ClearInv` adds that the pool of a call that is
  "created" and that of a provider ID are clear of the taint in their spec: `ClearTaints` makes it so before
  the claim is stored, and only then can a node be registered.
* `DInv`: the verdict in hand judges the region of the copy that was read, by regions
  known then. A write needs the object to be the one read, and the regions known do not
  change once there are any, so it judges what is there at the write.
* `RestInv`, for `RepeatsAreSilent`: what is to be written is `Judged` of the copy, and
  conditions are consistent, so that a class that is valid is Ready already. Judging it
  again with the same reason and message then gives the same object, and an edit from one
  invalid region to another changes the message. Without the second part a write that repeats a
  verdict could still set Ready. `ComesToRest` adds that requests in the queue are served.
* `LInv`: every intermediate result is described by the versions of the catalogue it
  came from: slugs by one, types by that and a later one, the cache by such a pair; every price is
  one of some version. A claim's allowed sizes fit its demand, because the list
  they come from has only sizes, and fitting is a matter of the size.

### Only model-checked

* Liveness: `CreateReturns`, `DeletionCompletes`, `OrphansAreCollected`,
  `LaunchedNodeRegisters`, `StatusSettles`, `ComesToRest`, `DriftIsNoticed`,
  `EmptyCatalogueIsNotKept` and `SmallestFitIsLaunched`. They rest on fairness, hence on
  ENABLED, which is out of the prover's reach. What single steps contribute to
  three of them is proved, as said above.
* That a nonempty finite list of types has a first one (`First` in `Launch`), which
  `SmallestFitIsLaunched` needs: an induction over finite sets, which the provers
  cannot instantiate.

## 5. Not modelled

* The load balancer provider: it keeps nothing and is never called.
* The cloud provider's `List`, `GetSupportedNodeClasses`, `RepairPolicies` and `Name`: they change
  nothing, and nothing in the program follows from their answers but Karpenter's own
  bookkeeping. Overheads, labels and capacities of instance types: they are computed from
  one size and relate to no other state; what matters of them, CPU and memory, are
  constants of `Launch`.
* That the cache of instance types is never refreshed (the design,
  `designs/implementation-plan.md:302`, says "refreshes periodically") is in the model
  as it is in the code.
* Flags, clients, registration of types, deep copies, charts, CI, fakes and test suites.
* Karpenter's controllers beyond what decides when the provider is called.

## 6. Plan

Modelled and checked: lifecycle and its ledger, selection, drift and its ledger, registration.
Every safety property of the passing runs has a theorem. What may come next:

1. Steps behind the remaining liveness properties: that a deletion never has to begin
   anew more often than answers are lost, and that a check of drift that is not
   disturbed writes the right verdict.
2. An abstract specification of the cache of instance types that any number of callers
   share, implemented by `InstanceTypeProvider`.
3. More than one page, with the claims of the theorems that need `FitsOnePage` stated for what
   one page shows.
4. `Launch` with several claims whose purchases change the catalogue.
