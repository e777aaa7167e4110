# dgxctl in TLA+

dgxctl is the control plane of a small fleet of GPU nodes: it places vLLM
models on GPUs, launches them as docker containers over ssh, watches them, and
registers them with a LiteLLM proxy. One Python process serves the HTTP
interface (FastAPI) and runs the background loops on one asyncio event loop;
Postgres holds the state, the nodes hold the containers.

This directory holds its specification: who gets which GPU and which port, what
becomes of a deployment afterwards, what the control plane knows of its nodes,
where the proxy routes, and what people at a dashboard see of it all. Every
definition is translated from the sources; `PROJECT.json` maps each to its
lines, and lists the hazards of the code with the properties that cover them.

## Inventory

| Part | State | Operations | What is hard | What makes it correct |
|---|---|---|---|---|
| **Allocator** (`api/deployments.py` create, `services/deployments.py` `_reserve`, `capacity.py`, `placement.py`) | deployment rows, node usage, the in-memory `allocation_lock`, each session's identity map | create with up to `PLACEMENT_RETRIES` placements, quota check, reserve, restart's second row | requests plan without the lock on a snapshot, claim under it, roll back and retry; restart claims outside it | claims on a card never exceed it; ports distinct; replicas on different nodes; all or nothing; every request answered |
| **Lifecycle** (`services/deployments.py` launch and stop, `worker.py` `reconcile_pass`, `services/nodes.py` `adopt_and_prune`) | status of each row; containers; a launch task, a stop call, a pass | launch, pull, docker run, stop, reconcile, adopt | four sessions read early and commit late over one row; outages, crashes, timeouts, restarts by docker | GPUs are released only when the container is gone; what serves is found healthy; no claim is stranded |
| **Placement scoring** (`placement.py`) | none | rank groups: share, pack, exclusions, reasons | tie-breaking, alignment, cards of several models | a node is offered iff it has a group; sharing comes first |
| **Node inventory** (`services/nodes.py` `refresh`, `api/nodes.py`) | node status and address, GPU rows, ssh connections | create, update, probe, drain, authorize, delete, inventory loop | the loop and every handler load, yield and commit; a failed commit expires a pass | the record follows the host; no row refers to a node or a cluster that is gone; a drain lasts until it is lifted |
| **Clusters** (`api/clusters.py`) | cluster of each node | create, move, unassign, delete | moves, deletes and node deletes cross | a move moves all its nodes or none |
| **LiteLLM registration** (`services/litellm.py`) | `litellm_registered` of a row, the proxy's model list | register, deregister, resync | two stores without a transaction; lost replies; uncommitted registrations; three writers | routes become what serves, and so do the flags of active rows; entries of others stay |
| **Event bus, websocket, summary** (`events.py`, `api/fleet.py`) | bounded queues, a cached answer | publish, subscribe, summary | a full queue silently drops its subscriber; messages precede commits; slow checks | what the cache passes on was so within its age; every tab catches up |
| **Frontend data hooks** (`frontend/src/lib/api.ts`) | what a tab shows | poll, websocket, throttle | answers overtake each other; messages are ignored | the same |
| **Accounts** (`auth.py`) | users, teams | just-in-time creation | first requests insert the same row; sign-ins that wait for one another | a first sign-in succeeds however many come at once, but for a race for a new team |
| **Catalog** (`api/catalog.py`, `services/catalog*.py`) | model specs | seed, edit, rename, delete, import | delete or rename while being deployed; reseed over edits | an entry in use stays; edits survive a seed |
| **Sizing, vLLM arguments** (`sizing.py`, `vllm_args.py`) | a cache of configs | estimates, checks, advice, validation | fallbacks, rounding, fetches that fail, spellings of a flag | what is granted can start; a deploy keeps what its preview said; advice that is followed works |
| **Metrics** (`worker.py` `metrics_pass`, `vllm_metrics.py`) | last sample, samples | scrape, rates, retention | counters that restart at zero, samples that are lost | a rate never exceeds what was generated |
| Diagnostics, settings, LLM helper, MCP server | at most a key-value table | text in, text out | — | — |
| Drivers | ssh connections | run, ps, stop, logs | exit codes, timeouts, connections that outlive an address | an error is reported as one |
| Pages of the frontend, installer, migrations | — | — | — | — |

Interactions. The HTTP handlers and the worker's loops share the database and
nothing else but `allocation_lock` and the event bus. create hands a row to a
background launch task (`schedule_launch`), which no table records; the
reconciler takes over from there. Everything that touches a node goes through
a driver, and any such call may fail, time out, or act and then fail.

## Modules

| Module | Models | Used by |
|---|---|---|
| `Capacity` | the ledger: claims on a card, headroom, ports (`capacity.py`, `allocate_port`) | `Choice`, `Allocation`, `Placement` |
| `Choice` | abstract: what placement may answer, whatever it prefers | `Allocation` (chooses among it), `Planner` (shown to choose among it) |
| `GpuPool` | abstract: a pool that grants a request all its rows at once or nothing | `Allocation` (refinement) |
| `Allocation` | create_deployment: load, place, check the quota, take the lock, reserve, commit, or roll back and retry; releases, polls, drains, a crash | |
| `AllocationRestart` | Allocation with restart beside it | |
| `CapacityTheorems` | lemmas about the ledger and about finite sets | `AllocationProofs`, `PlannerProofs` |
| `AllocationProofs` | proofs about Allocation and AllocationRestart | |
| `Lifecycle` | the launch, stop, reconcile and adopt sessions against the containers | |
| `LifecycleProofs`, `RegistryProofs`, `DashboardProofs`, `ProxyProofs`, `NodeInventoryProofs`, `PlannerProofs` | proofs about the module they are named for | |
| `Placement` | `placement.plan`, `_pick_group` and `resolve_targets` as operators | `Planner` |
| `Sizing` | `params_from_config`, `assess` and `recommend` in whole numbers | `Planner` |
| `VllmArgs` | flags: spelling, validation, the command line | `Planner` |
| `Planner` | plan_deployment and create_deployment over a fleet that changes: composes the three with `Capacity` | |
| `NodeInventory` | nodes, clusters, hosts, connections; the inventory pass and the handlers of nodes and clusters | |
| `Proxy` | the proxy's list against rows and containers: reconciler, resync, stop | |
| `Dashboard` | samples, the bus, websockets, the summary and browser tabs | |
| `Registry` | users, teams, catalog entries and the deployments that refer to them | |
| `MC*` | instances for TLC, one for each of the modules that are run | |

### Allocation

`active` is the set of committed rows whose status is in `ACTIVE_STATUSES`;
`view[r]` is the identity map of request r's session: SQLAlchemy returns a node
that is already loaded without asking the database, so everything read through
it is as old as the load. `flushed` are the rows written and not committed,
which only the session that wrote them sees (READ COMMITTED); `lock` is
`allocation_lock`. One action stands for the code between two awaits that
matter:

| Action | Code |
|---|---|
| `Load` | the nodes and their deployments are loaded |
| `Place` | `resolve_targets`, one `plan` per replica; or the caller's targets, checked by `_check_free` |
| `CheckQuota` | `_check_quota`, which counts committed rows |
| `Acquire` | `async with allocation_lock()` |
| `Reserve` | one target: node status, ledger (`node_capacity_now`), `allocate_port`, flush |
| `LoseRace`, `Reload` | AllocationError of a planned request: rollback, lock released, next attempt or 409 |
| `Refuse` | the same for named targets, which are not retried |
| `Commit` | all rows of the request at once; the lock is released |
| `Release`, `PollUsage`, `SetStatus`, `Crash` | everything else that writes these tables |
| `EntryExpired` | the catalog entry is read after a rollback expired it: the request ends in an error |

Three figures are kept apart: `Need` is what is claimed (rounded), `PlanNeed` what
the planner looks for (cut off), and `NamedNeed` what `_check_free` compares for
named targets, which is the figure the caller or the entry gave and not the one
that sizing arrived at. A row counts for the team in `ChargedTo`: that of the
caller, the one in the body, or for a restart that of the row it follows.
`FromCatalog` are the requests that name an entry and no image, for which `_reserve`
reads the entry.

Left open: which feasible group the planner prefers (so every choice of
`Choice` is checked; `PicksAllowed` says that the planner makes one of them), and
the order in which the targets of one request are reserved.
Sizes are in units of which a card has a handful. Targets are a set, so a
caller who names the same card twice in one target is not represented.

`AllocationRestart` adds `StopOld`, `ChoosePort` (inside the lock) and
`Reclaim` (after it), the three transactions of `restart`. A restart asks for no
status, so `over` remembers the rows that ended: one of them may be restarted, and
is active again, beside whatever has its cards by now, if the stop fails. A plain
stop of such a row does the same and is left out of these two modules; it is in
Lifecycle, where rows have no cards, and in Registry (`ComeBack`).

### Lifecycle

One row per deployment and the container on its node. A launch, a stop, a pass
and a reconcile_node are records of how far each session is and what it has
read. A session decides on what it loaded and overwrites at its commit what
others committed meanwhile; a stop flushes first, so it holds the row's lock
until it commits (`Unlocked`). `Verdict` is `_reconcile_one`. A pass reads
`docker ps` once and `/health` later, commits once for all rows, and is thrown
away when reading a log raises. Left out: litellm calls (Proxy, below), the
reason texts, and the pass over other nodes, which touches other rows only.

`Faults` says what the node may do: containers exit, restart-loop, come back
after a reboot or are removed by somebody; `docker run` raises although it
worked; `docker stop` fails without raising. `Operators` says what they call.

### Planner, Placement, Sizing, VllmArgs

The rows, the usage of each card, node status and the cache of fetched configs
are the state; a request is a constant. `Plan` is plan_deployment (which
changes only the cache), `Create` is create_deployment with no rival (races are
Allocation's), and `Stop`, `Report`, `Drain` and `Expire` are what happens in
between. Everything else is an operator of the state. `Body` is
`_resolve_model` with the request merged over the catalog entry, with the config
that the fetch came to; `Requirement` is `_requirement`. The planner asks for the
requirement cut off to whole MB (`Demand`), the ledger for the rounded one
(`Claim`), and asks again (`HasRoom`), so that a deploy may be refused where the
plan had a place. `Findings` is what the preview shows, `Refusal` why a deploy is
refused before it gets to `_reserve`, `Granted` whether `_reserve` has the room
and the ports, `NewRows` the rows it makes.

Sizing counts in ticks (`TICKS` to a GB, of which estimates are rounded to a tenth
and a MB has `MB`), placement in MB (`HALF_GB` is 512 of them), and a card's share
is in 1/1000, rounded where the code rounds; the parameters of a config fall back as
`params_from_config` lets them. A config may be read, missing or not fetched, and
what a fetch came to is remembered for an hour (`Remembered`), a failure too.

A group that is a window of neighbours is ordered by place, any other by room
(`Ahead`), and the bonus for an aligned group goes by the first and the last of it
as the code's does (`CalledAligned`). A flag has a spelling and a `Form`: whole,
with its value behind an `=`, or cut short; `Given` is how vLLM's parser reads it.

### NodeInventory

The inventory pass and each handler are sessions: `view` holds the rows as the
session loaded them, a probe yields, and a commit writes the columns that were
changed against the loaded ones. A row deleted by another session stays in the
view as `gone`, and a commit that needs it fails (`Fail`), which ends the whole
pass: `inventory_pass` rolls back to go on, but the rollback expires the rows it
would go on with. `conn` is SSHDriver's cache, keyed by node, so a probe uses
an open connection whatever the address has become. The last conjunct of every
foreign key is the database's: a claim committed on a node that is being
deleted is deleted with it.

### Proxy

`route` is the proxy's list, `flag` is `litellm_registered`. The reconciler
(`Pass*`), the resync of the worker and of an operator (`Sync*`) and stop
(`Stop*`) each load rows, call the proxy for as long as that takes, and commit
what they changed. A call that is not answered may have worked. A stop has its
row locked from its first flush to its commit, and others that write the row
wait (`Write`). What the container does is external: docker restarts what exited,
and a stop that is reported as done may have left it running (`StopRun`). A pass
judges what it sees of it (`Seen`), or passes it over when its node is unreachable or
`docker ps` fails there; the startup grace is left open.

### Dashboard

`Sample` publishes what it took and `CommitSample` commits it later; `Publish`
puts a message into every queue that has room and discards the queues that do
not ("deaf"). A tab polls, and takes a message as a reason to fetch, or ignores
it when it came within the throttle. A fetch reads the rows first and then the
cached reachability if it is younger than `CACHE_AGE`, or asks the proxy. The proxy
replies, refuses, or hangs until the client gives up after `TIMEOUT`; meanwhile
time passes (`TimePasses`), and the cache is stamped with the time of the question
(`Stamp`). `made` counts the tokens truly generated since the committed sample, and
`past` records what the proxy was, tick by tick: they observe, and no action reads
them except to bound `Generate`.

### Registry

A request looks first (`Begin`) and writes later. `holds` are the rows it has
written and not committed, for which others wait; the second insert of one name
and the deletion of an entry that a row refers to are errors of the database, and
of several requests that wait for one another it ends one (`Deadlock`). A sign-in
that finds the user as it brings them writes no row of theirs (`Starts`,
`LookAgain`). An update may give an entry another key, which the deployments and
the requests that have found the entry follow (`Rekeyed`). `upsert_user` catches the
second insert of a user, but not that of a team. `ComeBack` is a
deployment that was over and becomes active again: a failed stop leaves it
degraded, and a launch overwrites a stop.

## Runs

| Run | Shows |
|---|---|
| `alloc_race` | two planned requests (one with two replicas, both with fractional requirements, which are planned rounded down and claimed rounded up) and one with named targets race for three cards and two ports a node, while node b is polled and drained, rows are released and the control plane crashes: `NoOversubscription`, `PortsUnique`, `ReplicasSpread`, `ImplementsPool` |
| `restart_mixed` | three requests of a team with a quota, of which two can share the one card, and a restart, with polls and drains: the requests' claims fit together (`CreatedFit`), a request goes round again only for a rival (`LostRaceMeansRival`), each of its steps brings it nearer to an answer (`EachStepAdvances`), and every request is answered (`EveryRequestAnswered`) |
| `life_stop` | launch, stop, reconcile, outages, exits, loops, removals and a crash: a pulling row is spared (`PullSurvives`), GPUs are released only when the container is gone (`ReleasedOnlyWhenGone`), what serves is found healthy (`ServingIsHealthy`) |
| `life_faults` | every fault and every operator at once: a claim without a container is settled (`ClaimsSettle`) |
| `planner` | nine kinds of request against five unlike nodes: a node is offered iff it has a suitable group, and the group is aligned or adjacent if one is (`OfferedIffSuitable`); sharing wins (`PacksFirst`); what is picked is what Allocation reckons with (`PicksAllowed`); a deploy that follows its preview is granted or refused as that said, but for ports and rounding (`PreviewAgrees`); what is granted can start (`GrantedCanStart`); engines fit their card (`EnginesFit`); a managed flag gets through in no spelling, and in another form only with a warning (`ManagedFlagsOwned`); advice works (`AdviceFitsTheCard`) |
| `nodes` | any two of eleven kinds of call cross the inventory pass, a change of a host, claims and a crash: `ReferencesResolve`, `MoveAllOrNothing`, `StatusSettles` |
| `proxy` | reconciler, timed and operator's resync and a stop on one deployment whose engine and whose proxy come and go, with lost replies and a crash: entries of others stay (`OthersKept`), and in the end a deployment that answers is routed to exactly if its row is active, one that does not answer is not routed to (`RoutesConverge`), and the flags of active rows say so (`FlagsConverge`; those of rows that failed or were stopped are cleared by nobody, and nothing is claimed of them) |
| `dashboard` | samples, restarts of the engine, a discarded queue, fetches that overtake each other, a proxy that goes, hangs and comes back: `RatesBounded`, what the cache passes on was so within its age (`ReachabilityRecent`), `TabsCatchUp` |
| `registry` | three of eleven requests at once, with renames, deadlocks and restarts: `FirstSignInsSucceed`, `InUseKept`, `EditsSurvive`, `EveryCallEnds` |

The runs have 1.3 million distinct states (`alloc_race`), 0.3 million
(`restart_mixed`), 14 thousand (`planner`), 1.2 million (`dashboard`), 0.75 million
(`proxy`) and 0.14 million (`registry`); each ends within three minutes.

Where the code disagrees with what the repository says of it, a run ends in a
counterexample, which `PROJECT.json` describes under `findings`:

| Run | Disagreement |
|---|---|
| `restart_card` | restart records no reservation, which counts as the whole card, and asks no ledger: beside any other active row on the card, here the old one whose container could not be stopped, the card is overcommitted |
| `planner_fp8` | the check that FP8 needs Hopper is never given the hardware: A100 cards are granted |
| `nodes_drain` | one failed probe turns draining into unreachable, and the next one that works into online; `WaysToLoseADrain` below says what else lifts a drain |

More of the same kind is in the models, was seen in them, and has no run:

* Allocation: a claim lands on a node whose drain is committed, since the session
  still has the node as it loaded it; a requirement that rounds down for the
  planner and up for the claim makes a request lose races against nobody (so
  `LostRaceMeansRival` is stated where the two agree); the quota counts before the
  lock; restart commits its port after leaving the lock. The comment at
  `api/deployments.py:305` says why the actor is read before the loop: a rollback
  expires every instance. The catalog entry is one of them, and `_reserve` reads it
  (`services/deployments.py:260`): a deploy of an entry that lost a race can end in
  an error of the server instead of another attempt (`EntryExpired`).
* Placement: a scattered group is ordered by room and called "aligned NVLink group"
  when its first and its last card happen to lie a group's width apart: three cards
  0, 3 and 2 in this order are (so `PacksFirst` compares groups that are both called
  aligned or both not). A card that has just what the plan asks for and not what the
  claim rounds to is shown by the preview and refused to the deploy, however often it
  looks again.
* VllmArgs: `--gpu-memory-utilization=0.95` as a key, or a managed flag cut short, is
  taken for an unknown flag: the caller is warned, and vLLM is given the flag beside
  dgxctl's own (so `ManagedFlagsOwned` promises only the warning there).
* Sizing: "only offered if it would actually fit the hardware" (`sizing.py:338`):
  recommend is given the roomiest card of a node and the number of all its cards, and
  neither their models nor the catalog's figure, which the deploy goes by if it is
  larger. `AdviceFitsTheCard` states what is left: the advice fits that card, and the
  node if enough cards are like it.
* Lifecycle: a stop during a launch is overwritten by the launch, whose container
  then runs; reconcile_node fails a row whose image is being pulled (so
  `PullSurvives` is checked without it), and lists the containers before it reads
  the rows; after a crash a pending row keeps its GPUs for ever (`ClaimsSettle`
  is therefore checked without crashes); a container that docker restarts after a
  pass saw it exited is never found again (so `ServingIsHealthy` is checked without
  reboots); a pass can commit over a stop that came after it read the row;
  `SSHDriver.stop` ignores exit codes; `docker run` that is cut off after it
  created the container fails the row, whose GPUs are released while in use.
* NodeInventory: a node that was given another address is probed at the old one
  as long as the connection lasts (`StatusSettles` excepts it).
* Proxy: a resync that listed the proxy before a registration and reads the rows
  after it cannot tell, and drops or repeats a route until the next one.
* Dashboard: a discarded subscriber is never told; only polling saves its tab. The
  comment at `api/fleet.py:28` wants a hung proxy not to stall the polls, and
  `tests/test_api_fleet.py:152` says so again: but the client waits for 15 s
  (`litellm.py:36`), the cache is stamped with the time before that and is good for
  15 s (`config.py:79`), so the answer of a proxy that hangs is too old when it
  arrives, and every poll waits for its own. `ReachabilityRecent` is the other half
  of that comment.
* Registry: the second of two sign-ins that bring the same new team fails
  (`FirstSignInsSucceed` excepts it), and two that bring one and write each other's
  user may wait for one another until the database ends one (excepted as well); an
  entry of the seed that was deleted, or given another key, comes back with the next
  start; an entry may be deleted under a deployment that
  comes back (`InUseKept` excepts it).

The hazards in `PROJECT.json` name their lines.

### Bounds

Three requests are the fewest in which a loser can lose twice, and
`PLACEMENT_RETRIES = 2` (10 in the code) has a first and a last attempt. Two
nodes, with two cards and one, let replicas spread and collide; a card of 6
units with headroom 1 takes one model of 3 or two of 2. Two ports a node are
fewer than the requests, so they run out. The restarts run on one card, the
smallest place where two claims share. `Polled` and `Drainable` name the cards
whose usage and the nodes whose status change: in `alloc_race` those of the node
with one card, so that a stale and a fresh view of it meet while the other node
stays as it is; in the restart runs the only ones. One deployment in Lifecycle already has
four sessions over one row, and the rows of a pass do not influence one
another except that it commits, or is lost, as a whole; `MAX_STOPS = 1` and
`MAX_CRASHES = 1` bound what could otherwise happen for ever. The safety
properties were also explored with two deployments (1.9 million states), which
showed nothing that one does not. `CHECK_DEADLOCK FALSE` stands where a finite
set of requests or calls ends: in the allocation configurations, `nodes`,
`proxy` and `registry`.

The planner's nodes differ in number, model, size and usage of their cards, so
that there are nodes with no group, with an aligned, an adjacent and a
scattered one, with a shared and a mixed one; its requests take a config that
is read or not, one or two cards, a catalog figure or none, each override that
`_assess` treats apart, a managed flag in each form, and more replicas than are
allowed. Ticks and units are so few that what the plan cuts off and what the claim
rounds up differ, and the usage of one card of three that are not neighbours decides
how the scattered group is ordered. In NodeInventory two calls beside the pass are the fewest
that can cross each other and it; two nodes and two clusters make a move
partial; one change of a host (`MaxFaults = 1`; in `nodes_drain` two, so that it
leaves and returns), and another through a new address, are what a pass can miss. In Proxy one deployment
has all four writers; routes of different deployments do not meet, but for a
pass being lost as a whole. In Dashboard a queue of one message fills at once, two
fetches overtake each other, one token is enough for a counter to restart
below it, and the age of the cache and the time-out of the client are one tick each,
as they are the same 15 s in the code. The control plane crashes as often as it
likes there. In Registry three requests let two race while a third has changed what
they saw, and two sign-ins that wait for one another.

### Fairness

`AllocationRestart!RFairSpec` is weak fairness of each request's step: the event
loop runs every coroutine that can proceed, and asyncio.Lock serves its waiters
in turn. A restart may be held up for ever. `Lifecycle!FairSpec` is weak fairness of each launch, each stop, the
reconcile pass, the inventory loop (`_loop` catches every exception and goes
on) and an adopt under way; each driver call has a timeout. Nothing is assumed
of nodes, containers or operators: properties that need the node to answer say
so (`<>[]reachable`).

`NodeInventory`, `Proxy` and `Registry` have weak fairness of every coroutine
that has begun, and of the loops (`_loop`), and none of operators, hosts,
claims, containers or the proxy: their liveness properties are about what stays
so (`<>[]`). `Dashboard!FairSpec` adds the browser's timer (`setInterval` in
usePolled), that time passes, that a question to a proxy that hangs is given up after
`TIMEOUT` (`InTime`), and that the control plane is not restarted for ever
(`<>[][~ Crash]_vars`); of the websocket nothing is assumed, which is why a tab may
rely on polling alone.

## Proofs

`CapacityTheorems` proves facts of the ledger for every finite set of rows:
what is claimed on a card is a natural number, grows with the rows, and
grows by a row's share when it is added; a subset of what fits, fits; a row
within what is available can be added. It has as well the facts of finite sets that the
other proofs share: something least exists (`Minimal`, `Least`), and so do the first
k (`InitialPart`, `SubsetOfSize`) and the next port of a range that is not taken up
(`NextPort`).

`AllocationProofs` proves, for every value of the constants that satisfies the
assumptions of `Capacity` and `Allocation`:

* `TypeCorrect`: `Spec => []TypeOK`.
* `Invariance`: `Spec => []IInv`. `NoOversubscription` is not inductive: a
  commit adds rows that were measured earlier. `IInv` says that whoever has
  rows flushed holds the lock, that committed and flushed rows *together* fit
  and have distinct ports, and that both are finite. Only the holder commits, others only
  release, so what was measured still fits at the commit.
* `Safety`: `Spec => [](NoOversubscription /\ PortsUnique)`.
* `Refinement`: `Spec => ImplementsPool`. Every step but a commit or a
  release stutters in the pool; a commit grants one request's rows, and `IInv`
  gives the pool's guard.
* `PortsSafe`: `Spec => []PortsUnique`, the half of `Safety` about ports.
* `Spread`: `Spec => []ReplicasSpread`. `AwayInv` says that the targets a
  planned request has still to reserve are on nodes apart, from one another and
  from the rows it has written, `RowsApart` that its rows are; with `OwnerInv` a
  request that is reserving has no committed row its new one could meet.
* `RivalNeeded`: `LostRaceMeansRival` of `Spec` and of `RSpec`, with restarts beside
  the requests, if the planner asks for no less than the claim. `PlanInv` says that
  the targets a planned request carries to the lock fit what it has loaded; no
  replica meets another on a card (`AwayInv`), and releases only make room, so
  without a row it had not seen every target still has room. These invariants look
  at locks, sessions and flushed rows only, not at what is committed, so that a
  restart leaves them as they are (`RestartLeaves`).

Of AllocationRestart it also proves `CreatedSafe`: `RSpec => []CreatedFit`. With
restarts beside it the ledger itself no longer fits, so the invariant is about
the requests' rows alone (`OwnFits`). A claim is measured against all rows,
restarts' included, and there is never more room beside more rows
(`AvailableShrinks`). Rows that ended and came back (`over`) are left out: nothing
measures them again. `OnlyRestartsOvercommit` says that restarts are the whole cause
of the counterexample in `restart_card`: with none (`Restart = {}`), `RSpec =>
[]NoOvercommit`.

Of `EveryRequestAnswered` it proves what can be said of single steps, with restarts
or without:

* `RequestsAdvance`: `EachStepAdvances` of `Spec` and of `RSpec`. A step of a request
  answers it, starts the next attempt, goes on to a later stage or leaves it a target
  less to reserve, and no step of anybody else changes any of these.
* `AttemptsBounded`: when the nodes and the targets that callers name are finite
  (`FiniteFleet`), attempts stay within `PLACEMENT_RETRIES` and what an attempt has to
  reserve is finite, so that the order of `RequestsAdvance` has no infinite descent.
  `TriesInv` says that whoever plans has attempts left: they are counted in the
  placement, but compared when one is lost.
* `NobodyStuck`: for finitely many nodes, a request that is being served satisfies the
  conditions of one of its steps (`CanStep`), or waits for a lock whose holder does. A
  planned request with a feasible node has a placement (`PlacementExists`), and a
  port is free unless the range is taken up (`NextPort`).

That a step is enabled, and that fairness makes of these an answer, stays with TLC.

`RegistryProofs` proves, for any people, teams, entries, deployments and requests:

* `TypeCorrect`: `Spec => []TypeOK`, which holds that every reference finds its row.
* `EntriesInUseStay`: `Spec => InUseKept`. `DeleteInv` says that what
  delete_spec saw is over, or was and came back; what it did not see and still
  refers to the entry stops it (`ReferredTo`). `EntryInv` says that a request
  that found its entry knows when it is gone.
  A rename needs that the new key is free and that deployments and requests follow
  it (`OpRekeyed`).
* `SignInsSucceed`: `Spec => FirstSignInsSucceed`. `RowsInv` says that what a request
  holds are the user and the team of its own sign-in, and nothing that another
  holds; so of sign-ins that wait in a ring each is in a race for a team
  (`DeadlockRaces`).
* `SeedSparesEdits`: `Spec => EditsSurvive`: a reseed that writes late fails as a
  whole if an entry came up since it looked.

`DashboardProofs` proves, for any number of tabs and any bounds, `TypeCorrect`,
`RatesSafe` (`Spec => []RatesBounded`) and `ReachabilitySafe`
(`Spec => []ReachabilityRecent`), the latter for any time-out and any age: a reply that
is under way is about one of the ticks since its question, and grows older as they
do. `RateInv` says that the engine's counter never
exceeds the committed sample by more than was made since, nor the sample a pass
has taken, whichever of them is committed.

`LifecycleProofs` proves, for any set of deployments and any bounds:

* `TypeCorrect`: `Spec => []TypeOK`, with `SnapInv`: a pass that judges has
  listed every container.
* `PullSafe`: `Spec => PullSurvives` when operators only call stop, and only
  after the launch. `FreshInv` says that until a launch has run its container
  the row is its own: no container, no stop, and a pass that has the row saw
  it pending or pulling, which `Verdict` leaves alone.
* `ReleaseSafe`: `Spec => ReleasedOnlyWhenGone` when in addition docker hides no
  failure (`timeout`, `unstopped`) and restarts nothing (`reboot`). `GoneInv`
  says that whoever is about to give a claim up, a launch that failed, a stop
  that removed the container, a pass that decided on failed or saw what will
  make it decide so, is right about the container until it commits.

The assumptions are not conveniences: without each of them the property is
false, as TLC shows of each.

`NodeInventoryProofs` proves, for any nodes, clusters, hosts and calls:

* `TypeCorrect`: `Spec => []TypeOK`.
* `ReferencesSafe`: `Spec => []ReferencesResolve`. A call writes what it decided
  long ago, so the references of the tables alone are not inductive. `JobInv` says
  of every session that a row it loaded and has not noticed to be gone is
  registered: a deletion marks the row in every view (`gone`), and a commit that
  needs it fails.
* `MovesWhole`: `Spec => MoveAllOrNothing`. By the same invariant every node a move
  holds is registered at its commit; and no other step of the system takes a call
  from its commit to its end with clusters changed (`OwnWrite`).
* `WaysToLoseADrain`: `DrainKept` is false, and this is in which ways. A status of
  `Held` is lifted, but by a call for it or with the node, only by a refresh whose
  probe failed or whose session loaded the node, unknown or unreachable, before it
  was drained (`Learned` looks at what was loaded). A refresh that knows of the drain
  and reaches the host keeps it.

`ProxyProofs` proves, for any deployments, entries of others, stops and crashes,
`TypeCorrect` (`Spec => []TypeOK`) and `OthersSafe` (`Spec => []OthersKept`).
`JobInv` says that what a session has listed to remove, however long ago and
whatever became of its calls, are deployments (`Ours`), so that no entry of
somebody else is among them.

`PlannerProofs` proves, for any fleet, catalog, configs and requests:

* `Invariance`: `Spec => []IInv`, and `TypeCorrect`. `IInv` says that a row was
  judged, settings and flags, as its session asks, that it records the requirement
  that came of it with the config as it was fetched then, and that a config
  remembered as read exists. The preview and the deploy fetch on their own and the
  cache expires in between, so that `GrantedCanStart`, which is about the present,
  needs the session's own fetch in the state (`sized`).
* `OffersSuitable`: `Spec => []OfferedIffSuitable`. The lemmas are about the
  operators of Placement: a run of tp indices is filled by tp cards without a gap
  (`RunFills`), adjacent groups are runs (`AdjacentIsRun`), the fullest tp cards
  are tp cards (`FullestSize`), and the first model with enough cards exists
  (`FirstModelHas`).
* `PicksSound`: `Spec => []PicksAllowed`: what `resolve_targets` comes back with is
  one of the placements of `Choice`, between which Allocation leaves it open.
  Scores order the offered nodes totally, so the best k of them exist
  (`InitialPart`) and are as many as there are replicas or nodes (`ResolvedIs`).
* `SharingPreferred`: `Spec => []PacksFirst`. An untouched group has all the room
  its cards report (`LikeCardsFit`), a shared one of like cards no more, and the bonus
  decides; that of alignment is the same on both sides, by what the property asks.
* `PreviewSound`: `Spec => []PreviewAgrees`. What the preview fetched is what the
  deploy finds remembered, a failure too (`FetchedAgain`); where some node is offered
  there are targets (`ResolvedIs`); and when the ledger has not the room for the claim
  on a card that the plan chose, the card has exactly what the plan asked for
  (`JustShort`).
* `GrantsCanStart`: `Spec => []GrantedCanStart`. Rounding to a tenth of a GB and the
  conversion to the row lose less than a tenth together (`RoundIs`,
  `RecordedFloor`).
* `RoomKept`: `Spec => []Fits(rows)`: the placement and the ledger of one create
  reckon with the same room, whatever the requirement was estimated from. A row of
  a create is measured against the others, not against those of the same create, so
  that these have to be on cards apart (`NewRowsRoom`); the bound on creates bounds
  the engines on a card (`RoomInv`).
* `SharesFit`: `Spec => []EnginesFit`. A share is rounded to a thousandth of the
  largest card of a group, which is at most half a thousandth more than was reserved
  on any card of it (`ShareIs`). The shares are added up by counting thousandths, as
  the ledger counts units of memory (`OneMoreShare`, `SharesAddUp`).
* `AdviceSound`: `Spec => []AdviceFitsTheCard`, for each kind of advice. The part
  of an estimate that the advice divides comes out no larger than its share
  (`Divided` for weights over more cards, `PartOf` for the cache of a shorter context
  and for weights of fewer bytes); recommend reckons with rounded figures, and what is reckoned so comes
  out at most a tenth of a GB above what is free (`RoundNear`, `RoundedBound`). More cards and a
  shorter context hold for any checkpoint; to quantize helps one that is not
  quantized already (`Unquantized`): recommend does not look at a method the
  checkpoint declares, and may advise a build that the check of it refuses.
* `FlagsOwned`: `Spec => []ManagedFlagsOwned`: a managed flag in any spelling is an
  error (`ManagedIsJudged`), and a row with an error is not granted; in another form it
  is a warning.

`Min`, `Max` and `CHOOSE` over finite sets need that something least exists. The
provers cannot use the induction theorems, which take an operator, so `Minimal`
(`CapacityTheorems`) gets it from the library's fact that the strict subsets of a
finite set are well founded, and `Least`, `InitialPart` and `SubsetOfSize` follow.
Products of sizes are outside linear arithmetic: each is named, bounded by a lemma
of its own (`Product`, `Quotient`, `QuotientBelow`, `PositiveProduct`) and then used by its bounds.

The planner's theorems assume that the sizes of requests and catalog entries are
not negative (`AskAssumption`). No schema of the code forbids negative ones, and
requests with them are left out of the model. They assume that the fleet is finite,
that two cards of a node have different indices, and that there is a bonus for
sharing at all. `RoomKept` and `SharesFit` assume that the overhead (`OVERHEAD_GB`,
2.0) is at least a tenth of a GB: a requirement that is rounded to nothing would put
two rows on one card. `SharesFit` assumes in addition that the headroom of a card
(`RESERVE_MB`, 1500) is at least half a thousandth of it for each engine it may
have: that is so for 36 engines on a card of 80 GB. With more of them, or with no
headroom, the property is false, for the rounding adds up.

### Only model-checked

Liveness (`EveryRequestAnswered`, `ClaimsSettle`, `ServingIsHealthy`,
`StatusSettles`, `RoutesConverge`, `FlagsConverge`, `TabsCatchUp`,
`EveryCallEnds`), which is out of the prover's reach. Every invariant and every
action property that a passing run checks is a theorem, and so is the refinement of
`GpuPool`.

## Plan

1. Done: `Capacity`, `GpuPool`, `Allocation`, `AllocationRestart`, `Lifecycle`;
   `Placement`, `Sizing`, `VllmArgs`, `Planner`; `NodeInventory`; `Proxy`;
   `Dashboard`; `Registry`; `Choice`.
2. Done: the type invariant, the safety invariants and the action properties of
   every module as theorems; the steps towards an answer of `Allocation`; the causes
   of two of the three counterexamples (`OnlyRestartsOvercommit`,
   `WaysToLoseADrain`).
3. Open: steps towards the liveness of the other modules, as for `Allocation`; and a
   refinement of `Planner` to one request of `Allocation`, which `PicksSound` and
   `RoomKept` are halves of.

## Not modelled

Diagnostics, settings, the LLM helper and the MCP server have no state beyond a
table and no protocol. The pages of the frontend render what the hooks return.
The installer, the migrations and the simulated driver are I/O or stand-ins.
Import of catalog entries drafts text and changes nothing. Retention deletes by
age what nothing in the models reads. The pool of database connections, which a
websocket takes one of for as long as it is open, is not modelled, nor are
cookies and the identity provider.
