# Dynamic Docker Apps in TLA+

The repository is a small edge platform: a Pingora load balancer in Rust
(`src/src`), whose pool of upstreams is changed at run time through a Control
API, and a Go command line (`src/cli`) that runs containers and registers,
drains, discovers and watches them. These modules model both halves and the
place where they meet, TLC checks them on small instances, and TLAPS proves
their safety properties for every value of the constants, under hypotheses that
each theorem states. A model of its own covers the live output of a docker
command.

## 1. Inventory

### The server (`src/src`)

| Part | State | Operations | Threads |
|---|---|---|---|
| Routing state (`domain/models.rs`, `domain/routing.rs`) | three `ArcSwap` cells: `items` (the list), `by_addr` (address to item), `lb` (what is selectable); one request counter behind each item's `Arc` | register, deregister, mark draining, purge, rebuild, select, status | shared by all |
| Control API (`api/handlers.rs`, `errors.rs`, `server.rs`) | none of its own | POST/DELETE/GET `/upstreams`, POST `/upstreams/drain`, GET `/upstreams/status`, `/health` | one |
| Health checker (`health/checker.rs`) | the snapshot of a cycle, what answered | every 5 s: load `items`, probe each twice at most, rebuild `by_addr` and `lb` from what answered | one |
| Draining service (`health/draining.rs`) | the list a purge loaded | every second: purge | one |
| Proxy (`proxy/lb.rs`) | a `ProxyCtx` per request | `upstream_peer`, `upstream_request_filter`, `logging` | worker threads |
| `main.rs`, `utils/config.rs` | none | start the four services | |

No lock orders the three cells. Every writer loads `items`, builds a list of its
own, and stores `by_addr`, `lb` and `items` one after the other without
compare-and-swap; the health checker stores only the first two. A request loads
`lb`, then `by_addr` for the name, then `by_addr` again for the counter.

What makes it correct: two items never share an address; what the API has
answered stays true; a drained upstream is no longer selected, keeps its
requests and is purged in the end; a counter is the number of requests that hold
it; and a quiet server converges to the healthy active items.

### The command line (`src/cli`)

| Part | State | Operations |
|---|---|---|
| Control API client (`api_utils/api.go`) | none | health check, register, deregister, drain, status, list; every one through `docker exec` |
| deploy (`deploy/deploy.go`, `health/health.go`) | the replicas done so far | per replica: check the name, clean up, run, inspect, probe, register; remove on failure |
| deregister (`main.go`) | the target | resolve, drain or remove, wait until the status call fails, stop |
| discover, list (`discover/discover.go`, `main.go`) | the list of containers | per container: inspect, probe, register |
| watch (`watcher/watcher.go`) | none | on each `die`/`stop`/`destroy` event: list and evict |
| docker commands (`docker_utils/docker.go`) | the daemon's: containers, images, the network | exists, running, image inspect, login, pull, build, network inspect and create, run, inspect, ps, rm, events |
| live steps (`docker_utils/docker.go`, `logger/logger.go`) | the lines of a step, the rows it has on the screen | start, stream a line, finish with success or with the log |
| flags, names (`parser`, `domain`) | none | parse, validate, build names |

What makes it correct: a deployment that reports success serves and is
registered; one that fails leaves nothing of the failed replica; a container is
removed only after its upstream has left the list, and what is evicted and removed
is what was named or addressed; discovery brings back what runs, the watcher evicts
what died; every command ends, and what it shows is what the docker command said.

### Hard behaviours

Stale snapshots over an await, read-copy-update without compare-and-swap, torn
reads of two cells, a retry that overwrites its bookkeeping, a check that races
an increment, check-then-act across docker commands, errors that read as "no",
lost answers, containers that die, servers that stop and come back without
their list or without their API, a pipe nobody reads. `PROJECT.json` lists them
under `hazards`,
each at its line and with the properties that are about it.

## 2. Modules

```
Upstreams                    records, validation, list operations (no state)
 |- UpstreamsProofs          lemmas about the list operations
 |- RoutingState             the three cells, the counters, the clock
 |   |- ControlApi           handlers, one step per load and store
 |   |- HealthChecker        one cycle
 |   |- DrainingService      one purge
 |   '- ProxyRequests        requests
 |        LoadBalancer       composes the four; correctness of the server
 |         |- LoadBalancerProofs   types, addresses, counters
 |         |   '- RegistryProofs   the atomic list and the pool behind it
 |         '- MCLoadBalancer       small instances
 |- UpstreamRegistry         abstract: the list as the API promises it
 '- DockerHost               external: containers and their addresses
      ControlClient          calls of the API over UpstreamRegistry; the server
       '- CliFlags           flags, names and targets (no state)
           '- CliDeploy - CliDeregister - CliDiscover
                EdgeCluster  composes them; correctness of the edge
                 |- EdgeProofs       types, what an invocation holds where it is
                 |   '- DeployProofs     deployments
                 |       '- DiscoveryProofs   discoveries
                 |           '- EvictionProofs    deregistrations
                 '- MCEdgeCluster  small instances

StepCommand                  a docker command, its pipe, the scanner, the screen
 '- StepProofs               the screen, the log of a failure
```

### The server model

* **Items.** A `BackendItem` is a record with an `id`, which stands for its
  `Arc<AtomicUsize>`: clones share the id and hence the counter `count[id]`.
  Ids grow with registrations and lists are only appended to, so a `Vec` is the
  set of its items and its order is that of the ids (`FirstMatch`, `Probed`,
  `Examined`). The `HashMap` is the set of its values (`AddrMap`); `lb` is the
  set of addresses it may select, so all three selection algorithms are a choice
  from it. `Routable` is what `address().parse::<SocketAddr>()` does: IPv4 only.
* **Steps.** One step is one access to something another thread can see. A
  handler without an effect (refused by validation, not found, conflict) is one
  step; one that writes is four: `Register`, `Deregister` or `Drain` loads
  `items` and builds the list, then `ApiStoreAddrMap`, `ApiStoreBackends` and
  `ApiStoreItems`. A health cycle is `LoadCycle`, one `Probe` per GET, and two
  stores. A purge is `LoadPurge`, one `Scan` per draining item (it reads that
  counter), then `PurgeNothing` or three stores. A request is `Select`,
  `LookupName`, `LookupCounter`, `CountUp` and `Logging`. A drain whose deadline
  is beyond the range of `Instant` is `DrainPanics`: it happens before any store,
  and the caller gets no answer.
* **Merged.** `Instant::now()` in `mark_draining_upstream` and in the purge is
  read in the step that loads; nothing another thread does between the two can
  be told from doing it before or after. A purge that finds nothing draining
  changes nothing and is left out.
* **External.** `Tick` is the clock, `Flip` a backend whose endpoint starts or
  stops to answer, `Retry` Pingora's second call of `upstream_peer` for a
  request whose upstream could not be reached. The status and list handlers
  read once and change nothing.
* **History.** `told[id]` is what the API has last answered about an item.

### The edge model

One step is one docker command or one call of the API; what asks the same question
several times until a deadline (`WaitForReadiness`), or lists containers and
inspects each (`FindTarget`), is one step, taken when it has its answer. Between two
of them any other invocation, event or purge runs. Here the list of upstreams is `pool` of
`UpstreamRegistry`, on which every call is atomic. That is what the API
promises; the run `registry` checks it for the server without its background
services, and `lost_update` shows where the draining service breaks it. So the
edge runs show what the CLI does wrong even above an API that keeps its word.

* **The server** is serving, deaf or down. `StopServer` is a shutdown or a crash:
  the list, which is only in memory, is gone. `StartServer` brings it back, and
  when its address cannot be bound it is deaf: `start_api_server` has returned,
  the container runs, and `docker exec` in it works.
* **Calls** fail when the server is not serving, when the API refuses, or by
  chance (`Fault`): they do not get through, or act and lose their answer. The
  client gives its caller the same error for all of them. No port is `None`,
  which the client does not send.
* **The daemon** (`DockerHost`) is modelled from the commands `docker.go` runs:
  names are unique, a running container holds an address, a stopped one does not,
  and addresses are reused. An image tag has one content at a time, which a build
  or a pull replaces; `box[c].image` remembers what a container was started from.
  A container on two networks has a text that is no address (`BadIps`), because
  the format of `ExtractContainerIP` prints its addresses without a separator.
  `PartOf` says which address is part of the text of which.
* **Docker commands fail** by chance too (`Fails`), before they have had their effect
  or after: an image may have been pulled, a network made, and a container created
  or started by a `docker run` whose caller sees an error. The error of
  `docker rm -f` is dropped (`StopAndRemoveContainer`), and the container stays or
  has only stopped. A question that fails reads as "no" (`Seen`).
* **Endpoints.** `Answers[c]` are the paths at which the program in `c` answers 200.
  A deployment asks for the path it was given; the field `endpoint` of its flags says
  what the API makes of the text. A discovery lists the containers but those of
  `Platform`, which its filter of names leaves out, and asks each for
  `HealthProbePaths`, one per step, at `DiscoverPort`.
* **Flags** are records (`Deployments`, `Evictions`), valid or not; names built
  from others are functions given as constants, so that nothing is put together
  character by character.
* **The watcher**: `HandleEvent` removes what it can decode, and that is nothing:
  `ListUpstreams` returns a formatted table, and `json.Unmarshal` of it fails.
* **History.** `gone` are the containers that have ever stopped or been removed;
  `since`, in a discovery, the outages there had been when it started.

### The model of a step

`StepCommand` runs the steps of a deployment one after the other. The docker
command and the CLI are two processes with a pipe of bounded size between them;
a byte is a part of a line or its end, and the content of a command's output is
chosen when it starts. `bufio.Scanner` is `Scan`, byte by byte, and `Eof`: it
gives up when its buffer is full without the end of a line, and its error is
dropped. `UpdateStream` drops blank lines and replaces the one row it has;
`FinishSuccess` and `FinishError` replace the title. Every line takes one row:
the title fits the width of the terminal, as the code assumes when it moves up by
one. The heading of a failure's log is not counted among its rows.

Definitions whose comment begins with "Mutation" are not part of the model. Each
is a changed form of the definition that follows, such as a plausible bug would
have made, with which the property it is meant for fails.

## 3. What is checked

### Runs that pass

| Run | Shows | Bounds |
|---|---|---|
| `server` | `TypeOK`, `UniqueAddrs`, `CountersExact`, `CountedAtItsBackend` with everything running | 2 addresses, 2 registrations, 3 API calls, 1 request, 1 health change, clock 0..1 |
| `settles` | `EventuallySettled`: purges and health cycles repair every torn or stale pool; `CountersCover` when the request gets a second upstream | 2 registrations, 2 calls, 1 health change, 1 request of 2 attempts that may never end |
| `registry` | `AcknowledgedChangesPersist`, `RegistryAtomic`, `PoolFollowsItems`, `UncountedOnlyWhileChanging`: with the API alone the list implements `UpstreamRegistry`, what can be selected and found follows it, and a request goes uncounted only when its backend has left or the pool is being changed | 3 registrations, 5 calls, 1 request, with IPv6, malformed and empty inputs, port 0, names in two cases and drains that panic |
| `deploys` | `DeployedServes`, `FailedDeployCleansUp`, `RemovesOnlyItsOwn`, `DiscoveryRegistersAll`, `ClusterTypeOK` | two commands: 2 replicas that are built, another app from an image, with refused flags, a wrong port and path or a refused endpoint, a discovery, a list; no images and no network at first; 3 names, of which one is the platform's own, over 2 addresses, any containers before, which answer at the first or at the second path a discovery tries; 1 fault, 1 death or stop of the server, which comes back serving or deaf |
| `evictions` | `NoDeadUpstream`; `CommandsEndUnlessRevived`: every command ends, unless what it waits for is registered again | a deployment of 2 replicas and two deregistrations, by name, by address or by both, graceful or not, stopped or not, with refused flags; images and network there and nothing stopped at first; one address part of the text of the other, and a container on two networks; 1 fault |
| `steps` | `ScreenFaithful`, `FailureShowsItsEnd`, `CommandReturns` | 2 steps, any output of 6 bytes at most, a pipe of 2, a scanner's buffer of 3, a log of 2 lines |

Why these bounds are enough to be interesting: two registrations are what it
takes for an order in the list, a reused address and a stale clone of an old
registration; three calls are register, drain and register, or register,
deregister and register, and five make room for refused calls among them; a
clock of two values separates before and at the
deadline; one request meets every interleaving of its five steps with all
writers (any number of requests: the theorems). `server` and
`deploys` use symmetry of the addresses. Pingora starts a background service with
one thread, so runs have one API task; so do the theorems that say so, and the
others hold for any number. `DefaultTimeout` is 1 in the
runs, in the place of 15 s. `Drain` keeps deadlines within `MaxNow`,
`MaxRegs`, `MaxCalls`, `MaxFlips`, `MaxAttempts`, `MaxFaults` and `MaxOutages`
bound counters that are unbounded in the code; in the edge `MaxRegs` is above
the number of registrations a run can make. Two deployments and two deregistrations
are the smallest number with an interleaving of commands of one kind. With three
names over two addresses, or with two replicas of which the first is removed before
the second is started, a container gets the address of one that was removed while a
command still holds it. In `steps`
six bytes hold a line that is too long with more than the pipe holds behind it,
more lines than the log shows, blank lines and a last line without an end.

Runs check for deadlock except where the system does stop: with the services
left out the server is quiet when the calls are used up, the edge is quiet when
every invocation has ended, and the steps end with the last one.

### Disagreements

Each of these runs checks one statement of the documentation, a comment, a
message or a test, which the code does not keep. `PROJECT.json` quotes them
under `findings`.

| Run | Property | What happens |
|---|---|---|
| `drained_selected` | `DrainedNotSelected` | a health cycle with an older list makes a drained backend selectable again |
| `lost_update` | `AcknowledgedChangesPersist` | a purge overwrites an acknowledged change: a registration is lost, a drained item is active again, a removed one is back |
| `purge_race` | `PurgeSparesInFlight` | a purge reads zero before a selected request counts itself |
| `counter_leak` | `CountersExact` | a retry overwrites the counter it holds |
| `wait_forever` | `CommandsEnd` | the drained container is registered again by a discovery and the wait never ends |
| `dead_listed` | `WatcherEvicts` | the watcher never evicts |

`AcknowledgedChangesPersist` and `CountersExact` appear in both tables: the passing
run shows the conditions under which they hold (no draining service, no retry), the
other one that the condition is needed. Of `CommandsEnd` what holds is
`CommandsEndUnlessRevived`: a command that does not end waits for an upstream that
nobody drains. The health checker never stores `items`; `registry` leaves
it out because `PoolFollowsItems` is about the API alone, and `lost_update` has
only the draining service beside the API.

That `upstream_peer` reads no Host, while `src/README.md` speaks of routing by
SNI and Host, needs no model: `select_backend` takes any active backend, and so
does `Select`.

Other properties are stated with their condition, because the code does not keep
them without it.

* `NoDeadUpstream` holds while nothing has failed, no discovery has begun to scan and
  targets were named, which is its own antecedent. Outside it the code does stop what
  is still listed: the wait before a stop takes any error for an eviction
  (`main.go:138`); a target given by address is looked for as a part of the text of
  each container's address (`docker.go:186`), and one given by name and address is
  drained at the address and stopped by name (`main.go:154`); a discovery may
  register a container between its eviction and its stop, or before the deployment
  that runs it, whose own registration is then refused so that it removes the
  container. Inside it the list is right even though the address of a target is
  resolved once (`main.go:96`) and may be another container's when it is used: that
  container's upstream is then evicted, but only the one that was named is stopped.
* `FailedDeployCleansUp` excepts two steps: a `docker run` that fails by chance ends
  the deployment without a clean-up, even if the daemon has started the container,
  and a `docker rm -f` that fails in the clean-up is not noticed. Any other failure,
  and a `docker run` that the daemon refuses, leaves nothing running.
* `DeployedServes` and `RemovesOnlyItsOwn` are checked for deployments of different
  names: with one name, the clean-up of one removes the container of the other, or
  its build takes over the other's tag. `RemovesOnlyItsOwn` allows one docker
  command to fail: `CleanupStoppedContainer` asks twice, after
  `deploySingleInstance` has asked once, so that with two failures a running
  container reads as a stopped one.
* `DiscoveryRegistersAll` is about what the code looks for (`Discoverable`): containers
  whose name the filter does not leave out, with one address, that answer at the one
  port `inspectApp` assumes and at one of its four paths. A deployment accepts any
  port and any endpoint, so that some of what it registers is not brought back. The
  property promises an upstream at that address and
  port, under the container's own name or that of a container which had the
  address before it. The code keeps no more: an invocation inspects a container
  which then dies, its address goes to a new one, the server loses its list, the
  invocation registers the address under the dead container's name, and the next
  discovery, whose registration is refused as a duplicate, counts it as done. That
  takes three invocations, more than `deploys` has; the theorem covers it.
* `FailureShowsItsEnd` and `CommandReturns` except lines that do not fit the
  scanner's buffer of 64 KiB: `scanner.Err()` is dropped, the rest is lost, and
  when the rest is more than the pipe holds, `cmd.Wait()` waits for a command that
  waits for a reader. `CommandReturns` states exactly that condition.
* `EventuallySettled` speaks of a purge that keeps a draining item only while it has
  requests and its deadline has not passed, as the code does; the comment above it
  reads as if either sufficed.

### Fairness

* A handler that has begun to store goes on: it has no await.
* The health checker and the draining service loop for ever: each waits on a
  timer, probes time out after 3 s, and neither loop has an exit but shutdown.
* Time passes.
* An invocation of the CLI that has begun goes on: every docker command returns. No
  HTTP request made in one has a timeout (`api.go`, `health.go`, `discover.go`). The
  API answers from memory; a backend that accepts a probe's connection and never
  answers is left out.
* In the edge, a draining item is purged, by its deadline at the latest.
* A docker command that can write or exit does so.

Nothing is assumed of callers, clients, requests that are in flight or backends:
they may stop at any point, and a server that has stopped need not be started.
The watcher is fair in the edge, and it changes nothing.

## 4. What is proved

Every invariant and every action property of a run that passes is a theorem, for
every value of the constants that the named assumptions allow: any number of
invocations, requests, API calls, registrations, containers, addresses, names,
faults, outages and steps, and any bounds. Beyond those assumptions a theorem
assumes only what it lists as `ASSUME`. Each hypothesis is either true of the
program as it is deployed or what separates a property the code keeps from one it
does not, and the passing run that checks the property satisfies it.

### Assumptions on the constants

They are declared with the constants, and TLC evaluates them on every run that
uses them. Most give types. Those that say more: an address is of one kind, IPv4,
IPv6 or malformed, and normalising a name twice is normalising it once
(`UpstreamsAssumption`); an address is part of its own text
(`DockerAssumption`); the name generated for an unnamed deployment is usable in a
URL (`FlagsAssumption`); a host name built from a container and a suffix is never
blank, since it has a dot in it (`HostnameAssumption`).

| Hypothesis | Says | Why |
|---|---|---|
| `MaxAttempts = 1` | a request gets one upstream | `counter_leak` shows that a retry breaks the properties that need it |
| `OneApiTask` | one API call at a time | Pingora gives a background service one thread, and a handler that stores does not await |
| `NoPurges` | no draining service | `lost_update` shows that a purge breaks the property |
| `OnlyApi` | no background service | `drained_selected` shows that a health cycle breaks the property |
| `NamesApart` | different invocations deploy containers of different names | with one name, the clean-up of one removes the container of the other |
| `TagsApart` | they share an image tag only when neither builds it | the tag is made from the base name alone |
| `NoEvictions` | nobody deregisters | a deregistration takes out on purpose what the property says is there |

### The server

`UpstreamsProofs` has the lemmas about records and rebuilt pools that several
proofs need; the others stand with the invariant they serve.

* `TypeCorrect`, `UniqueAddrsCorrect`, `CountersCoverCorrect`: no hypotheses, so
  with any number of API tasks and with all services. `UniqueAddrs` is not
  inductive, since `items` is overwritten by lists built earlier. The invariant
  is `DistinctLists`: `items`, the list every handler is about to publish and the
  list a purge has loaded all have distinct addresses, and what a purge keeps is
  part of what it loaded. Register keeps it because of its check, deregister and
  purge because they take away, drain because it changes neither address nor
  identity. `CountersCover` is inductive with the types; a retry that overwrites
  a counter only makes its holders fewer.
* `CountersExactCorrect` (`MaxAttempts = 1`): the strengthening is
  `NoEarlyCounter`, a request that has not yet counted itself holds no counter,
  so `CountUp` never overwrites one.
* `FoundAtItsBackendCorrect` (no hypotheses) and `CountedAtItsBackendCorrect`
  (`MaxAttempts = 1`). The invariant `OneAddress` collects every item that is
  anywhere in flight: the three cells, the list each handler, health cycle and
  purge holds. Two of them with one id have one address, and none has an id that
  is still to be given out. So the id a request found is that of its address for
  good, although all three cells may be overwritten by older ones meanwhile
  (`FoundOld`, `HoldsWhatItFound`).
* `AcknowledgedChangesPersistCorrect` and `RegistryAtomicCorrect` (`OneApiTask`,
  `NoPurges`; health cycles and requests may run). `AllPending` says what the one
  handler that has begun to store will make of `items`, in terms of `items` as
  they still are: add one, remove one, or set one to draining. From it
  `ApiStoreItems` is exactly one step of `UpstreamRegistry`, every other step is
  a stutter, and `ToldTruth` says that `items` agree with the last answer about
  each id.
* `PoolFollowsItemsCorrect` and `UncountedOnlyWhileChangingCorrect`
  (`OneApiTask`; both properties are about a server without background
  services), from `PoolInStep`: which of the cells are of the new list at each of
  the three stores.
* `DrainedNotSelectedByApi` (`OneApiTask`, `OnlyApi`): the statement that
  `drained_selected` refutes holds for the API by itself, so the background
  services are the whole of that disagreement.

### The edge

* `EdgeOKCorrect`, `ClusterTypeCorrect`: no hypotheses. `EdgeOK` is the type
  invariant all others build on; `Histories` says that every container event still to be
  handled is in the history.
* `FailedDeployCleansUpCorrect` (`NamesApart`), from `ImagesClaimed`: what runs an
  image of a deployment is claimed by a deployment that has started it and not
  given it up, or was left by one whose `docker run` or `docker rm` has failed.
* `RemovesOnlyItsOwnCorrect` (`NamesApart`, `TagsApart`), from three facts about each
  deployment: its image is ready when it says so (`ImageReady`), what it has
  started is its own (`RunsItsOwn`), and how many failures it takes to get past
  each question of the clean-up (`Careful`).
* `DeployedServesCorrect` (`NamesApart`, `TagsApart`, `NoEvictions`), from
  `Standing`: as long as nothing has died or stopped, what a deployment has
  started runs at the address it knows, and what it is done with is listed there
  under its name; a registration that was refused or not acknowledged makes the
  deployment give its replica up.
* `DiscoveryRegistersAllCorrect` (`NamesApart`, `NoEvictions`). Running containers have
  addresses of their own (`OwnAddresses`); an invocation's address is or was that
  of the container at hand (`KnowsAddress`), and so the name of every item is that
  of a container which had the address (`ItemsNamed`). `Current` says, for a
  discovery during which nothing has stopped, where each container it looks for
  is: still to be looked at, at hand, listed, or in the hands of a
  deployment that has not ended. A discovery goes on whether or not its
  registration is accepted; when it is refused as a duplicate, the address is
  listed already.
* `NoDeadUpstreamCorrect` (`NamesApart`; any number of deployments, replicas and
  deregistrations, and any reuse of addresses). The condition of the property is
  about the present state, and once it fails it stays so (`StillQuiet`). While it
  holds, a discovery can only fail (`NoScans`), and the invariant `Settled` has four
  parts. `Up`: an upstream is at a running container
  whose deployment is done with it. `OneEach`: no two upstreams have one address and
  port. `HasStarted`: a deployment that is about to register holds the address of the
  container it runs. `Aimed`: the address a deregistration holds is that of the
  container it was given; or that container does not run any more and, since
  deployments have names of their own, will not be started again, so that whatever
  has its address now is not what will be stopped (`StartedOnce`). A deregistration
  that stops its container has seen the address leave the list, and nobody registers
  it again while that container runs (`NotRegisteredAgain`).

### A step

* `ScreenFaithfulCorrect`: from `Drawn`, which relates the rows on the screen to
  the state of the step and to the lines kept, after every action.
* `FailureShowsItsEndCorrect`: from `LogInv`, by which the scanner has passed on
  every line before the one it is at, of which it holds the bytes; so the last
  lines kept are the last lines written, unless one was too long.

Both hold for any output, any number of steps and any sizes of pipe, scanner and
log.

### Only model-checked

Liveness under fairness (`EventuallySettled`, `CommandsEndUnlessRevived`,
`CommandReturns`)
is out of reach of the prover. The statements of the runs that find a violation
are false, so there is nothing to prove of them; what remains true of three of them
is a theorem above (`AcknowledgedChangesPersistCorrect`, `CountersExactCorrect`,
`DrainedNotSelectedByApi`).

## 5. Not modelled

Help texts, colours, the layout of the table and the wording of messages; the
registry's host name in a login; the text of health endpoints beyond its
validation and the paths at which a program answers; backends that accept a
connection and never answer; the handlers a graceful shutdown waits for; the status query's
missing normalisation of `sni`, which no caller in the repository sends; the
configuration of the server, of which only the selection algorithm matters to the
model, as any choice; the sample application, the build files and the tests.
`PROJECT.json` says so per component and per hazard.

## 6. Plan

Done, in this order: the server and its services; the abstract registry; the
first theorems; the edge; flags, images, the network and a server that stops; the
live output of a step.

The proofs of every invariant and action property of the passing runs are done as
well.

Left, in proving: fewer hypotheses. `NoDeadUpstream` beside discoveries needs a
condition about what a discovery has inspected before it was taken out;
`DeployedServes` and `DiscoveryRegistersAll` beside deregistrations need one about
targets that were taken out on purpose.

Left, in modelling: the edge above the server itself instead of
`UpstreamRegistry`, to see a command meet a lost update; deployments of one name
at the same time; longer histories of commands.
