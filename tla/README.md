# beachhead-companion: specification, model checking and proofs

`beachhead-companion` is a small Rust daemon for service registration. It reads
the environment variable `BEACHHEAD_DOMAINS` of Docker containers and publishes
the domains found there in Redis under keys that expire, so that "published
configuration will disappear unless continuously refreshed" (README of the
repository). This directory holds TLA+ models of it, TLC configurations that
check them on small instances, and theorems proved with TLAPS.

Paths such as `companion.rs:365` are relative to `src/src/` of the repository.

## 1. Inventory

| component | state it keeps | operations | talks to |
|---|---|---|---|
| pass loop (`companion.rs`) | errors of the pass, work list of names, next watchdog deadline | `run`, `Context::{enumerate, inspect, publish, wait, notify_status}`, `refresh_container` | inspector, publisher, signal channel, service manager |
| docker inspector (`inspector/docker.rs`) | client connection | `enumerate`, `inspect` | docker daemon |
| redis publisher (`publisher/redis.rs`) | client connection, opened anew for every publication | `publish`, `service_key` | redis server |
| JSON serializer (`publisher/json_serializer.rs`) | none | `domain_configs` | |
| domain specifications (`domain_spec.rs`) | none | `parse_all`, `spec_id` | |
| configuration (`common.rs`) | `Config`, shared and immutable | `stay_calm_and`, `stay_very_calm_and` (exit status) | |
| command line (`main.rs`) | `Args`, then `Config` | `args_transform`, `deconstruct`, `read_systemd_config`, `init_log`, `main` | systemd (watchdog interval) |
| systemd unit (`example-setup/`) | restart and watchdog settings | restart on failure, kill on watchdog time-out | the process |
| test doubles and tests (`mock_inspector.rs`, `mock_publisher.rs`, `mod tests`) | answers to give, publications recorded | `enumerate`, `inspect`, `publish` | `Context`, without docker and redis |

The process is a single thread. What is concurrent is everything it talks to:
containers start, stop and change address between any two of its calls, docker
and redis come and go, signals arrive in a channel filled by another thread,
keys expire, the service manager counts. The companion itself remembers nothing
from one pass to the next (`errors` is cleared, the index of names is built
anew): all that lasts is in redis.

What is hard, and what has to be true of each component:

* **Pass loop, failure.** An error at any of four places (enumeration,
  inspection, missing variable, publication) is reported according to two
  policies and to whether the container was listed explicitly. One container's
  failure must not cost another its turn; an error that was logged loudly must
  be kept, because a run-once companion's exit status is all its caller sees.
* **Pass loop, termination.** The channel of signals is looked at without
  blocking before every wait, and again in a select that picks any ready
  channel. Every signal must end the process, and soon.
* **Pass loop, time.** Two timers in the select: the refresh timer is made once
  for each wait, the watchdog timer in every turn. Pings must be frequent enough
  for the service manager and must not postpone the refresh.
* **Pass loop, hanging.** No call to docker or redis has a time-out. A process
  in a call that does not return neither pings nor sees its signals; the service
  manager must end it, and what was registered should live through that.
* **Inspector and publisher, staleness.** An inspection is acted on after the
  container may have changed; addresses are reused; redis keys are shared by
  containers with the same host. Entries must become right, and wrong ones must
  go away.
* **Publisher, boundary.** With and without expiration the value takes
  different paths to redis, and the number of specifications matters.
* **Command line, arithmetic.** Defaults computed by truncation, zero meaning
  "never".
* **Domain specifications, parsing.** Defaults that depend on all parameters, the
  last mention winning, one malformed port failing everything.

`PROJECT.json` lists these hazards at their lines, each with the properties
that watch it. One, that two domains can have the same id, has none: the
repository promises nothing of ids.

## 2. Modules

| module | models | state |
|---|---|---|
| `Common` | `Config`, the handling enums, names, containers, domain lists | constants only |
| `Inspector` | `DockerInspector` over an external docker daemon | `docker`, `dockerUp` |
| `Publisher` | `RedisPublisher` over an external redis | `redis`, `redisUp` |
| `Refresh` | what the pass loop decides by itself: which names, which failures are errors | operators only |
| `Companion` | `run`, `Context`, `refresh_container`, composed with the two above, signals, crash and restart | `config`, `pc`, `names`, `todo`, `current`, `errors`, `log`, `exit`, `signal`, ... |
| `Registry` | abstract: what a consumer of redis may rely on; implemented by `Companion` | `world`, `registry`, `hand` |
| `Turns` | abstract: what each container gets from the pass loop; implemented by `Companion` in a docker network, and by `Lease` and `Supervision` | `phase`, `step`, `held` |
| `WaitLoop` | the timers of `wait` and `notify_status`, and the service manager's patience | `phase`, `passed`, `waited`, `sincePing`, `heard`, `lost` |
| `Lease` | `WaitLoop` with the key of one container in redis | adds `step`, `ttl`, `missed`, `gone` |
| `Supervision` | `Lease` with calls that hang, under the service manager of the example unit: ABRT, KILL, restart | adds `process`, `aborted`, `timer`, `hung` |
| `Startup` | `main`: `args_transform`, `init_log`, `deconstruct`, `read_systemd_config`, exit status | `pc`, `argv`, `args`, `level`, `config`, `status` |
| `DomainSpec` | `parse_container_env_vars` and `parse_all`, loop by loop | `lines`, `captures`, `params`, `spec`, `specs`, `envvar_present`, `result` |
| `Document` | the JSON document of `json_serializer.rs`, and what a reader learns from it | operators only |
| `TestBench` | `Context` between the two test doubles | `given`, `calls`, `pendings`, `todo`, `errors`, `publications`, `do_continue` |
| `UnitTests` | the unit tests of `companion.rs` as what they are given and what they assert | as `TestBench` |
| `MCCompanion`, `MCLease`, `MCSupervision`, `MCStartup`, `MCDomainSpec`, `MCUnitTests` | constants for TLC | |
| `CompanionProofs`, `PassProofs`, `ContractProofs`, `TimingProofs`, `SupervisionProofs`, `StartupProofs`, `DomainSpecProofs`, `BenchProofs` | theorems | |

### Companion, Inspector, Publisher

Every action of the process makes at most one call to the outside, so that the
outside can move between any two calls.

| action | code |
|---|---|
| `NotifyReady`, `NotifyReadyFails` | the initial READY of `run`; its failure returns an error before the first pass |
| `Enumerate` | `Context::enumerate` and the start of the iteration; `container_index` is the `HashMap` in which an explicit name wins over an enumerated one |
| `RefreshContainer` = `InspectFails`, `EnvVarMissing`, `DryRun`, `Inspected` | `refresh_container` up to the call of `publish`, one disjunct per way it goes on; names come in any order, as from the `HashMap` |
| `Published`, `PublishFails` | `publish` and the rest of `refresh_container` |
| `EndPass`, `CheckSignal`, `SelectSignal`, `SelectRefresh`, `SelectWatchdog` | `Context::wait`, with the two looks at the signal channel |
| `Shutdown` | the last branch of `run`, with the exit status |
| `Crash`, `Restart` | the process is killed; `Restart=on-failure` of the example unit |
| `DockerMoves`, `RedisMoves`, `Expire`, `DeliverSignal`, ... | the world outside |

`log` keeps the records of the pass that `refresh_container` writes, because
what is logged as a problem and what is returned as an error are supposed to
agree. `late` counts passes begun while a signal was waiting and `quiet` says
that nothing outside has moved since the pass began, be it in the middle of an
outage; both are history that no guard reads. A container's variable is missing, malformed or a list of domains;
`inspect` fails for the malformed one. A redis value has a shape (array or
bare object), a host, a list and perhaps a time to live. A broken connection
may break after the command took effect: `PublishErr` then has written.

A notification to the service manager that fails changes nothing except at
start-up, so the later ones are not steps of `Companion`.

### Registry

The abstract specification knows neither docker nor redis, neither passes nor
policies. The world offers entries for slots; one offer at a time is taken in
hand as it is at that moment, and put into its slot or dropped; entries lapse.
`Companion` says with `Contract == INSTANCE Registry WITH ...` how it does that:
the world is what inspections of the names would make it publish (`World`,
nothing at all in a dry run), the hand is the publication between `inspect` and
`publish`, the registry is redis. `KeepsContract == Contract!Spec` is checked
in `expiry` and proved. It rules out what no invariant on redis alone sees: the
address of one look under which the domains of another are written, a write of
something that nobody ever looked at, a second write of an old look, an entry
taken out. What is in hand may be out of date when it is put, and `Registry`
allows that: the code does.

### Turns

The second abstract specification sees the pass loop from the side of the
containers: in every pass each has exactly one turn, turns do not overlap, an
entry is written only in its owner's turn and after an inspection in the same
turn, and a pass that is not cut short is over when all turns are. It is what
`Lease` and `Supervision` take for granted when they follow one container
through the passes, and it connects them to `Companion`: all three map onto
`Turns` (`Rota`, `SupervisedRota`) and are shown to implement it. For
`Companion` it holds of the explicit names under `--docker-network`
(`TakesTurns`): by address, a container can be given the host, and so the entry,
that another one had a moment ago.

### WaitLoop, Lease

Ticks are of any length. A pass takes up to `MaxPass` ticks and pings when it
begins and when it ends; during the wait the watchdog timer pings at 45% of the
service manager's interval, rounded down. Any ping may be lost, but not two in a
row. A process that has something to do does it before the next tick; in a
select with both timers ready either is taken. `Lease` adds one container and its key:
each pass inspects and publishes it at some moment (`Inspect`, `Publish`), may
miss it (`Miss`, not twice in a row), and the container may go at any moment,
also between the two.

### Supervision

A pass that takes no longer than `MaxPass` is the pass of `Lease`; whatever a
call takes beyond that is a hang, of any length (`Hangs`, `Returns`). A call
that returns late has either succeeded, or failed and ended the container's
turn. After `WatchdogSec` without a ping the service manager sends ABRT
(`WatchdogExpires`), which the process sees only in its next wait (`Stops`) and
may still overlook in the select (`BeginsPass`); after `TimeoutSec` it kills
(`Kills`), and after `RestartSec` it starts a new process (`Restarts`). The
process is one of `Lease`: `Supervision` uses its actions and adds to them.

Two things came out of writing `HangIsBridged` down. A pass is not always
granted the whole `WatchdogSec`, as the unit has it: if the ping at its beginning
gets lost, 55% is what is left. And a call that hangs for ever costs the lease
less than one that hangs for a while and then fails, because a restarted process
begins with a pass, but a failed one waits for the next refresh first; the
property excludes that case by name (`lateError`), and the case is real.

### Startup, DomainSpec

`Startup` follows `main` call by call with the flags whose meaning it changes;
`argv` keeps what was given so that properties can compare it with what was made
of it. Seconds are numbers here; `Common` has of them only whether they are set,
and `WaitLoop` and `Lease` their amounts. How `run` can return (`RunOk`,
`RunErr`) is what `Shutdown` and `NotifyReadyFails` of `Companion` do.

`DomainSpec` has one action per thing a turn of the loops can do. The regular
expression, the splits and the folding to lower case have been done: a line is a
sequence of domains with parameters, a value is a port, malformed, or not there.
The expression lets a name end in one dot (`Fqdns`), which the loop takes off
(`ChopDot`); that a name without it is all that is ever parsed, whatever was
written, is part of `TypeOK` and of `ParsesAsDocumented`.
Its outcome (present or not, error or list) is the field `env` of a container in
`Inspector`. `Document` makes the JSON objects of the parsed specifications and
reads them back; an object is a function from its fields to their values.

### TestBench, UnitTests

The unit tests of `companion.rs` run `Context` between two doubles that answer as
they are told. `TestBench` models the doubles and the three calls the tests make,
with the decisions of `Refresh` that `Companion` uses too. Each test is a
definition under the name of its function with two fields: `given`, the
configuration and the answers, and `then`, what it asserts. `TestsHold` says that
the model passes the tests. That checks the model more than the code; the code
is covered by `PassIsSumOfItsContainers`, on every setting of the doubles for
two containers. The tests of `domain_spec.rs` and `docker.rs` need no module of
their own: their inputs are of the kind that the run `parse` goes through, a name
with a dot at its end and the one of the test `complex` among them.

## 3. Runs

Bounds: two containers with one name each are enough for every interaction of
two names in a pass (rivalry for a key, one failing before or after the other,
an address that moves from one to the other), since a pass treats names one by
one and a third name only repeats what one of the two does. `MaxMoves` bounds
container changes, outages and crashes; expirations, recoveries, restarts and
signals are unbounded.

| run | instance | shows |
|---|---|---|
| `churn` | daemons by address and by name, and run-once companions with all 24 combinations of enumeration, dry run and handling, or without an expiration; a explicit, b not; 2 moves | `AtMostOnePassAfterSignal`, `EveryNameGetsItsTurn`, `ErrorsAreTheLoudRecords`, `CleanExitMeansRegistered`, `EveryKeyIsServed`, `AddressedGetRegistered`, `QuietPassBlames`, `WindsDown`, and `TakesTurns`: the refinement of `Turns` by the one explicit name, whose entry the enumerated one might touch; two moves suffice for "outage and change" and "stop, then start with the other's address" |
| `converge` | one container, a supervised daemon and a supervised run-once companion; 2 moves, fairness | `StopsWhenAsked`, `KeepsRefreshing`, `Converges` |
| `expiry` | two containers, enumeration only; 2 moves, fairness | `StaleEntriesVanish`, and `KeepsContract`: the refinement of `Registry` |
| `lease` | half-second ticks, expire 60 s, refresh 27 s, watchdog 10 s, passes up to 1.5 s; fairness | `LeaseHeld`, `GoneInTime`, `TwoChances`, `WaitsEnd`, `WaitRunsOut`; `LeaseTakesTurns`: a refinement of `Turns` |
| `supervise` | the same, with TimeoutSec 5 and RestartSec 10 of the example unit, and calls that hang for any time; fairness | `KilledOnlyInALongPass`, `HangIsBridged`, `PassesGoOn`, `NoCircles`, `SupervisedTakesTurns` |
| `startup` | all flags, expire 0 to 61, refresh not given, 0 or 50, watchdog off or 10 s | `DefaultRefreshLeavesRoom`, `DryRunIsHeard`; 0, 1 and 2 are where the default turns into run-once mode |
| `parse` | one line with two domains of up to two parameters or one of three; two short lines, either of another variable; the environment of the unit test `complex`; names with and without a dot at the end | `ParsesAsDocumented` (against a definition without loops), `FailsIffMalformed`, `DocumentTellsAll`; two mentions of a protocol around an unknown parameter fit, and so does an error after a finished domain |
| `bench` | the 17 unit tests, and every pass over two containers: all policies, explicit or not, enumerated, not or failing, five answers of the inspector each, a publisher that refuses one domain or none | `TestsHold`, `PassIsSumOfItsContainers` |

Four further runs refute a statement of the repository about itself:

| run | statement | what the code does |
|---|---|---|
| `missing_ignored` | `common.rs:105` "Ignore containers that cannot be inspected"; `main.rs:95` | an explicit container that cannot be inspected is an error even so |
| `stopped_expires` | `common.rs:99-100` "If it's not there, don't publish its configuration (let it expire)" | an explicitly listed container that has stopped is published for ever |
| `no_expire` | `test_redis_publisher.rs:224` "top-level value stored in redis must be an array" | without an expiration it is a bare object |
| `at_least_ten` | `main.rs:74` "Defaults to 45% of the expiration time. At least 10 seconds." | no minimum; `--expire=1` and `2` register once and exit |

The statement about stopped containers is why `expiry` has no explicit names:
with enumeration, which lists running containers only, `StaleEntriesVanish`
holds. `Converges` speaks of names without a rival for their key (`Unrivalled`).
Of rivals the one that comes last in the pass wins: the key ends in
the host, not in the container name as `common.rs:57` has it, and containers
outside the default bridge have the same, empty, host. What rivals can still rely
on is `EveryKeyIsServed`: the key holds the current entry of one of them, not
what an earlier pass left there. `AddressedGetRegistered` says that nobody else is
affected: who has a host has the key to itself. Both are about passes in which
redis answered; `QuietPassBlames` is about those within an outage too: an
enumeration that fails is an error, unlike an empty host, and so is a
publication of which only the reply was lost.

Three action properties say why something that must happen does. Each names a
number that cannot go below zero and that every step makes smaller:

* `WindsDown`: once the process has been asked to end (a signal waits, or it runs
  once only), that request is never lost, and what is left of the pass, the wait
  and the shutdown shrinks with every step of the process and with no step of the
  outside grows. It does not shrink only while a daemon that nobody has asked goes
  from one pass to the next.
* `WaitRunsOut`: every step within a wait, a ping no less than a tick, brings the
  refresh timer nearer.
* `NoCircles`: hangs, late answers, lost pings, ABRT, KILL and the time they
  take use up what the next pass must come from. Only a beginning pass or a
  restart, which begins with a pass, replenishes it.

`TwoChances` is conditional for a reason: no ping is sent during a pass (the
example unit says so). A pass longer than 45% of the interval, though shorter than
the interval, leaves a single chance, not the two of `companion.rs:231`.

Deadlock is checked in every run; a process that is gone for good stutters
(`Terminated`).

### Fairness

`FairSpec` of `Companion` assumes

* WF of `Process`: the thread runs and the calls return. The code sets no
  time-outs on docker and redis calls, so this is an assumption about them.
* SF of `SelectRefresh`: pings do not win every select. This is justified in the
  code by the refresh timer being made once per wait while every ping pushes its
  own deadline away; `WaitLoop` has these timers, and `WaitsEnd` (checked under
  weak fairness only) is the fact that this strong fairness stands for. Its core,
  `WaitRunsOut`, is proved for all periods.
* WF of the three recoveries, of `Restart` and of `Expire`: outages end, systemd
  restarts what failed, redis expires what has a time to live.

No fairness is assumed of signals or of anything else outside.

`FairSpec` of `Lease` and `SupervisedSpec` assume WF of their next-state
relations: time does not stand still while somebody has something to do, or
while nobody has. In `Supervision` that is no assumption about calls: a hanging
call may hang for ever, and `PassesGoOn` then rests on the service manager.

## 4. Proofs

All theorems hold for every value of the constants under the named assumptions:
in `Common` that docker resolves the name it lists to the container it lists it
for, that the sentinel values are none of the proper ones, and that configurations
are well typed; in `WaitLoop` and `Lease` that the periods are positive and that
a watchdog interval has at least 3 ticks (at 1 or 2 ticks, 45% rounds to zero).
In `Startup` the numbers of the command line are natural numbers; in `DomainSpec`
the words for "missing" and "malformed" are no ports and every name written
with a dot at its end has one without it, and in `TestBench` there are
finitely many names and fixtures are what the types of the doubles allow. A host
has finitely many containers (`FiniteAssumption` in `Common`): only
`TheEndComesNearer` needs that, because it counts the names of a pass.
TLC evaluates these assumptions in the runs.

| theorem | argument |
|---|---|
| `TypeCorrect` | `TypeOK` is inductive: one lemma per part of the pass |
| `SignalsHonoured`: `AtMostOnePassAfterSignal` | `LateInv`: no pass has been late where another can begin, since the non-blocking look lets the process into the select only when no signal waits, and while a late pass runs the signal stays in the channel |
| `QuietPassesServe`: `EveryKeyIsServed` | `QuietInv`: while nothing outside moves, the names of the pass are the scope, what is in hand is what another look would give, and the key of every name dealt with holds the entry of some name that wants it; a later publication under that key replaces it with the entry of another such name |
| `QuietPassesRegister` | from `QuietPassesServe`: without a rival, some name that wants the key can only have the same entry |
| `QuietPassesTellTheTruth` | from `QuietInv`: `NothingStaleIsWritten`, an action property that no run needs (TLC agrees on the instance of `churn`), about writes with a lost reply too; only redis' own expiry then touches what nobody wants |
| `TheEndComesNearer`: `WindsDown` | `WaitInv`: only daemons wait. `ProcessWinds` goes through the steps of the process, where a pass loses a name from `todo` with each turn (`Sizes`, `EnumerateFinite`); `OutsideWinds` through the rest, which leaves `pc` and `todo` alone |
| `NobodyIsPassedOver`: `EveryNameGetsItsTurn` | `TurnInv`: every name of the pass is in `todo`, in hand or in the log, and an explicit one that is done has its verdict: an error or one of the ways to go without |
| `ProblemsAreKept`: `ErrorsAreTheLoudRecords` | inductive with `TypeOK`: the places where a loud record is written are those where an error is pushed |
| `ExitStatusIsHonest`: `CleanExitMeansRegistered` | `ExitInv` and `TurnInv`: no errors at the end means that all verdicts are harmless, and run-once companions do not forget errors between passes |
| `NobodyIsDisplaced`: `AddressedGetRegistered` | `AddressInv`: only running containers have an address, and no two the same; with it whoever has a host is unrivalled, and `QuietPassesRegister` applies |
| `BlameIsDeserved`: `QuietPassBlames` | `BlameInv`, on top of `QuietInv`: the errors are always those that the names dealt with deserve, and that of a failed enumeration; a publication fails because redis refuses it or is down, and neither has changed since the pass began |
| `ContainersTakeTurns`: `TakesTurns` | each action maps to an action of `Turns` or a stutter; `OwnHostInv` is what this needs: what is in hand bears its own name as host, and its turn is not still to come |
| `CompanionKeepsContract`: `KeepsContract` | initial states map to initial states, and each action to one of `WorldMoves`, `Look`, `Put`, `Drop`, `Lapse` or a stutter: `RefreshKeepsContract`, `PublishKeepsContract`, `SameWorld`. `TypeOK` is what makes the hand a member of `Offers` |
| `WaitTypeCorrect` | inductive; a tick needs the refresh timer not to be due |
| `TwoChancesGiven`: `TwoChances` | `PingInv`: two pings are never further apart than the ping period, and what was heard is one of the last two; twice the ping period is less than the interval (`TwoPingsFit`) |
| `WaitsComeToAnEnd`: `WaitRunsOut` | `WaitLeftStep`: two steps are counted for every tick left and one for a ping that is due; `PingsAreApart` is why a tick can make a ping due but a ping cannot |
| `LeaseKeepsTime` | every step of the lease is one of `WaitSpec` or leaves the clocks alone; `LeaseInTime` takes `TwoChances` and `WaitRunsOut` over to it |
| `LeaseTypeCorrect` | from `WaitTypeCorrect`'s step, since every step of the lease is a step of the clockwork or leaves it alone (`LeaseClock`) |
| `LeaseNeverLapses`: `LeaseHeld` | `LeaseInv`: the key has at least `Expire - Age` to live, where `Age` bounds the time since its last renewal by the phase and by whether the last pass missed |
| `TypeCorrect` of `StartupProofs` | inductive; no amount of the configuration is 0, and the refresh period that `deconstruct` unwraps is there |
| `DefaultsLeaveRoom`: `DefaultRefreshLeavesRoom` | `DefaultInv` traces both amounts back to `--expire`; `DefaultRefreshBounds` is the arithmetic. This is the part of `LeaseHeld`'s condition that start-up provides; what is left of the expiration is for three passes |
| `GoneContainersExpire`: `GoneInTime` | `GoneInv`: a publication in hand is no older than the pass, and a key that lives on was renewed no later than that |
| `SupervisedTypeCorrect` | from `LeaseTypeStep`, hangs and restarts apart |
| `OnlyLongPassesAreKilled`: `KilledOnlyInALongPass` | `ClockInv`: during a pass only time moves what the service manager has heard, which is as old as the pass, or a ping period older if the first ping was lost; in a wait, a ping comes before the interval is over |
| `HangsAreBridged`: `HangIsBridged` | `HangInv`: by phase, process and whether the container was missed, how long ago the entry was renewed at most: a pass and a wait before the hang, the interval and the time-out during it, the delay and a pass after it |
| `PassesComeNearer`: `NoCircles` | `SupplyInv`: no deadline of the service manager is overrun, so that no supply is negative (`Supplies`). `SuppliesShrink` goes through the actions: within a pass at one moment, within a pass with time or ABRT, within a wait (`WaitLeftStep` again), from a pass to its wait, from a process to its end |
| `DryRunsAreHeard` | the flags are traced from `argv` through each step of `main` |
| `LeaseIsATurn`: `LeaseTakesTurns`, `SupervisedIsATurn`: `SupervisedTakesTurns` | step by step; under supervision with `HungInv`: only a process in a pass hangs |
| `TypeCorrect` of `DomainSpecProofs` | inductive |
| `ParsesRight`: `ParsesAsDocumented`, `FailsRight`: `FailsIffMalformed` | `ParserInv`, one part per loop: what is left is a suffix of what there was, what is done is what the documentation has for the prefix, and the specification in hand is what it has for the parameters seen so far |
| `DocumentsAreUnambiguous` | `ObjectTellsAll`: what is read from an object is what it was made of, the host as long as there is a port; equal documents then have equal readings |
| `DocumentsTellAll`: `DocumentTellsAll` | `ParserInv` says that every finished specification has a port; `ObjectTellsAll` does the rest |
| `BenchTypeCorrect`, `PassSumsUp`: `PassIsSumOfItsContainers` | `BenchInv`: errors and publications count the names dealt with; `TimesAppend` and `CountName` say how a count over a sequence grows with one element and how one over a set does |

None of the properties is inductive by itself: `late \leq 1` says nothing of
where the process is, and `EveryKeyIsServed` speaks only of the end of a
pass. Each strengthening was checked with TLC on the instances above before it
was proved.

The parser's loops and the bench build sequences, and what they compute is a
fold over what they were given. An induction over sequences is not available as
a theorem one could instantiate here, so `DomainSpecProofs` makes its own from
the well-foundedness of the natural numbers: `LeastNumber` (a set of numbers that
is not empty has a least one) and `SetInduction` for facts that can be said as a
set of numbers. `FlattenUnfolds` is the fact about `FlattenSeq` that the parser
needs.

Only model-checked: the liveness properties (`StopsWhenAsked`, `KeepsRefreshing`,
`Converges`, `StaleEntriesVanish`, `WaitsEnd`, `PassesGoOn`), since fairness and
`ENABLED` are out of the prover's reach. What leads to them step by step is
proved: `WindsDown` for `StopsWhenAsked`, `WaitRunsOut` for `WaitsEnd`,
`NoCircles` for `PassesGoOn`, `QuietPassesRegister` for `Converges`,
`QuietPassesTellTheTruth` for `StaleEntriesVanish`. What TLC adds is that a step
which shortens the way is always there to be taken, and taken. Also only
model-checked is `TestsHold`, which is about the particular inputs of the unit
tests, all of which TLC goes through.

## 5. What is not modelled

* The regular expression of domain names and the JSON text. Ids are a table
  (`IdOf`): nothing is claimed of them, the tests' assertion of their alphabet
  (`assert_valid_id`) included, and what else they should be is not said anywhere.
* docopt's parsing beyond the demand for something to look after, `RUST_LOG`, and
  the log format. Arguments that are only handed on are left out of `Startup`.
* The link from `Startup` to `Companion`: `Configs` there is any set of
  configurations, chosen to be ones that `Startup` can make.
* In `Companion`, calls that never return: an outage there is a call that fails.
  Hanging calls are in `Supervision`, for one container that stays.
* A wall clock that is set. `wait` and `notify_status` compute with local time,
  but what waits is a timer over a duration, made right after the deadline was
  (`companion.rs:118`, `:162`): only a clock that is set between the two
  would be noticed.
* Other writers of the same redis keys, redis losing its data, and consumers
  beyond what `Registry` lets them rely on.
* Opening the docker client as a step of its own: its failure is the failure of
  the call.
* Log lines other than those of `refresh_container`, and log levels' filtering.
* Of the tests, those that need a redis server (`test_redis_publisher.rs`; what
  it asserts of a value's shape is the run `no_expire`), and those of `domain_spec.rs`,
  `docker.rs`, `main.rs`, `common.rs` and `json_serializer.rs`: `DomainSpec`,
  `Startup` and `Document` are checked over all inputs of their kind.
* The library root (`lib.rs`): declarations only.

## 6. Plan

1. `Program`: `Startup` and `Companion` composed, from the command line to the
   exit status, so that promises about flags are checked on the whole process.
2. `LeaseHeld` for every explicit container of a docker network at once, by
   giving `Turns` the clocks of `Lease`.
3. An instance with one container under two names. Docker lists names with a
   leading slash, so that an explicit name and a listed one differ. The theorems
   cover it (`Target` is any function there); the runs have one name each.
