# polaris-php, specified

polaris-php is a PHP extension over the polaris-cpp SDK. A script makes a
`PolarisClient`, enables up to three APIs on it (provider, consumer, limit) and
calls them with PHP arrays; the extension turns the arrays into SDK requests and
the answers back into arrays. `polaris.class.php` wraps the client in a class
`Polaris`. The SDK itself is not in the repository, only its headers
(`src/include/polaris`).

This directory models the native object, the requests the extension builds, and
what they lead to: the lease of a registered instance, the circuit breaker that
call results feed, the quota a process draws on, and the copy of the server's
data that lookups answer from.

## Inventory

| part | source | state | operations | what makes it correct |
|---|---|---|---|---|
| native object | `polaris/polaris_core.hpp` | `globalCtx`, `provider`, `consumer`, `limit`, `mtx`; the heap of SDK objects | allocation, `__construct`, `InitProvider/Consumer/Limit`, eleven API methods, `polaris_core_free_storage` | one API per kind and context, no use of a deleted object, nothing leaked or deleted twice, calls never wait for the mutex |
| array conversion | `include/utils.hpp`, `polaris/common.hpp` | none | `TransferToStdMap`, `TransferMapToArray`, `getKeyLength` | what a script wrote under a documented key arrives |
| provider requests | `polaris/provider_core.hpp`, `examples/quickstart/provider` | the server's record of the instance, the script's loop, requests in flight | `Register`, `Deregister`, `Heartbeat` | an instance that is kept alive is healthy; one that is not fades |
| consumer requests | `polaris/consumer_core.hpp` | the SDK's breaker per instance and its copy of a service; what a script was told | `InitService`, `GetOneInstance`, `GetInstances`, `GetAllInstances`, `UpdateServiceCallResult` | failing instances are cut off, recovered ones come back, dead ones are forgotten in bounded time, routing rules see the caller |
| quota requests | `polaris/limit_core.hpp` | the SDK's quota window | `GetQuota`, `UpdateCallResult`, `InitQuotaWindow` | no more is granted than there is, the answer reaches the script, results are reported as what they were |
| class `Polaris` | `polaris.class.php` | one client | the same operations, some with arrays of its own | its arrays say what the extension reads |
| module entry | `polaris/polaris.cpp` | the class entry | `MINIT` | objects are created by `polaris_core_create_handler` and cannot be cloned |

Scripts meet the native object through method calls; the object meets the SDK
through pointers; the SDK meets the server through requests that time out. Other
scripts, processes and machines share the server and, in one process, the SDK.

What is hard here: threads that run the same `InitX`; API pointers that are read
without the mutex; a constructor that is run again; the order of the deletes;
registrations that time out and arrive anyway; heartbeats lost one by one
against a lease that counts down; scripts killed in mid-call and started again;
call results that arrive late, when the breaker has moved on; a process that
dies with quota calls open; answers from a copy that is older than the lease;
keys and defaults that are read differently from what the documentation says.
`PROJECT.json` lists each of these at its line, with the properties that watch it.

## Modules

    PhpArray <- SdkRequests <- ProviderLease                     (providers, network, server)
                            <- ConsumerRequests <- ServiceCalls  (circuit breaker, router)
                                                <- ServiceCache  (cache, disk)
    SdkRequests, QuotaContract <- QuotaCalls                     (quota window)
    ProviderLease, ServiceCache <- PolarisSystem <- SystemHistory (both sides of the registry)
    PolarisClient, ClientContract <- PolarisClientRefinement     (the native object)

`MC*` modules give the constants their values, `*Proofs` modules hold theorems.

### PolarisClient: the native object

`life`, `ctx`, `api` and `mtx` are the fields of `polaris_core_object`, `heap`
the SDK objects behind the pointers, `thr` what each thread is executing. An
`InitX` is five steps (lock, null test, `Create`, store, unlock), one body for
the three kinds, because the three methods differ only in the field and the API
they name. The eleven API methods differ, for this state, only in the pointer
they read: an unlocked read, then a stay inside the SDK with that pointer or the
`-1` answer. `polaris_core_free_storage` deletes one API per step, then the
context.

`__construct` is `ConstructEnter` and one of three ends: no configuration
(`exit`), no context (`exit` after the fields were written), or the new context.
The old contents of the fields are overwritten, as in the code. `exit` ends the
model (`up = FALSE`): nothing the process does afterwards is of interest.

Assumptions, with their reasons:
* several threads may use one object: `polaris_core_object` carries a
  `std::mutex`, and `provider.h:219` calls the API thread safe and made for one
  instance per process. Stock PHP confines an object to a thread; then the
  model has one thread and every property still holds.
* a constructor does not overlap with other calls on the same object: the
  reference is only handed out after `new`, and a script that calls
  `__construct` again does so between its own calls.
* `free_storage` runs when no method does: the engine counts references.
* reads and writes of a pointer are atomic. The unlocked read races with the
  store formally; on the platforms the build files name the pointer is either
  the old or the new one.

`ClientContract` is what a script may believe: an `InitX` enables a capability
in one step, and a call is served or refused according to what was enabled at
one instant between its begin and its return. `PolarisClientRefinement` maps
the pointers to it (`ready` are the kinds with a pointer, `call` the threads in
an API method) and states `ImplementsContract`.

### PhpArray, SdkRequests, ConsumerRequests: arrays and requests

A PHP array is a function on its keys. Scalar entries are strings, or numbers
under keys the code reads with `atoi`. `getKeyLength` is the number of bytes the
code adds to a key before it looks it up: one, the terminating NUL, which keys of
PHP 7 arrays do not have. So `Found` is false for `metadata`, `labels`, `subset`
and `source_service`, and the code behind the lookups works with empty maps.

`SdkRequests` has one record per request class of the SDK, with the defaults the
headers document; the setters the extension calls are updates of it.
`ConsumerRequests` is `consumer_core.hpp` without its state: five requests, which
look the same keys up in different arrays and do not all read the same ones, and
the answers, which leave out the id of an instance.

### ProviderLease: the life of an instance

Script processes (`proc`) run `examples/quickstart/provider/provider.php`:
connect, `Register`, then `Heartbeat` and `sleep(4)` for ever; or they decide to
`Deregister`, as scripts over class `Polaris` do, or are killed (`Crash`). A call
sends the request that `provider_core.hpp` builds from the script's array. The
server takes it at once, or the call gives up at its timeout and the request
arrives later (`late`), or never. The server keeps one record (`inst`) with a
lease of three ttl; a heartbeat right after the registration may not find it yet
(`provider.h:250`). One `Tick` is a second; it waits for nobody but a script
that has something to do at once.

The server is external. It is modelled by what `provider.h` says of it: three
ttl without heartbeat make an instance unhealthy (line 93), requests must carry
the service token (218), a second registration finds the first (232).

### ServiceCalls: calls and the circuit breaker

Consumers ask for an instance (`GetOneInstance`) or for a list (`GetInstances`),
call one they were told of and report the result. Requests, answers and reports
are those of `ConsumerRequests`; a report names an instance by the keys in
`ReportKey`, since what a script can report is what it was told. The breaker and
the router are the SDK's, modelled from `consumer.h`, `plugin.h` and the comments of
`polaris.yaml.template`. Its default chain has two breakers (lines 191-193), and
either opens at the next periodic check: `ErrorCount` after a number of failures in a
row, `ErrorRate` when so large a part of no less than so many calls failed, in
whatever order. After a window the breaker is half open and grants some trials;
enough successes close it, one failure opens it again, also a late report of a call
that was made before it opened. When no instance passes, all do.

`breaker[i].recent` is what the breaker keeps of the reports in its time window, and
`Expire` lets the oldest of them fall out. The two breakers of the chain share one
state per instance and one window, as the SDK keeps one status per instance that
plugins translate (`plugin.h:385`) and the template gives both the same window and
the same half-open settings. `calls` is not in the program: it records, in the order
of the reports, how the calls of an instance went by what happened and not by what
was reported, so that a property can compare it with what the breaker was told.

### QuotaCalls: quota

Threads of one process ask for quota, work, and report. `GetQuota` and
`GetQuotaReturns`/`GetQuotaDies` are two steps because `DoGetQuota` writes the
SDK's answer through a pointer it never set (`limit_core.hpp:199`): either it
happens to work, or the process ends with all its threads and a supervisor may
start it again (`Restart`). The window is one of the SDK, local to the process.
`taken`, `answers` and `reports` count what scripts were granted, what the SDK
answered and what it was told.

`QuotaContract` is what the scripts may rely on, without requests, answers on
their way or windows that open with the first request: one budget; what is asked
for is granted or refused in one step, refused only when it is more than what is
left; the books say how each call ended. `ImplementsContract` in `QuotaCalls` maps
the budget's use to `taken`, which counts what the arrays ask for, so that the
contract speaks of scripts and not of SDK requests.

### ServiceCache: what lookups answer from

Consumer processes of one host. The first lookup of a service registers a handler
with the server; from then on `Refresh` replaces the copy (`view`) whenever the
refresh interval is over, and writes it to the disk, from which the next process
starts. A lookup waits for data of the server and takes that of the disk when its
timeout is over (`model.h`, `ServiceDataStatus`; `plugin.h`, `LocalRegistry`).

### PolarisSystem: both sides

`ProviderLease` and `ServiceCache`, joined at the server: what `Refresh` finds
under a key is the record a provider's request left there, if the two keys, which
provider and consumer build independently from their own arrays, are the same.
One `Tick` moves all clocks. `silent` is the time since the server took a request
that renewed the instance.

`SystemHistory` adds two history variables to it: `steady`, for how long a provider
whose registration was taken has been in its loop without a break, and `gone`, for
how long the server has had no record of the instance. They restrict no step. With
them, liveness has counterparts with a bound: `BeatsAnswered` says by when every
answer has an instance that is kept alive, `GoneForgotten` by when none has one that
was deregistered.

## Runs

| run | configuration | what it shows |
|---|---|---|
| `client_two` | 2 objects, 2 threads, 5 addresses, 1 construction each | the safety of pointers across objects and threads |
| `client_live` | 1 object, 2 threads, 4 addresses, up to 2 constructions | the inductive invariant and the refinement of `ClientContract`; the mutex comes back, every call returns |
| `client_leak` | 1 object, 2 constructions | violated: the second `__construct` leaks |
| `lease_quickstart` | 2 processes, ttl 5, sleep 4, timeouts 5 and 1 | a beating process keeps its instance healthy |
| `lease_live` | 1 process, the same numbers | ghosts fade, beats revive |
| `lease_wrapper` | class `Polaris`, a service with a token | violated: the heartbeats lack the token |
| `calls_breaker` | 2 consumers, 2 instances, 2 failures in a row or half of 3 calls, 2 trials; reports under all documented keys | a failing instance is cut off by the rule of either breaker and not listed; one whose calls meet neither rule is not cut off while in use, and a half-open one only by the report of a failed call, late or not; recovered instances return |
| `calls_route` | the array and the rule of `examples/route` | violated: the caller's metadata is lost |
| `quota_window` | 3 threads, quota 3, amounts 1 and 2, 2 runs of the process | no overcommitment, reports agree with answers; the refinement of `QuotaContract` |
| `quota_report` | the key of class `Polaris` and `doc/ApiDoc.md` | violated: limited calls are reported as ok |
| `quota_lost` | 2 threads | violated: the answer need not arrive |
| `system` | 1 provider, 1 consumer process started twice, ttl 2, other times 1 | silence is noticed in time, ghosts are forgotten, healthy instances are found; after one gap between refreshes every answer has what is kept alive and none what was deregistered |

Bounds.
* Two threads are enough for one inside the critical section and one that waits
  or reads without the lock; two objects for a pointer to go to the wrong one.
  Four or five addresses cover the live objects of the run; when they run out,
  `Create` can only fail, which it may do anyway. Three threads, and any number of
  constructions, are covered by the proofs.
* `MaxConstructs` counts constructions of an object; a second is what a script can
  do wrong. `client_live` has it, so that the refinement and the inductive invariant
  are checked across it: the contract survives, only the memory is lost, which is
  why `client_two`, with `NothingLeaked`, has one.
* `MaxStarts = 2` and `MaxRuns = 2` are a run and its successor, or, with two
  processes, two at the same time. In `system` the provider starts once, which
  includes its crash and its late requests; `lease_quickstart` has the restart.
* `MaxLost` bounds the heartbeats of a process that fail in a row:
  `HealthyWhileBeating` needs it, and with the quickstart numbers 1 is the largest
  value that works: the register timeout (5), one lost round of pause and call
  (4 + 1) and the next call (1) add up to less than 3 * 5 seconds, but another
  lost round does not. That sum is the assumption of the proof.
* The breaker's thresholds are smaller than the configured 10 in a row, half of 10
  calls and 3/2 trials, but each is above 1 where that makes a difference; with two
  consumers, two trials are the largest number that can be used up. With `Threshold`
  2, `Volume` 3 and `Percent` 50 each breaker has windows that only it opens on: two
  failures and nothing else, or a failure, a success and a failure.
* `MaxReports` bounds the reports in one time window at `Volume`; one more pushes the
  oldest out, as time could have.
* `MaxCalls` bounds the quota answers of one run of a process at six, which is
  twice around three threads; a quota of three is drawn on by single and double
  amounts, so that a request can be too large for what is left.
* In `system` the timeouts and the intervals are 1 and `ContactTime`, the longest
  time without contact, is 2: enough for a refresh that is late by one. The ttl is 2,
  so that the lease (6) outlasts the register timeout, a lost heartbeat and the next
  one (5), as the quickstart numbers do.

`SYMMETRY` is used in safety runs only. `CHECK_DEADLOCK` is off where a process
may be dead for good (quota). No run replaces a definition.

## Fairness

* `PolarisClient`: weak fairness of each thread's steps inside the extension. The
  operating system schedules threads, and SDK calls have timeouts. Nothing is
  assumed of what scripts begin, and nothing of the mutex: `LockReleased` holds
  because the holder never waits.
* `ProviderLease`: time passes, and each running process goes on. Delivery is not
  assumed fair; that some heartbeats get through is `MaxLost`.
* `ServiceCalls`: scripts call and report what they asked for, time passes, and the
  load balancer does not pass over a candidate that was cut off for ever (strong
  fairness of `GetOneInstance`, since it may stop being a candidate in between).
  Nothing is assumed of the periodic check or of the time window. The automatic recovery of half-open breakers that `consumer.h:393`
  mentions is possible but not assumed: `UpAgain` holds by the trials alone.
* `PolarisSystem`: processes and the SDK's refresh go on, and time passes under
  strong fairness: a script that makes lookups in a loop disables `Tick` again and
  again, but makes only finitely many in a second.

## Proofs

Each theorem holds for all values of the constants that satisfy the assumption of
its module (bounds and times are numbers) and what is said below.

`PolarisClientProofs`: `Spec` implies `TypeOK`, `OneApiPerContext`,
`NoUseAfterFree`, `ContextOutlivesApis`, `NoDoubleFree` and `PointerStable`, and
with `MaxConstructs = 1` also `NothingLeaked`. None of these is inductive alone.
`IndInv` adds what the code relies on without saying so: the holder of the mutex
is the one thread between lock and unlock (`LockInv`); a constructor or a
destructor is alone on its object (`AloneInv`); a thread about to store found the
field null, and the field still is (`InitInv`); every non-null field points to a
live API of its kind made from the object's own context (`ApiField`,
`ContextField`); conversely every live API of the current context is in its field
or in the hands of the thread about to store it (`HomeInv`), which is what
excludes a second one; `FreeInv` says how far the destructor got. `Inductive`
proves that every action keeps `IndInv`. `OwnInv`, for a single construction, adds
that a live context is the one its object still refers to. With a second
construction that is false, as `client_leak` shows.

`PolarisClientRefinementProofs`: `Spec => ImplementsContract`, with one case for
each action, most of them stutters: `InitStore` is `Enable`, `CallRead` is
`Decide`, `FreeEnter` is `Destroy`.

`ProviderLeaseProofs`: `TypeCorrect`, and `BeatingKeepsHealthy` under
`LeaseOutlasts` (the inequality above, for any numbers) and `BeatsGetAccepted` (a
heartbeat has the address and the token of the registration; class `Polaris` fails
it). The invariant `LeaseInv` says, for every place in the loop, how long ago at
most the server renewed the lease (`Elapsed`): what is left of it and that time add
up to a whole lease. Requests of other processes only renew it or remove the
record, so that any number of them does no harm. `QuickstartKeepsHealthy` discharges
both conditions for the script of `examples/quickstart`: the inequality by its
numbers, and the acceptance (`ArraysAccepted`) from what the two arrays say, through
the conversion of `utils.hpp` and the keys `provider_core.hpp` reads. What is left as
a hypothesis is what the script's author can see: the heartbeat array names the
instance of the registration (`SameInstance`), and the token fits the service
(`TokenFits`). `WrapperNeverRenews` is the other side: the heartbeats of class
`Polaris` for a service with a token of its own never renew anything (`NeverRenewed`),
so the violation `lease_wrapper` finds for one array is there for every array.

`ServiceCallsProofs`: `TypeCorrect`; `FailuresAreCounted` and `NoFalseAlarm` for scripts
that report at least host and port, both from `Counted`: while a breaker is closed
its window of reports is what happened, call by call. Nothing is missing from it, so an
instance whose calls meet the rule of either breaker is due to be cut off at the
next check; and nothing is added or turned round, so one in use is only cut off when
they do. A half-open instance is only cut off by the report of a failed call of it
(`ReportOpens`). That call need not be one of its trials: the breaker cannot tell a
trial from a call made before it opened, and the theorem does not say so. An `instance_id` among the report keys changes nothing, because
answers have none. `CutOffStaysOut` for instances that answers can tell apart, a rule with a
non-empty condition (which the lost metadata never meets) and scripts that do not
ask for cut-off instances.

`QuotaCallsProofs`: `TypeCorrect`; `NeverOvercommitted`, from `Balance`: what was
granted and what is left add up to the quota; `ReportsAddUp` for any finite set of
threads reporting under `response_type`. `BudgetIsKept` is the refinement of
`QuotaContract`: `GetQuota` maps to `Grant` or `Refuse` (`AnswerMaps`: `Balance` turns
the SDK's test of what is left into the contract's test of what was used, also when
the window is not open yet), `UpdateCallResult` to `Book` (`ReportMaps`), the window
and the process to `Renew`, `Die` and `StartAgain`, all else to stutters.

`PolarisSystemProofs`: `SilenceIsShown` for an instance whose health is checked and
whose address no other instance has (`Alone`). The invariant has one part on each
side: silence and what is left of the lease add up to at most a lease (`LeaseInv`),
and a copy that shows the instance as healthy is at least as old as the silence
beyond a lease (`AppInv`). `TypeCorrect` takes the providers' half from
`ProviderLeaseProofs`: its steps and its types are the same definitions.

`SystemHistoryProofs`: `BeatsAreAnswered`, for providers whose lease outlasts the silence,
whose heartbeats the server takes, and arrays that name the same service on both
sides. It composes the results of both: `LeaseHealthy` (from `ProviderLeaseProofs`) says
the server has the instance as healthy whenever a provider is `Beating`; `BeatsInv`
adds that a copy taken since the beating began shows it (`KnowsBeats`), and by
`ContactTime` a copy is never older than one gap. That the two keys agree is not
assumed but proved (`SameKey`) from the code that builds them. `GoneIsForgotten` needs
no condition but that no other instance has the address: `AbsenceInv` says that a copy
taken since the record went away does not have it.

Only model-checked: all liveness (`LockReleased`, `CallReturns`, `GhostsFade`,
`BeatsRevive`, `UpAgain`, `GhostsForgotten`, `HealthyFound`), which the prover does
not reach under fairness. For two of them a bounded safety property is proved in
their place: `BeatsAreAnswered` for `HealthyFound`, `SilenceIsShown` for what
`GhostsForgotten` says of health (and `GoneIsForgotten` for instances that were
deregistered). Every invariant and action property of a passing run
is a theorem.

## Findings

* A second `__construct` leaks the first context and its APIs (`client_leak`).
* `Polaris::Heartbeat` drops the token `Polaris::Register` sent (`lease_wrapper`).
* `getKeyLength` counts the NUL, so nested arrays are never found: `source_service`
  of a query (`calls_route`), and by the same lookup the `metadata` of a registration.
* `Polaris::UpdateCallResult` and `doc/ApiDoc.md` say `respont_type`, the extension
  reads `response_type`: every result is taken for a success (`quota_report`).
* `DoGetQuota` writes the answer through an uninitialised pointer (`quota_lost`).

Met on the way, and visible in a single call, so that no run is spent on them: an
absent `weight` becomes 0, not the documented 100; the source set name of
`GetOneInstance` is the name of its key; `labels` are copied from the metadata; and
answers lack the `instance_id` that `doc/ApiDoc.md:428` documents. The last one
matters: a script that reports what it was told under all the keys of the documentation
reaches the instance, by its address (`calls_breaker`), but one that relies on the id
alone (`ReportKey = {"instance_id"}`) names no instance, and `FailuresCutOff` is
violated.

## Not modelled

* the waiting answer of a shaping rule and quota windows shared through a server:
  the extension treats them like any other answer, and the SDK's part of them is
  not in the repository;
* the expiry of unused services after a day, and answers for services that do not
  exist: lookups of a script keep the one service it names;
* the buckets of the error rate's statistics (`metricNumBuckets`: the window slides by
  single reports here), windows or half-open settings that differ between the two
  breakers, and `setCircuitBreaker`, which the template disables;
* the end of the process in a constructor (`exit`) as seen by its other clients: they
  end in the same step, and the model with them;
* weights, isolation, priorities, hash keys: they are in the requests, but the load
  balancer that reads them is the SDK's, and here may choose any candidate;
* responses of the SDK, which the extension never deletes: every call leaks one, in
  any order (hazard without property);
* arrays whose values are no strings, which the code reads as strings
  (undefined behaviour inside one call);
* log files, debug output, flow ids, call statistics, the sockets of the examples;
* the SDK's C interface, plugins, asynchronous calls (the extension uses none), and
  the build files, which have no state at run time.

## Plan

Done: native object and contract; provider side; breaker; quota; cache; the composition
of providers and consumers, with the history of beating; the quota contract; the proofs above. Left:

1. `ServiceCalls` over the copy of `ServiceCache` instead of a constant set of
   instances, so that breakers meet instances that come and go.
2. A client object whose API calls are those of the other modules, with the
   constructor of class `Polaris` in front.
3. `FailuresCutOff` and `CutOffNotListed` for lookups with `ignore_half_open`, and
   `GrantedWithinQuota` for several rules.
4. A contract of the circuit breaker, as `QuotaContract` is one of the quota: what a
   consumer may rely on without knowing of checks and windows.
