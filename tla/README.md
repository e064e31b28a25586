# TLA+ specifications of aurora-kvm-agent

aurora-kvm-agent runs on a KVM host. It reads metrics and the VM inventory from
libvirt and the kernel, streams them to a control plane over gRPC, and executes
VM operations the control plane sends. These modules model the parts of it whose
correctness depends on interleavings, failures and order.

## 1. Inventory

| Component (source) | State it keeps | Operations | Who calls it, and what is hard |
|---|---|---|---|
| Scheduler, VM info sync (`collector/scheduler.go`, `model/vm_info_sync.go`) | `lastVMInfoByID`, `latestVMInfoByID`, `vmInfoSynced` under `mu` | `syncVMInfoFromMap` (diff, send, commit), `syncVMInfoPeriodic` | two goroutines; the lock is released during the send; sends fail, are lost, duplicated or applied late; the process restarts |
| Scheduler, ticker loops (`collector/*.go`) | none | `runTickerLoop` and the collect functions | callers of the readers and of the sink |
| Stream sink (`stream/grpc_client.go`) | connection and three lazily opened streams under `mu` | five sends with retry, `ensureConnLocked`, `resetConnLocked`, `Close` | all loops share the mutex, which is held through dials and backoffs; one failure drops all streams; Close races calls |
| VM controller (`libvirt/vm/control.go`) | `controlMu`; libvirt and the file system hold the rest | `CreateVM`, `UpdateVM`, `DeleteVM`, `MigrateVM`, `checkAdmission` | concurrent RPC handlers; operations of several steps with partial failure; calls without a deadline under the mutex; state read and used later; crash between steps |
| Libvirt connection (`libvirt/metric/conn.go`) | one client under an RWMutex | `Connect`, `Client`, `Reconnect`, `Healthy`, `Close`, `connectLocked` | connect holds the write lock until libvirtd answers; clients are used after the lock is released |
| Agent lifecycle (`agent/agent.go`, `lifecycle.go`, `health.go`) | contexts, health flags | `Run`, `run`, `runHealthLoop`, `shutdown`, `healthSink` | two signals and a grace timer race the end of the loops; flags are written outside the sink's mutex; one member's error ends all; systemd restarts the process |
| RPC endpoint (`agent/probe_listener.go`, `agent/vm/*`) | none | handlers; `GracefulStop`, then `Stop` | a handler may wait for libvirtd while the server waits for it; a listener that fails ends the process |
| Node metrics reader (`libvirt/metric/node`) | CPU facts and memory modules loaded once, the last `/proc/stat` snapshot, under one mutex; samples of the delta engine | `Collect`, `CollectHardware`, `loadCPUStaticInfo`, `loadMemoryHardware`, `ObserveCounter` | two loops race for the first load; tools fail or hang inside the mutex and without a context; facts are kept for the life of the process |
| VM metrics reader (`libvirt/metric/vm`) | previous samples under a lock | `Collect`, `CollectRuntime`, `computeCPU`, `computeLiteNetRates`, `computeRuntimeRates` | domains are listed and read in two calls; counters restart or cannot be read; two loops store samples of one key; the wall clock is set back |
| Event monitor (`libvirt/metric/events.go`) | none | forwards ticks | its reader only logs |
| Encoder, models, configuration, `/proc` parsers, installer | none | conversions | pure data |

What makes each of them correct:

- *VM info sync*: the control plane's table becomes and stays the inventory of the
  host; a delta is only sent to a backend that has acknowledged a full sync.
- *Sink*: no stream of an old connection is used, no connection leaks, every call
  returns, shutdown is not blocked, and the sink heals after an outage.
- *Controller*: the node is never overcommitted, a defined domain keeps a disk
  image of its own, delete does not take the image of a running domain, every
  operation ends once the services it calls answer.
- *Connection*: one open connection, one writer, recovery without help, shutdown
  that gets the lock.
- *Lifecycle*: a signal ends the process whatever the loops wait for, a shutdown
  that is not forced is complete, a failed endpoint comes back, and the stream flag
  tells the truth in the end.
- *Node reader*: both loops report the same host, a cycle ends, and the CPU usages
  account for each tick once.
- *Rates*: a rate never reports growth that did not happen.

## 2. Modules

| Module | Models | Proofs | Runs |
|---|---|---|---|
| `VMInfoSync` | the two loops that report the inventory, the transport and the control plane's table | `VMInfoSyncProofs` | `vminfo_sync`, `vminfo_blind_inventory`, `vminfo_unnamed_boot` |
| `Sink` | abstract: what a caller may rely on when it sends | | checked as `ImplementsSink` |
| `GRPCClient` | the sink and the loops that call it, outages, shutdown; implements `Sink` | `GRPCClientProofs` | `stream_sink` |
| `AgentLifecycle` | `Run`, `run`, the health loop, the listener, `healthSink`, shutdown and restart, composed with `Sink` | `AgentLifecycleProofs` | `agent_lifecycle` |
| `VMController` | the four VM operations against libvirt's domain table and the disk images | `VMControllerProofs` | `MCVMController`: `controller_safety`, `controller_progress`, `controller_blind_delete`, `controller_lost_update` |
| `ConnManager` | the libvirt connection with all its users, the health loop and shutdown | `ConnManagerProofs` | `libvirt_conn` |
| `NodeReader` | the node reader's mutex, the facts loaded once, the tools, and the CPU usage | `NodeReaderProofs` | `MCNodeReader`: `node_reader` |
| `CounterRates` | one counter, the stored sample of its key and the loops that observe it | `CounterRatesProofs` | `MCCounterRates`: `rates` |
| `FoldLemmas` | nothing of the agent: facts about folds and sums over finite sets, for `VMControllerProofs` and `NodeReaderProofs` | itself | |

An MC module exists where the instance needs definitions of its own (requests,
capacity, memory tables, symmetry); the other runs take all constants from their `.cfg`.
`PROJECT.json` maps each definition to the lines it models. Operators whose name
extends that of another one and that are commented as its mutants are wrong
versions of it, each used once to see that a property is able to fail.

### VMInfoSync

A `map[string]VMInfo` is a function on `VMIDs` with `None` for an absent key. The
sync loop has one action per point at which the other loop or the environment can
intervene: `ListDomains`, `ReadStats`, `SendVMRuntimeMetrics`, `ComputeVMInfoDiff`
(under the lock), the send (`SendDelivered` or `SendFails`), `Commit` (under the
lock). The info loop has `SyncNodeHardware`, `PeriodicSnapshot`, the send,
`PeriodicCommit`. `CycleFails` is every early return of the collection.

The scheduler gets its inventory from an interface, and what the implementation gets
from libvirt hangs on one argument, the constant `NeedResults`. `VMMetricsReader`
calls `ConnectListAllDomains(0, 0)`: with 0 libvirtd answers with the number of
domains and no domains, so the inventory of every host is empty. That is the program
as it is (`NeedResults = 0`); `vminfo_blind_inventory` and `vminfo_unnamed_boot`
check it, and `NothingReported` says what it amounts to. `NeedResults = 1`, with which
the controller makes the same call, is the scheduler with a collector that gives it
domains. `vminfo_sync` checks that; the other theorems hold for both values, but only
there speak of VMs. Neither says that VMs reach the control plane today.

A send that fails (`NotAcknowledged`) may or may not have been applied, and may
leave a copy in `inflight` which `LateApply` applies at any later time: `Invoke` is
retried and a unary call whose deadline passed may still reach the server. The
control plane is not in the repository; `Apply` is what the message means: a full
sync replaces the table, a delta upserts and removes, and a message with an empty
`NodeID` cannot be attributed and changes nothing. `Restart` is a new process
(`Restart=always` in the unit file) and forgets all scheduler state.

`causes` is a history variable: it records whether a send ever failed (`fault`), a
periodic snapshot was overtaken by a newer sync (`stale`), or a sync without a node
name met a table that was not empty (`unnamed`). `ReplicaFollowsLatest` says that
nothing else makes the table differ from the inventory; `Converges` that none of
them does for good on a host that has VMs. `Agreed` is a table that is right and has
nothing on its way that would make it wrong, and `AgreementLasts` says that only a
change of the domains ends that.

### Sink and GRPCClient

`Sink` is the interface with its mechanism left out: a loop calls, is served alone,
and gets one answer; an "ok" needs a session, an error leaves none behind, and after
Close there is none for good. `GRPCClient` implements it under the mapping at its
end: the loop that holds the mutex is the one that is served, and there is a session
when there is a connection. Retries, streams and backoffs are stuttering steps.

One action per call that can block or fail: `Lock`, `ReuseConn` or `Dial`,
`ReuseStream` or `OpenStream`, `SendMsg`, `Invoke`, `WaitRetry`, `Return`. The five
send functions are the same loop and differ in whether they need a stream. The
backend is up, down or hung; `CannotProceed` is a call that fails because of that or
because its context is cancelled. `SendMsgBuffered` is a frame accepted into the
transport's buffer although the backend will not see it. `Close` takes the mutex
like any caller, and loops may still call the sink after it.

### AgentLifecycle

The sink is an instance of `Sink`; the loops of the scheduler call it and afterwards,
outside its mutex, set the stream flag (`SetFlag`). `main` is `Agent.Run` with its
selects, `run` is `Agent.run` up to `g.Wait`, `health` and `probe` are the other two
members of the group that do anything; the fourth, the event loop, only logs.
libvirtd is a client pointer and three states; `ConnManager` has the locks. The
contexts of `Run` and of the two groups are one flag, since nothing looks at an outer
one while an inner one is cancelled alone. `CloseConn` waits for the manager's lock
and for libvirtd, as `Close` has no context. `Restart` is systemd after an exit
without a stop. Left out: the times of the last samples, which are only logged, and
`TimeoutStopSec`.

### NodeReader

The two loops share one mutex. `StaticLoads` and `MemoryLoads` start `lscpu` and
`dmidecode` inside it, `LscpuOk`, `LscpuFails` and their like end it; the GPU tools
run outside it. A tool may fail or hang; only the GPU tools have a context that kills
them. `stat` is the aggregate line of `/proc/stat` at the last read, in ticks since
boot of four columns: the host's own (with steal, as the code adds it), guests, iowait
and idle. Each read chooses a new one; only iowait may be smaller than before
(`setBack`). `Usage` is the reported percentage as a pair of tick counts: the growth
of the columns the code adds up, iowait among them, over the growth of the sum of all
columns, with the clamps. `counted` adds these up from the first snapshot on. What
`dmidecode` prints is chosen when it answers. `parseDmidecodeMemoryInfo` is the state
machine of the parser as a fold over the records. Assumed of the host: the columns of
`/proc/stat` but iowait only grow, guest time is part of the user column, `lscpu`
counts the CPUs that are present and `NodeGetInfo` those that are online.

### VMController

A domain is a record with its configured maximum in MiB, its configured current
allocation in the KiB libvirt was given, its state and its image, or `Nil`. Each
libvirt call, file operation and command is an action, in the order of the code, and
may fail; `Fails` is the error return. None of the libvirt calls has a context or a
deadline, and neither has a system call on the images: `Hangs` makes libvirtd or the
storage stop answering, for a time or for ever, and a step that calls it waits for
`Recovers` (`Answers`), with the mutex held. `waitDomainStopped` is its loop: `Poll`
reads the state, and the select either takes the ticker and polls again (`SelectTick`)
or ends the wait (`SelectDeadline`). The domain table and the images survive
`Restart`, handlers and the mutex do not. `GuestShutsDown` and `GuestStops` change
domains at any time, so what an operation read may be out of date. Assumed of libvirt:
undefining an active domain leaves it running as a transient one;
`DomainSetMemoryFlags` and `DomainSetVcpusFlags` without their MAXIMUM flags refuse
more than the maximum, and with the CONFIG flag fail for a transient domain; of the
live and the configured current allocation only the latter, which both the first call
and its fallback set, is kept. Of a migration that reported an error it is not known
whether the domain moved; both are possible.

Sums of the admission check wrap at `Width`, as the `uint64` sums do, and so does the
product that turns MiB into KiB (`InKiB`); libvirt refuses
a size that it cannot represent (`MaxDomainRam`). `VcpuAssumption` says that the sum
of vCPUs does not wrap: the request's count is a `uint32` and the node's an `int32`,
and they are added as 64-bit numbers. Nothing like it is assumed of the RAM.

`causes` records two faults after which less is guaranteed: a domain that
`readAllocatedCapacity` could not read (`unreadable`), and a `DomainGetInfo` that
failed in `DeleteVM` (`stateUnknown`).

### ConnManager

Goroutines are collector loops, RPC handlers and the one that first connects and
then runs the health loop. `ReadClient` is the read-locked part of `Client`;
`LockConnect` and `LockReconnect` take the write lock; `CheckClient`,
`CheckContext`, `Dial`, `DialFails`, `WaitEnds` and `ConnectCancelled` are the steps
of `connectLocked`; `UseClient` is the use of the pointer after the lock, and for
the health loop the verdict of `Healthy`. The health flag is written later, in steps of
their own (`SetConnected`, `ClearConnected`): libvirtd may go down, or come back,
between a verdict and its write. A connection is `live` until the agent
disconnects it and `good` until libvirtd drops it. Collector loops and handlers have
contexts of their own, and `StopServer` is the two-stage stop of the RPC server.

### CounterRates

Keys are independent, so the module has one. A loop of the node reader stamps and
then reads, a loop of the VM reader reads and then stamps; both then store the
sample in a critical section (`ObserveCounter`). The code compares
`time.Now().UTC()`, which has no monotonic reading, so `SetBack` moves the clock
back. A failed reading is stored as 0, as `readUintFile` and a missing field of a
domain record do. `Delta` is 0 wherever the code reports nothing. Samples carry
history fields (what had grown in all, how often the counter changed) for the
properties only.

## 3. What the runs check

| Run | Question | Bounds and why they are enough |
|---|---|---|
| `vminfo_sync` | `TypeOK`, `DeltaNeedsFull`, `ReplicaFollowsLatest`, `Converges`, `AgreementLasts` | `NeedResults = 1`; two VMs with two infos: upsert, change and removal in one delta; two changes: one before and one after a snapshot; one fault and one restart, which may both follow the last change. The theorems cover all other sizes of the safety properties |
| `vminfo_blind_inventory` | violation of `PeriodicSendsFull`, see 5 | `NeedResults = 0`, as in the code; one VM that appears; no faults |
| `vminfo_unnamed_boot` | violation of `SyncNamesNode`, see 5 | `NeedResults = 0`; the host has no VM yet when the first sync is sent |
| `stream_sink` | `TypeOK`, `StreamsOnConn`, `OneConnection`, `ClosedForGood`, `CallsReturn`, `CloseReturns`, `Recovers`, `ImplementsSink` | two loops, two streams and a unary call, two connections, two attempts, one failure (outage, hang or broken stream): one loop fails while the other waits, and its reset drops the other's stream. The theorems cover more loops, failures and attempts |
| `controller_safety` | `TypeOK`, `NeverOvercommitted`, `DefinedHasDisk`, `RunningKeepsDisk` | two handlers, two names, two images with requests that want the same image, a node that holds one large or two small VMs, two failing calls or hangs and a crash: an operation and its cleanup may both fail; a request of `Width - 1`, which makes the sum wrap. The theorems cover other sizes |
| `controller_progress` | `OperationsEnd` | as above without the crash, and each VM with an image of its own: two faults, so that libvirtd and the storage may both hang, or one hangs and a call fails |
| `controller_blind_delete` | violation of `RunningNeverDeleted`, see 5 | one failing call |
| `controller_lost_update` | violation of `UpdateApplied`, see 5 | no failing call |
| `libvirt_conn` | `TypeOK`, `SingleConnection`, `Recovers`, `OutageShows`, `CloseReturns` | a loop, a handler and the health loop, the three kinds of callers; three connections, so that one can be replaced while a stale one is still in use; one fault. The theorems cover more of each |
| `rates` | `TypeOK`, `NoInventedGrowth`, `NeverOverReports` | a key of one loop of the node reader and one of two loops of the VM reader, two steps of growth, a restart, a failed reading, three clock values: growth before and after the restart, and two samples stored in either order. The theorems cover other sizes |
| `agent_lifecycle` | `TypeOK`, `ShutdownIsFinal`, `StopsOnSignal`, `ComesBack`, `StreamFlagSettles` | two loops, one that always sends and one that may have nothing to send; a backend that starts in any state, and one failure of backend, libvirtd, a session or the listener; any number of recoveries. The theorems cover more loops and failures of the safety properties |
| `node_reader` | `TypeOK`, `CoresAgree`, `SticksReported`, `UsageAddsUp`, `CyclesEnd` | two CPUs that go on- and offline, two ticks in all, one by which iowait goes back, two faults, so that a tool can fail in one loop and hang or race in the other, and a read fails before or after one that went back; one and two memory arrays with full and empty slots. The theorems cover other sizes and every output of `dmidecode` |

Deadlock is checked except in `libvirt_conn`, `agent_lifecycle` and `node_reader`,
where the agent stops once it has been shut down.

## 4. Fairness

- `VMInfoSync`: both loops are ticker loops in goroutines of their own; each is
  weakly fair. A send returns, because the sink bounds its retries. Nothing is
  assumed of faults, restarts or late messages; they are bounded in number.
- `GRPCClient`: an attempt ends, because dials and backoffs have timeouts and calls
  end unless the backend hangs (then only cancellation ends them, and `CallsReturn`
  excludes a backend that hangs for ever). `Lock` and `Close` are strongly fair: the
  mutex may be taken by others in between, and `sync.Mutex` hands it to a waiter
  that has starved for a millisecond. Tickers call until they are cancelled.
- `VMController`: a handler whose next call is answered takes its step (weak
  fairness). No deadline is assumed of libvirt calls, which have none, nor of the
  storage: a handler waits as long as they hang, and `OperationsEnd` is stated for
  behaviours in which both answer from some time on. `qemu-img` has only the RPC's
  context, which need not have a deadline, and waits with the storage; `virsh` has a
  timeout of its own. `SelectDeadline` is strongly fair: the wait comes back to its
  select with every tick, after its timeout both cases are ready, and Go picks among
  ready cases at random. Guests need not react.
- `ConnManager`: steps inside `connectLocked` and uses of a client end; waiting for
  the RWMutex is strongly fair, as it does not starve waiters; so is the health
  ticker. Shutdown goes on once it has begun. No fairness is assumed of collectors
  or handlers, nor of libvirtd: `Recovers` supposes that it stays up.
- `AgentLifecycle`: goroutines and timers run. Ending a loop is strongly fair, as a
  select whose ticker and context are both ready picks at random; so is taking the
  sink's mutex and losing a session to a backend that is gone, as frames are not
  buffered for ever. A call in the sink ends unless the backend hangs and nobody
  cancels; nothing that waits for libvirtd ends while it hangs. No fairness is
  assumed of faults, recoveries or signals.
- `NodeReader`: a cycle that can go on does; a hung tool does not end by itself.

## 5. Disagreements between the code and what it says

1. `PeriodicSendsFull`: the comment says the periodic timer sends a full snapshot of
   the VMs. The VM reader asks libvirt with `ConnectListAllDomains(0, 0)`
   (`vm_metrics.go:76` and `138`), whose first argument is NeedResults: it gets a
   count, which it drops, and no domains. The inventory is empty on every host, the
   periodic sync skips an empty inventory (`scheduler.go:299`), and a host with VMs
   never reports one, nor any VM metric. The controller's call passes 1
   (`control.go:781`). The skip has a consequence of its own that remains once the
   argument is repaired: if an older snapshot overtook the removal of the last VM,
   the control plane lists that VM until another one appears; `Converges` therefore
   speaks of hosts that have VMs.
2. `SyncNamesNode`: the node's identity is taken from the VM entries, so the first
   full sync on a host without VMs carries none, although the configuration
   requires it; with the call of 1 as it is this is every host. After a restart of
   the agent on a host that lost its VMs meanwhile, their entries stay.
3. `RunningNeverDeleted`: an error of `DomainGetInfo` is treated like a stopped
   domain, so a running domain is undefined and its image removed without `force`.
4. `UpdateApplied`: the requested memory is compared with the maximum, but the
   current memory is what is set. Raising a shrunk VM to its maximum is answered
   "no changes".

Met on the way and stated inside properties or left as they are:

- `README.md` says the agent waits for its loops within `AURORA_SHUTDOWN_TIMEOUT`. The
  last step of shutdown, the goodbye to libvirtd, has no context: with a hanging
  libvirtd the process only ends by systemd's `TimeoutStopSec`. `StopsOnSignal`
  therefore promises the end only for a libvirtd that does not hang for good.
- The comment in `scheduler.go` says `Run` stops when any loop fails; no loop ever
  returns an error. In the agent's group only the listener's error ends the others.
- `parseCPUCounters` adds the guest columns, which the kernel also counts in the user
  columns, to the total: on a host whose guests use all its CPUs the usage reads 50 %.
  `computeCPURealtime` adds iowait to the usage, so a host that only waits for its
  disks reads 100 %. `UsageAddsUp` has both (`Total`, `Busy`). A read of `/proc/stat`
  that fails reports 0 %, and the next one covers the stretch it missed.
- The libvirt calls under `controlMu` take no context: while libvirtd hangs, every VM
  operation hangs with it, and the deadline of its RPC does not end it
  (`OperationsEnd`).
- The last memory module before a further memory array is not reported
  (`SticksReported`).
- A first run of `lscpu` or `dmidecode` that fails is remembered for the life of the
  process, and one that hangs holds the reader's mutex with it (`CoresAgree`,
  `CyclesEnd`).
- `normalizeVirtualizationSupport` yields "vmx" or "svm", which the test for
  `virtualizationSupported` does not look for: the flag stays false.
- The disk size in bytes that admission checks is a product that may wrap;
  `qemu-img`, which gets the size in GB, then refuses to create such an image.

## 6. Proofs

Every theorem holds for all values of the constants that satisfy the named
assumptions of its module (`None` is not an info or a sample, `Nil` is not a
connection, goroutine, request or domain, requests have the fields the RPC decoder
gives them, the bounds are naturals, the sets of goroutines are disjoint). Sets are
not assumed finite: that finitely many domains exist at any time is part of an
invariant.

- `VMInfoSyncProofs` (`TypeCorrect`, `DeltasNeedFull`, `ReplicaFollows`,
  `AgreementIsFinal`, `NothingReported`).
  `DeltaNeedsFull` is not inductive: `FullFirst` adds that `synced`, and each loop
  that is about to set it, implies an acknowledged full. For `ReplicaFollowsLatest`
  the invariant `Follows` says what holds while a message is on its way: it turns
  the replica into `cur`, and leaves `cur` alone in case the info loop already
  delivered it; between send and commit the replica is `cur`; and while nothing is
  synced the scheduler knows of no VM. The lemmas about `Apply` and `VMInfoDiff`
  carry the argument: applying the difference of two maps to the first gives the
  second, and to the second changes nothing. The last fact also gives
  `AgreementIsFinal`: a delta computed from any `last`, also a wrong one, does not
  harm a table that is already right, so retries, late copies and messages of an
  earlier process do not either, nor does an unnamed sync, which is empty.
  `NothingReported` is about `NeedResults = 0`: `Blind` says that no map or message
  holds a VM, and nothing but the collection could bring one in.
- `GRPCClientProofs` (`TypeCorrect`, `StreamsBelongToConn`, `NoLeakedConnection`,
  `ClosedStaysClosed`, `Refinement`, `OneRetryHeals`). `IInv` adds that a loop past
  `ensureConnLocked` has a connection and that Close only follows cancellation. Mutual
  exclusion is part of `TypeOK` and is what keeps one loop's steps from disturbing
  another's. `Refinement` shows from these invariants that each action maps to one
  action of `Sink` or to a stutter; without `OneConnection` a reset would not end the
  session. `OneRetryHeals` supposes two attempts per call (`NewGRPCClient` sets five):
  in `Healing` a call on its second attempt, or waiting for it, finds no broken
  stream, because the reset after the first failure has dropped them all. `StreamOpen`
  (the stream a loop sends on is open) leaves a stream that broke before as the only
  reason for an attempt to fail.
- `AgentLifecycleProofs` (`TypeCorrect`, `ShutdownComplete`, `OnlyTwoWaysDown`,
  `StreamFlagIsFinal`, `AgentKeepsToSink`). `ShutdownIsFinal` needs
  `Stages` (no loop runs before the group starts or after it has ended, an unforced
  shutdown begins only then, only shutdown closes the sink) and `Undone` (flag,
  session and client stay cleared once shutdown has cleared them).
  `EndsForAReason` is the invariant of `OnlyTwoWaysDown`; it needs that the listener
  does not run before the first connect, and rules out, in `StreamFlagIsFinal`, that a
  process whose context is not cancelled shuts down. `FlagSettled` speaks of the
  loops that have left the sink and not yet written the flag, too. `AgentKeepsToSink`
  closes the composition: the agent makes no step on the sink that `Sink` does not
  allow, so what `Refinement` shows of the client holds for this caller.
- `VMControllerProofs` (`TypeCorrect`, `EveryDomainHasDisk`, `DeleteSparesRunning`,
  `CapacityHolds`).
  `TInv` adds to the types that a handler is at a step of its own operation and that
  a domain stays defined between its definition and its start. `IInv` adds what a
  handler relies on (`Claim`): before the definition the new image exists and is
  nobody's, because every defined domain's image exists; a delete knows the domain's
  image, undefines a domain that does not run, and removes an image that no defined
  domain has, because none is shared. `RunsDefined` says that a running domain is a
  defined one, which turns `DefinedHasDisk` into `RunningKeepsDisk`. `Milder` names
  the steps that cannot harm any of this, and most of them are.
  For `CapacityHolds` the invariant `OInv` says that what is defined fits and, while a
  create is between its admission and its definition, that its domain still fits on
  top (`Fits`), unless its RAM is more than libvirt can represent. `NeverOvercommitted`
  alone is not inductive: the check and the definition are steps of their own, and it
  is the mutex that keeps the sum from growing in between. The wrap-around is in the
  proof: a sum that passes the check without being small belongs to a request that
  libvirt refuses. Updates do not count, as they set the current size only.
- `NodeReaderProofs` (`TypeCorrect`, `LoopsAgree`, `UsageCountsOnce`,
  `ModulesReported`, `LoadedOnce`, `CyclesAreShort`). `CoresAgree` needs `Facts` and
  `Shown`: what is cached came from `lscpu` or from one answer of `NodeGetInfo`, and
  what each loop showed came from the cache. `UsageAddsUp` needs `Accounted`: outside
  the stretch between a read and its lock `prevSnapshot` is what was read last, and
  within it the new snapshot is behind it in the iowait column only, by no more than
  `setBack` has not yet been charged for; then the growth of a column since
  `prevSnapshot` is what has not been counted of it. `ModulesReported` is an induction
  over the records: after each prefix (`Scanned`) the parser has listed, in order, the
  modules that a later record has committed, and holds the last device unless an array
  has ended it. `LoadedOnce` rests on the mutex: while a tool runs nothing is cached
  of it.
- `FoldLemmas`. Induction over the naturals in the form of sets (a set of naturals
  that contains n whenever it contains all smaller numbers contains all), from which
  follow: a function defined by recursion over the finite subsets of a set exists
  (`FoldExists`), so the fold of the community modules satisfies its equation
  (`SumEquation`); a sum over a finite set does not depend on the order in which its
  elements are taken (`SumAnyFirst`) and splits at any element (`SumSplit`). The
  library's own theorems on induction and folds take an operator as a parameter,
  which the installed provers cannot instantiate; a set instead of the operator
  avoids that.
- `ConnManagerProofs` (`TypeCorrect`, `OwnsSingleConnection`, `RecoveryIsFinal`,
  `OutageStaysVisible`). `IInv` adds that
  `connectLocked` has dropped the old client before it dials, without which a
  successful dial would leave two connections open. For the same reason nobody is
  dialling while there is a client, which makes `Recovered` stable: whoever takes the
  write lock finds the client in order. `OutageStaysVisible` speaks of an outage that
  shows and that no goroutine is about to hide by writing a verdict from before it
  (`OutageVisible`); `NoneServed` (no connection is good while libvirtd is down) keeps
  new ones from being reached.
- `CounterRatesProofs` (`TypeCorrect`, `GrowthIsReal`, `CountedOnce`). For any number
  of loops, `GInv` says that every sample that is stored or held is `Genuine` (it
  agrees with the counter's past as far as it reaches) and any two are `Ordered` (from
  the earlier to the later the value advances at most by what grew); a step of a loop
  only adds samples that are `Known`, so both are kept. With a single loop
  and as long as no reading has failed, `SampleOrder` says that the stored sample
  precedes the one held, each `Delta` is bounded by the growth between its samples,
  and the sum telescopes. With two loops
  the sum may exceed the growth, because a stored sample may be replaced by an older
  one; `NoInventedGrowth` is what is left.

Every safety property of a passing run is a theorem. Only model-checked are the
liveness properties (`Converges`, `CallsReturn`, `CloseReturns`, `Recovers`,
`OutageShows`, `OperationsEnd`, `StopsOnSignal`, `ComesBack`, `StreamFlagSettles`,
`CyclesEnd`), which need fairness and ENABLED. Of most of them the part that is a
safety property is proved: what is reached lasts (`AgreementIsFinal`, `OneRetryHeals`,
`RecoveryIsFinal`, `OutageStaysVisible`, `StreamFlagIsFinal`), or there is nothing to
loop in (`CyclesAreShort`). The predicates `Healing`, `Recovered`
and `FlagSettled` are those a behaviour of the liveness property ends in. That the
next step is taken, and is not blocked for ever, stays with TLC, as do the four runs
that show a disagreement. Of a list or a sum only what is stated above is proved; no
theorem speaks of what a recursive definition computes beyond that.

## 7. Not modelled

- The encoder, the models, the configuration and the parsers of `/proc`, `/sys` and
  `nvidia-smi`: data without control. Of `lscpu` and `dmidecode` only the CPU count
  and the sequence of records are kept.
- RAM figures, load, process counts, disk and interface inventories and GPU metrics:
  read anew in every cycle, without state.
- The event monitor: a placeholder on which nothing depends.
- Storage pools: of storage admission only the rejection is kept.
- Removal of samples of VMs that are gone: the code has none, and the maps grow.
- The times of the last samples that `healthSink` keeps: only logged.
- The VM reader behind its first call does not run as long as that call only counts
  (see 5): the loops of the VM reader in `CounterRates`, and the second call in
  `VMInfoSync`, are the code as it runs once it is given domains.
- The usage of single cores: the same computation per line of `/proc/stat`.
- Domains that were not created through the agent, and those a peer migrates in: they
  pass no admission, and `NeverOvercommitted` is about the agent's own.
- How long a guest in state "shutdown" still writes to its image: the code takes it
  for stopped, and so does `RunningKeepsDisk`.

## 8. Plan

1. *Done*: all modules of section 2 with their runs; the refinement of `Sink`, on
   which `AgentLifecycle` is composed; proofs of every safety property the passing runs
   check, and of the safety part of most liveness properties.
2. An abstract libvirt client that `ConnManager` implements, and on which
   `AgentLifecycle` is composed as it is on `Sink`.
3. The controller on top of the connection manager: the client is taken before
   `controlMu` and may be replaced while the operation waits. Today a failing call
   (`Fails`) stands for a stale client.
4. `MaxFaults` of 2 in `agent_lifecycle`, with a smaller sink, so that an outage and a
   failing listener meet.
