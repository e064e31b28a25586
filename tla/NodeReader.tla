----------------------------- MODULE NodeReader -----------------------------
(***************************************************************************)
(* NodeMetricsReader (internal/libvirt/metric/node): the scheduler's node  *)
(* loop calls Collect, its node info loop CollectHardware.  Both use the   *)
(* CPU facts that lscpu printed once, the second also the memory modules   *)
(* that dmidecode printed once.  The two tools run inside the reader's     *)
(* mutex and without the caller's context; the GPU tools run outside the   *)
(* mutex and with the context.                                             *)
(*                                                                         *)
(* Of /proc/stat the model keeps the aggregate line, as the clock ticks    *)
(* since boot of each kind.  RAM figures, load and GPU metrics are left    *)
(* out: they are read anew in every cycle.  Disk, network and energy rates *)
(* are in CounterRates.                                                    *)
(***************************************************************************)
EXTENDS Integers, FiniteSets, SequencesExt

CONSTANTS
    Tables,         \* what dmidecode prints: sequences of records
    Modules,        \* memory modules, the records of occupied slots
    Present,        \* CPUs of the host, as lscpu counts them
    MaxTicks,       \* bound: clock ticks since boot
    MaxBack,        \* bound: clock ticks by which the iowait column goes back
    MaxFaults       \* bound: reads and tools that fail or hang, CPUs that go on- or
                    \* offline, an iowait column that goes back

Array == "array"                    \* a "Physical Memory Array" record
Empty == "empty"                    \* a "Memory Device" record of an empty slot

ASSUME TablesAssumption ==
    /\ Tables \subseteq Seq(Modules \cup {Array, Empty})
    /\ {Array, Empty} \cap Modules = {}
ASSUME BoundsAssumption ==
    Present \in Nat \ {0} /\ MaxTicks \in Nat /\ MaxBack \in Nat /\ MaxFaults \in Nat

Loops == {"node", "info"}
None == [kind |-> "none"]

VARIABLES
    pc,             \* the step of each loop's cycle
    mu,             \* NodeMetricsReader.mu: the loop that holds it, or "free"
    cpus,           \* each cycle's answer of NodeGetInfo, 0 outside a cycle
    cpuStatic,      \* cpuStatic.ThreadCountLogical, 0 until cpuInfoLoaded
    memHardware,    \* memHardware's modules, None until memInfoLoaded
    hasPrev,        \* hasPrevSnapshot
    prev,           \* prevSnapshot
    snapshot,       \* what the running cycle has read of /proc/stat
    counted,        \* the ticks of the first snapshot and of all reported usages (history)
    stat,           \* /proc/stat when it was last read (external)
    setBack,        \* ticks by which its iowait column has gone back (history)
    shown,          \* the number of CPUs each loop last reported, 0 before
    table,          \* what dmidecode has printed, <<>> before (history)
    online,         \* CPUs that are online (external)
    hung,           \* loops whose running command does not end (external)
    failed,         \* the tools whose only run failed (history)
    cancelled,      \* the context of both loops
    faults          \* consumed bound

cycleVars == <<cpus, snapshot, shown>>
loadVars == <<mu, cpuStatic, memHardware, table, failed>>
procVars == <<hasPrev, prev, counted, stat, setBack>>
hostVars == <<online, hung, cancelled>>
vars == <<pc, cycleVars, loadVars, procVars, hostVars, faults>>

\* The ticks since boot in which the host's own code ran (or a hypervisor below
\* it stole the CPU), a guest ran, the CPU waited for I/O, and nothing ran.
Columns == {"own", "guest", "iowait", "idle"}
Stats == {s \in [Columns -> 0..MaxTicks] :
             s["own"] + s["guest"] + s["iowait"] + s["idle"] <= MaxTicks}
NoTicks == [c \in Columns |-> 0]

Init ==
    /\ pc = [l \in Loops |-> "idle"]
    /\ mu = "free" /\ cpuStatic = 0 /\ memHardware = None /\ failed = {}
    /\ cpus = [l \in Loops |-> 0] /\ shown = [l \in Loops |-> 0]
    /\ hasPrev = FALSE /\ prev = NoTicks /\ snapshot = NoTicks
    /\ counted = [part |-> 0, whole |-> 0] /\ stat = NoTicks /\ setBack = 0
    /\ table = <<>> /\ online \in 1..Present
    /\ hung = {} /\ cancelled = FALSE /\ faults = 0

-----------------------------------------------------------------------------
(* The host *)

Fault == faults < MaxFaults /\ faults' = faults + 1

Hotplug ==
    /\ Fault
    /\ online' \in (1..Present) \ {online}
    /\ UNCHANGED <<pc, cycleVars, loadVars, procVars, hung, cancelled>>

Runs(l) == pc[l] \in {"gpu", "lscpu", "dmidecode"}

Hang(l) ==
    /\ Runs(l) /\ l \notin hung /\ Fault
    /\ hung' = hung \cup {l}
    /\ UNCHANGED <<pc, cycleVars, loadVars, procVars, online, cancelled>>

Cancel ==
    /\ ~cancelled
    /\ cancelled' = TRUE
    /\ UNCHANGED <<pc, cycleVars, loadVars, procVars, online, hung, faults>>

-----------------------------------------------------------------------------
(* A cycle begins *)

GoTo(l, step) == pc' = [pc EXCEPT ![l] = step]

\* Client and NodeGetInfo.  When one fails the cycle is over at once, which
\* changes nothing here.
Begin(l) ==
    /\ pc[l] = "idle" /\ ~cancelled
    /\ cpus' = [cpus EXCEPT ![l] = online]
    /\ GoTo(l, IF l = "node" THEN "stat" ELSE "static")
    /\ UNCHANGED <<snapshot, shown, loadVars, procVars, hostVars, faults>>

-----------------------------------------------------------------------------
(* Collect: CPU usage from two snapshots of /proc/stat *)

\* deltaCounter, for counters that have gone back too.
deltaCounter(now, before) == IF now < before THEN 0 ELSE now - before

\* The kernel's time of waiting for I/O may go back; the other columns only grow.
WentBack(s) == deltaCounter(stat["iowait"], s["iowait"])

\* readProcCPUSnapshot, outside the mutex.
ReadStat(s) ==
    /\ pc["node"] = "stat"
    /\ \A c \in Columns \ {"iowait"} : s[c] >= stat[c]
    /\ IF WentBack(s) = 0 THEN faults' = faults ELSE Fault
    /\ setBack' = setBack + WentBack(s) /\ setBack' <= MaxBack
    /\ stat' = s
    /\ snapshot' = s
    /\ GoTo("node", "usage")
    /\ UNCHANGED <<cpus, shown, loadVars, hasPrev, prev, counted, hostVars>>

\* Mutant of StatFails: the empty snapshot of a failed read is kept as well.
StatFailsKept ==
    /\ pc["node"] = "stat" /\ Fault
    /\ prev' = NoTicks
    /\ GoTo("node", "rates")
    /\ UNCHANGED <<cycleVars, loadVars, hasPrev, counted, stat, setBack, hostVars>>

\* readProcCPUSnapshot fails: the cycle reports 0% and keeps prevSnapshot.
StatFails ==
    /\ pc["node"] = "stat" /\ Fault
    /\ GoTo("node", "rates")
    /\ UNCHANGED <<cycleVars, loadVars, procVars, hostVars>>

\* parseCPUCounters sums every column.  The kernel shows guest time twice: in
\* the user column and in the guest column.
Total(s) == (s["own"] + s["guest"]) + s["guest"] + s["iowait"] + s["idle"]

\* The columns whose shares computeCPURealtime adds up: all but idle and guest,
\* so the time of waiting for I/O is one of them.
Busy(s) == (s["own"] + s["guest"]) + s["iowait"]

\* TotalPercent of computeCPURealtime, as so many ticks out of so many: each
\* column's share and their sum are clamped to the whole.
Usage(now, before) ==
    LET whole == deltaCounter(Total(now), Total(before))
        part == deltaCounter(now["own"] + now["guest"], before["own"] + before["guest"])
                + deltaCounter(now["iowait"], before["iowait"])
    IN  [part |-> IF part > whole THEN whole ELSE part, whole |-> whole]

\* computeCPURealtime.  Only this loop has snapshots, so the one read before
\* the lock is the newest.  The first gives no usage, an empty stretch 0%.
ComputeUsage ==
    /\ pc["node"] = "usage" /\ mu = "free"
    /\ counted' = IF hasPrev
                  THEN [part |-> counted.part + Usage(snapshot, prev).part,
                        whole |-> counted.whole + Usage(snapshot, prev).whole]
                  ELSE [part |-> Busy(snapshot), whole |-> Total(snapshot)]
    /\ hasPrev' = TRUE
    /\ prev' = snapshot
    /\ snapshot' = NoTicks
    /\ GoTo("node", "rates")
    /\ UNCHANGED <<cpus, shown, loadVars, stat, setBack, hostVars, faults>>

\* computeMemoryRates only waits for the mutex: its result is dropped.
ComputeMemoryRates ==
    /\ pc["node"] = "rates" /\ mu = "free"
    /\ GoTo("node", "gpu")
    /\ UNCHANGED <<cycleVars, loadVars, procVars, hostVars, faults>>

-----------------------------------------------------------------------------
(* The facts that are loaded once *)

\* The end of a cycle: what the loop reports, and its locals go out of scope.
\* Collect reports the loaded number of CPUs, CollectHardware at least the
\* number NodeGetInfo has just given.
Reported(l, threads) ==
    IF l = "node" \/ threads >= cpus[l] THEN threads ELSE cpus[l]

ReportsAt(l, threads) ==
    /\ shown' = [shown EXCEPT ![l] = Reported(l, threads)]
    /\ cpus' = [cpus EXCEPT ![l] = 0]
    /\ GoTo(l, "idle")

\* What follows loadCPUStaticInfo.
AfterStatic(l, threads) ==
    \/ /\ l = "node"
       /\ ReportsAt(l, threads)
    \/ /\ l = "info"
       /\ GoTo(l, "memory")
       /\ UNCHANGED <<cpus, shown>>

StaticCached(l) ==
    /\ pc[l] = "static" /\ mu = "free" /\ cpuStatic # 0
    /\ AfterStatic(l, cpuStatic)
    /\ UNCHANGED <<snapshot, loadVars, procVars, hostVars, faults>>

\* Mutant of StaticLoads: the mutex is released before the tool is run.
StaticLoadsUnlocked(l) ==
    /\ pc[l] = "static" /\ mu = "free" /\ cpuStatic = 0
    /\ GoTo(l, "lscpu")
    /\ UNCHANGED <<cycleVars, loadVars, procVars, hostVars, faults>>

\* lscpu starts, inside the mutex.
StaticLoads(l) ==
    /\ pc[l] = "static" /\ mu = "free" /\ cpuStatic = 0
    /\ mu' = l
    /\ GoTo(l, "lscpu")
    /\ UNCHANGED <<cycleVars, cpuStatic, memHardware, table, failed, procVars, hostVars, faults>>

LscpuOk(l) ==
    /\ pc[l] = "lscpu" /\ l \notin hung
    /\ cpuStatic' = Present
    /\ mu' = "free"
    /\ AfterStatic(l, Present)
    /\ UNCHANGED <<snapshot, memHardware, table, failed, procVars, hostVars, faults>>

\* Mutant of LscpuFails: only an answer is cached.
LscpuFailsRetries(l) ==
    /\ pc[l] = "lscpu" /\ l \notin hung /\ Fault
    /\ failed' = failed \cup {"lscpu"}
    /\ mu' = "free"
    /\ AfterStatic(l, cpus[l])
    /\ UNCHANGED <<snapshot, cpuStatic, memHardware, table, procVars, hostVars>>

\* Without lscpu's answer NodeGetInfo's number stands, and is cached as well.
LscpuFails(l) ==
    /\ pc[l] = "lscpu" /\ l \notin hung /\ Fault
    /\ cpuStatic' = cpus[l]
    /\ failed' = failed \cup {"lscpu"}
    /\ mu' = "free"
    /\ AfterStatic(l, cpus[l])
    /\ UNCHANGED <<snapshot, memHardware, table, procVars, hostVars>>

-----------------------------------------------------------------------------
(* CollectHardware: the memory modules *)

\* One record of dmidecode's output.  A new device commits the one before it;
\* an array only ends it.
ParseRecord(s, record) ==
    IF record = Array THEN [s EXCEPT !.inDevice = FALSE]
    ELSE [inDevice |-> TRUE, current |-> record,
          sticks |-> IF s.inDevice /\ s.current # Empty
                     THEN Append(s.sticks, s.current) ELSE s.sticks]

\* Mutant of parseDmidecodeMemoryInfo: no commit after the loop.
parseDmidecodeNoCommit(raw) ==
    LET start == [inDevice |-> FALSE, current |-> Empty, sticks |-> <<>>]
    IN  FoldLeft(ParseRecord, start, raw).sticks

\* The commit after the loop is the one a further device would cause.
parseDmidecodeMemoryInfo(raw) ==
    LET start == [inDevice |-> FALSE, current |-> Empty, sticks |-> <<>>]
    IN  ParseRecord(FoldLeft(ParseRecord, start, raw), Empty).sticks

MemoryCached ==
    /\ pc["info"] = "memory" /\ mu = "free" /\ memHardware # None
    /\ GoTo("info", "gpu")
    /\ UNCHANGED <<cycleVars, loadVars, procVars, hostVars, faults>>

\* dmidecode starts, inside the mutex.
MemoryLoads ==
    /\ pc["info"] = "memory" /\ mu = "free" /\ memHardware = None
    /\ mu' = "info"
    /\ GoTo("info", "dmidecode")
    /\ UNCHANGED <<cycleVars, cpuStatic, memHardware, table, failed, procVars, hostVars, faults>>

DmidecodeOk(raw) ==
    /\ pc["info"] = "dmidecode" /\ "info" \notin hung
    /\ table' = raw
    /\ memHardware' = [kind |-> "sticks", sticks |-> parseDmidecodeMemoryInfo(raw)]
    /\ mu' = "free"
    /\ GoTo("info", "gpu")
    /\ UNCHANGED <<cycleVars, cpuStatic, failed, procVars, hostVars, faults>>

\* Without dmidecode's answer there are no modules, for as long as the agent runs.
DmidecodeFails ==
    /\ pc["info"] = "dmidecode" /\ "info" \notin hung /\ Fault
    /\ memHardware' = [kind |-> "sticks", sticks |-> <<>>]
    /\ failed' = failed \cup {"dmidecode"}
    /\ mu' = "free"
    /\ GoTo("info", "gpu")
    /\ UNCHANGED <<cycleVars, cpuStatic, table, procVars, hostVars>>

-----------------------------------------------------------------------------
(* The GPU tools *)

\* What follows the GPU tools: Collect still needs the CPU facts,
\* CollectHardware has everything.
AfterGPU(l) ==
    \/ /\ l = "node"
       /\ GoTo(l, "static")
       /\ UNCHANGED <<cpus, shown>>
    \/ /\ l = "info"
       /\ ReportsAt(l, cpuStatic)

\* nvidia-smi, then rocm-smi, and for the hardware lspci: each is tried when
\* the one before fails or shows nothing, and the last answer stands.
GPUAnswers(l) ==
    /\ pc[l] = "gpu" /\ l \notin hung
    /\ AfterGPU(l)
    /\ UNCHANGED <<snapshot, loadVars, procVars, hostVars, faults>>

\* Mutant of GPUKilled: exec.Command instead of exec.CommandContext.
GPUKilledNever(l) ==
    /\ pc[l] = "gpu" /\ l \in hung /\ cancelled
    /\ UNCHANGED vars

\* exec.CommandContext kills the tool, and refuses to start the next one.
GPUKilled(l) ==
    /\ pc[l] = "gpu" /\ l \in hung /\ cancelled
    /\ hung' = hung \ {l}
    /\ AfterGPU(l)
    /\ UNCHANGED <<snapshot, loadVars, procVars, online, cancelled, faults>>

-----------------------------------------------------------------------------
Static(l) == StaticCached(l) \/ StaticLoads(l) \/ LscpuOk(l) \/ LscpuFails(l)
GPU(l) == GPUAnswers(l) \/ GPUKilled(l)
Collect ==
    \/ \E s \in Stats : ReadStat(s)
    \/ StatFails \/ ComputeUsage \/ ComputeMemoryRates
CollectHardware ==
    \/ \E raw \in Tables : DmidecodeOk(raw)
    \/ MemoryCached \/ MemoryLoads \/ DmidecodeFails

\* The steps of a cycle that has begun.
Step(l) ==
    \/ Static(l) \/ GPU(l)
    \/ l = "node" /\ Collect
    \/ l = "info" /\ CollectHardware

Next ==
    \/ Hotplug \/ Cancel
    \/ \E l \in Loops : Hang(l) \/ Begin(l) \/ Step(l)

Spec == Init /\ [][Next]_vars

\* A goroutine that can run does, and a command that does not hang ends.
FairSpec == Spec /\ \A l \in Loops : WF_vars(Step(l))

-----------------------------------------------------------------------------
(* Properties *)

\* Types.  A loop holds the mutex exactly while it runs one of the two tools,
\* and a cycle's locals live as long as the cycle.
TypeOK ==
    /\ pc \in [Loops -> {"idle", "stat", "usage", "rates", "gpu", "static", "lscpu",
                         "memory", "dmidecode"}]
    /\ mu \in Loops \cup {"free"}
    /\ \A l \in Loops : mu = l <=> pc[l] \in {"lscpu", "dmidecode"}
    /\ cpuStatic \in 0..Present /\ online \in 1..Present
    /\ cpus \in [Loops -> 0..Present] /\ shown \in [Loops -> 0..Present]
    /\ \A l \in Loops : cpus[l] = 0 <=> pc[l] = "idle"
    /\ \A s \in {prev, snapshot, stat} : s \in [Columns -> Nat]
    /\ counted \in [part : Nat, whole : Nat] /\ setBack \in Nat
    /\ hung \subseteq {l \in Loops : Runs(l)}
    /\ failed \subseteq {"lscpu", "dmidecode"}
    /\ hasPrev \in BOOLEAN /\ cancelled \in BOOLEAN
    /\ faults \in 0..MaxFaults

\* Once both loops have reported, they agree on the number of CPUs, whichever
\* of them loaded the facts and whatever came on- or offline in between.  The
\* one exception: lscpu failed in its only run, and CPUs came online later,
\* which only CollectHardware notices (its maxU64).
CoresAgree ==
    /\ shown["node"] # 0 /\ shown["info"] # 0
    /\ shown["node"] # shown["info"]
    => "lscpu" \in failed /\ shown["node"] < shown["info"]

\* The modules that are reported are the ones dmidecode printed, in that order,
\* except the last device before a further memory array, which
\* parseDmidecodeMemoryInfo forgets, and except a first run that failed.
SticksReported ==
    /\ memHardware # None
    /\ "dmidecode" \notin failed
    => LET n == Len(table)
           kept == {i \in 1..n : /\ table[i] \in Modules
                                 /\ i = n \/ table[i + 1] # Array}
       IN  /\ Len(memHardware.sticks) = Cardinality(kept)
           /\ \A i \in kept :
                 memHardware.sticks[Cardinality({k \in kept : k <= i})] = table[i]

\* The reported usages add up, whichever reads of /proc/stat failed and however
\* long a cycle waited for the mutex after its read: together they account for
\* every tick between the first and the last snapshot that went to the host,
\* a guest or waiting for I/O, each once, out of all ticks with the guests' a
\* second time.  When the kernel's iowait column goes back, no more is counted
\* too often than it went back.
UsageAddsUp ==
    hasPrev =>
        /\ counted.part <= Busy(prev) + setBack
        /\ setBack = 0 => counted.part = Busy(prev) /\ counted.whole = Total(prev)

\* A cycle ends, unless its own command hangs or the other loop's does inside
\* the mutex; and a cancelled context ends a hanging GPU tool, though neither
\* lscpu nor dmidecode.
CyclesEnd ==
    \A l \in Loops :
        pc[l] # "idle" ~>
            \/ pc[l] = "idle"
            \/ \E k \in hung : (k = l \/ mu = k) /\ (pc[k] = "gpu" => ~cancelled)
=============================================================================
