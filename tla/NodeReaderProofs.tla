-------------------------- MODULE NodeReaderProofs --------------------------
(***************************************************************************)
(* Proofs about NodeReader, for any number of CPUs, any dmidecode output   *)
(* and any bounds: types and the use of the mutex, that the two loops      *)
(* agree on the number of CPUs, that the reported CPU usages add up, and   *)
(* which memory modules are reported.                                      *)
(***************************************************************************)
EXTENDS NodeReader, FoldLemmas

\* Once lscpu has run without failing, its answer is what is cached.  The mutex
\* is what makes the load happen once: nothing is cached while lscpu runs.
Facts ==
    /\ cpuStatic # 0 /\ "lscpu" \notin failed => cpuStatic = Present
    /\ \A l \in Loops : pc[l] = "lscpu" => cpuStatic = 0
    /\ pc["info"] \in {"memory", "dmidecode", "gpu"} => cpuStatic # 0

\* What a loop has reported is the cached number, or for CollectHardware more.
Shown ==
    /\ shown["node"] # 0 => cpuStatic # 0 /\ shown["node"] = cpuStatic
    /\ shown["info"] # 0 => cpuStatic # 0 /\ shown["info"] >= cpuStatic

IInv == TypeOK /\ Facts /\ Shown

\* The initial states satisfy the invariant: nothing is loaded or reported.
LEMMA InitIInv == Init => IInv
  <1> SUFFICES ASSUME Init PROVE IInv
    OBVIOUS
  <1>1. hasPrev \in BOOLEAN /\ cancelled \in BOOLEAN
    BY Zenon DEF Init
  <1>2. TypeOK
    BY <1>1, BoundsAssumption, SMT DEF Init, TypeOK, Loops, NoTicks, Columns
  <1>3. Facts /\ Shown
    BY DEF Init, Facts, Shown, Loops
  <1> QED
    BY <1>2, <1>3 DEF IInv

\* Every step of the host preserves the invariant: it touches neither the
\* loops nor what they have loaded.
LEMMA HostIInv == ASSUME IInv, Hotplug \/ Cancel \/ \E l \in Loops : Hang(l) PROVE IInv'
  <1> USE BoundsAssumption DEF IInv, TypeOK, Facts, Shown
  <1>1. CASE Hotplug
    BY <1>1 DEF Hotplug, Fault, cycleVars, loadVars, procVars, Runs
  <1>2. CASE Cancel
    BY <1>2 DEF Cancel, cycleVars, loadVars, procVars, Runs
  <1>3. ASSUME NEW l \in Loops, Hang(l) PROVE IInv'
    BY <1>3 DEF Hang, Fault, cycleVars, loadVars, procVars, Runs
  <1> QED
    BY <1>1, <1>2, <1>3

\* A snapshot is a tuple of naturals.
LEMMA StatTypes ==
    ASSUME NEW s \in Stats
    PROVE  s \in [Columns -> Nat]
  BY BoundsAssumption DEF Stats

\* A usage is a natural number of ticks out of a natural number.
LEMMA UsageTypes ==
    ASSUME NEW now \in [Columns -> Nat], NEW before \in [Columns -> Nat]
    PROVE  /\ Usage(now, before) \in [part : Nat, whole : Nat]
           /\ Total(now) \in Nat /\ Busy(now) \in Nat
  BY DEF Usage, deltaCounter, Total, Busy, Columns

\* The part of Collect that reads /proc/stat touches only the snapshots, what
\* has been counted and its own program counter; it never holds the mutex.
LEMMA CollectIInv == ASSUME IInv, Collect PROVE IInv'
  <1> USE DEF IInv
  <1>1. ASSUME NEW s \in Stats, ReadStat(s) PROVE IInv'
    <2>1. s \in [Columns -> Nat]
      BY StatTypes
    <2>2. faults' \in 0..MaxFaults
      BY <1>1, BoundsAssumption DEF ReadStat, TypeOK, Fault
    <2>3. setBack' \in Nat
      BY <1>1, <2>1 DEF ReadStat, WentBack, deltaCounter, TypeOK, Columns
    <2>4. TypeOK'
      BY <1>1, <2>1, <2>2, <2>3 DEF ReadStat, TypeOK, GoTo, loadVars, hostVars, Loops, Runs
    <2>5. Facts' /\ Shown'
      BY <1>1 DEF ReadStat, TypeOK, Facts, Shown, GoTo, loadVars, Loops
    <2> QED
      BY <2>4, <2>5
  <1>2. CASE StatFails
    <2>1. faults' \in 0..MaxFaults
      BY <1>2, BoundsAssumption DEF StatFails, TypeOK, Fault
    <2>2. TypeOK'
      BY <1>2, <2>1 DEF StatFails, TypeOK, GoTo, cycleVars, loadVars, procVars, hostVars, Loops, Runs
    <2>3. Facts' /\ Shown'
      BY <1>2 DEF StatFails, TypeOK, Facts, Shown, GoTo, cycleVars, loadVars, Loops
    <2> QED
      BY <2>2, <2>3
  <1>3. CASE ComputeUsage
    <2>1. prev' \in [Columns -> Nat] /\ snapshot' \in [Columns -> Nat]
      BY <1>3 DEF ComputeUsage, NoTicks, TypeOK
    <2>2. counted' \in [part : Nat, whole : Nat]
      <3>1. prev \in [Columns -> Nat] /\ snapshot \in [Columns -> Nat]
        BY DEF TypeOK
      <3>2. /\ Usage(snapshot, prev) \in [part : Nat, whole : Nat]
            /\ Total(snapshot) \in Nat /\ Busy(snapshot) \in Nat
        BY <3>1, UsageTypes
      <3> QED
        BY <1>3, <3>2 DEF ComputeUsage, TypeOK
    <2>3. hasPrev' \in BOOLEAN
      BY <1>3, Zenon DEF ComputeUsage
    <2>4. TypeOK'
      BY <1>3, <2>1, <2>2, <2>3, SMT DEF ComputeUsage, TypeOK, GoTo, loadVars, hostVars, Loops, Runs
    <2>5. Facts' /\ Shown'
      BY <1>3 DEF ComputeUsage, TypeOK, Facts, Shown, GoTo, loadVars, Loops
    <2> QED
      BY <2>4, <2>5
  <1>4. CASE ComputeMemoryRates
    <2>1. TypeOK'
      BY <1>4 DEF ComputeMemoryRates, TypeOK, GoTo, cycleVars, loadVars, procVars, hostVars, Loops, Runs
    <2>2. Facts' /\ Shown'
      BY <1>4 DEF ComputeMemoryRates, TypeOK, Facts, Shown, GoTo, cycleVars, loadVars, Loops
    <2> QED
      BY <2>1, <2>2
  <1> QED
    BY <1>1, <1>2, <1>3, <1>4 DEF Collect

\* A cycle begins with the mutex untouched.
LEMMA BeginIInv == ASSUME IInv, NEW l \in Loops, Begin(l) PROVE IInv'
  <1>1. TypeOK'
    BY BoundsAssumption DEF IInv, Begin, TypeOK, GoTo, loadVars, procVars, hostVars, Loops, Runs
  <1>2. Facts' /\ Shown'
    BY DEF IInv, Begin, TypeOK, Facts, Shown, GoTo, loadVars, Loops
  <1> QED
    BY <1>1, <1>2 DEF IInv

\* The two steps of CollectHardware that load the modules, and the two that
\* take them from the cache or start the load.
LEMMA HardwareIInv == ASSUME IInv, CollectHardware PROVE IInv'
  <1> USE DEF IInv
  <1> DEFINE Answered == /\ pc["info"] = "dmidecode" /\ "info" \notin hung
                         /\ failed' \in {failed, failed \cup {"dmidecode"}}
                         /\ mu' = "free" /\ GoTo("info", "gpu")
                         /\ faults' \in 0..MaxFaults
                         /\ UNCHANGED <<cycleVars, cpuStatic, procVars, hostVars>>
  <1>1. ASSUME Answered PROVE IInv'
    <2>1. TypeOK'
      BY <1>1 DEF TypeOK, GoTo, cycleVars, procVars, hostVars, Loops, Runs
    <2>2. Facts' /\ Shown'
      BY <1>1 DEF TypeOK, Facts, Shown, GoTo, cycleVars, Loops
    <2> QED
      BY <2>1, <2>2
  <1>2. ASSUME NEW raw \in Tables, DmidecodeOk(raw) PROVE Answered
    BY <1>2 DEF DmidecodeOk, TypeOK
  <1>3. CASE DmidecodeFails
    <2>1. Answered
      BY <1>3, BoundsAssumption DEF DmidecodeFails, Fault, TypeOK
    <2> QED
      BY <1>1, <2>1
  <1>4. CASE MemoryCached
    <2>1. TypeOK'
      BY <1>4 DEF MemoryCached, TypeOK, GoTo, cycleVars, loadVars, procVars, hostVars, Loops, Runs
    <2>2. Facts' /\ Shown'
      BY <1>4 DEF MemoryCached, TypeOK, Facts, Shown, GoTo, cycleVars, loadVars, Loops
    <2> QED
      BY <2>1, <2>2
  <1>5. CASE MemoryLoads
    <2>1. TypeOK'
      BY <1>5 DEF MemoryLoads, TypeOK, GoTo, cycleVars, procVars, hostVars, Loops, Runs
    <2>2. Facts' /\ Shown'
      BY <1>5 DEF MemoryLoads, TypeOK, Facts, Shown, GoTo, cycleVars, Loops
    <2> QED
      BY <2>1, <2>2
  <1> QED
    BY <1>1, <1>2, <1>3, <1>4, <1>5 DEF CollectHardware

\* A loop that reports the cached number, or the one it is about to cache, and
\* whose cycle ends.
LEMMA ReportKeeps ==
    ASSUME IInv, NEW l \in Loops, NEW threads \in 1..Present, ReportsAt(l, threads)
    PROVE  /\ pc' = [pc EXCEPT ![l] = "idle"]
           /\ cpus' = [cpus EXCEPT ![l] = 0]
           /\ shown' \in [Loops -> 0..Present]
           /\ \A k \in Loops : k # l => shown'[k] = shown[k]
           /\ l = "node" => shown'[l] = threads
           /\ l = "info" => shown'[l] >= threads
   <1>1. cpus[l] \in 0..Present
    BY DEF IInv, TypeOK
  <1>2. Reported(l, threads) \in 0..Present /\ Reported(l, threads) >= threads
    BY <1>1, BoundsAssumption DEF Reported
  <1>3. l = "node" => Reported(l, threads) = threads
    BY DEF Reported
  <1> QED
    BY <1>2, <1>3 DEF IInv, TypeOK, ReportsAt, GoTo

\* loadCPUStaticInfo from the cache.
LEMMA StaticCachedIInv == ASSUME IInv, NEW l \in Loops, StaticCached(l) PROVE IInv'
  <1> USE DEF IInv
  <1>1. cpuStatic \in 1..Present
    BY BoundsAssumption DEF StaticCached, TypeOK
  <1>2. CASE l = "node"
    <2>1. ReportsAt(l, cpuStatic)
      BY <1>2 DEF StaticCached, AfterStatic
    <2>2. /\ pc' = [pc EXCEPT ![l] = "idle"] /\ cpus' = [cpus EXCEPT ![l] = 0]
          /\ shown' \in [Loops -> 0..Present]
          /\ shown'["info"] = shown["info"] /\ shown'["node"] = cpuStatic
      BY <1>1, <1>2, <2>1, ReportKeeps DEF Loops
    <2>3. TypeOK'
      BY <1>1, <1>2, <2>2, BoundsAssumption DEF StaticCached, TypeOK, loadVars, procVars, hostVars, Loops, Runs
    <2>4. Facts' /\ Shown'
      BY <1>1, <1>2, <2>2 DEF StaticCached, TypeOK, Facts, Shown, loadVars, Loops
    <2> QED
      BY <2>2, <2>3, <2>4
  <1>3. CASE l = "info"
    <2>1. GoTo(l, "memory") /\ UNCHANGED <<cpus, shown>>
      BY <1>3 DEF StaticCached, AfterStatic
    <2>2. TypeOK' /\ Facts' /\ Shown'
      BY <1>1, <1>3, <2>1
      DEF StaticCached, GoTo, TypeOK, Facts, Shown, loadVars, procVars, hostVars, Loops, Runs
    <2> QED
      BY <2>2
  <1> QED
    BY <1>2, <1>3 DEF Loops

\* loadCPUStaticInfo takes the mutex and starts lscpu.
LEMMA StaticLoadsIInv == ASSUME IInv, NEW l \in Loops, StaticLoads(l) PROVE IInv'
  <1>1. TypeOK'
    BY DEF IInv, StaticLoads, TypeOK, GoTo, cycleVars, procVars, hostVars, Loops, Runs
  <1>2. Facts' /\ Shown'
    BY DEF IInv, StaticLoads, TypeOK, Facts, Shown, GoTo, cycleVars, Loops
  <1> QED
    BY <1>1, <1>2 DEF IInv

\* lscpu has ended: either with its answer, or with the default and the tool
\* among the failed ones.  Nothing was reported before, because nothing was
\* cached; so what is cached now cannot contradict a report.
LEMMA LscpuIInv == ASSUME IInv, NEW l \in Loops, LscpuOk(l) \/ LscpuFails(l) PROVE IInv'
  <1> USE DEF IInv
  <1> DEFINE threads == cpuStatic'
  <1>1. /\ pc[l] = "lscpu" /\ l \notin hung /\ mu' = "free"
        /\ threads \in 1..Present
        /\ AfterStatic(l, threads)
        /\ failed' \subseteq {"lscpu", "dmidecode"}
        /\ "lscpu" \notin failed' => threads = Present
        /\ faults' \in 0..MaxFaults
        /\ UNCHANGED <<snapshot, procVars, hostVars>>
    <2>1. CASE LscpuOk(l)
      BY <2>1, BoundsAssumption DEF LscpuOk, TypeOK
    <2>2. CASE LscpuFails(l)
      <3>1. cpus[l] \in 1..Present
        BY <2>2, BoundsAssumption DEF LscpuFails, TypeOK
      <3> QED
        BY <2>2, <3>1, BoundsAssumption DEF LscpuFails, TypeOK, Fault
    <2> QED
      BY <2>1, <2>2
  <1>2. cpuStatic = 0 /\ shown["node"] = 0 /\ shown["info"] = 0
    BY <1>1 DEF Facts, Shown
  <1>3. CASE l = "node"
    <2>1. ReportsAt(l, threads)
      BY <1>1, <1>3 DEF AfterStatic
    <2>2. TypeOK' /\ Facts' /\ Shown'
      <3> HIDE DEF threads
      <3>1. threads = cpuStatic'
        BY DEF threads
      <3> QED
        BY <1>1, <1>2, <1>3, <2>1, <3>1, ReportKeeps
        DEF TypeOK, Facts, Shown, procVars, hostVars, Loops, Runs
    <2> QED
      BY <1>1, <2>1, <2>2, ReportKeeps
  <1>4. CASE l = "info"
    <2>1. GoTo(l, "memory") /\ UNCHANGED <<cpus, shown>>
      BY <1>1, <1>4 DEF AfterStatic
    <2>2. TypeOK' /\ Facts' /\ Shown'
      BY <1>1, <1>2, <1>4, <2>1
      DEF GoTo, TypeOK, Facts, Shown, procVars, hostVars, Loops, Runs
    <2> QED
      BY <2>2
  <1> QED
    BY <1>3, <1>4 DEF Loops

\* The GPU tools run outside the mutex; their end frees a hung loop.
LEMMA GPUIInv == ASSUME IInv, NEW l \in Loops, GPU(l) PROVE IInv'
  <1> USE DEF IInv
  <1>1. /\ pc[l] = "gpu" /\ l \notin hung' /\ hung' \subseteq hung
        /\ AfterGPU(l)
        /\ UNCHANGED <<snapshot, loadVars, procVars, online, cancelled, faults>>
    BY DEF GPU, GPUAnswers, GPUKilled, hostVars
  <1>2. CASE l = "node"
    <2>1. GoTo(l, "static") /\ UNCHANGED <<cpus, shown>>
      BY <1>1, <1>2 DEF AfterGPU
    <2>2. TypeOK' /\ Facts' /\ Shown'
      BY <1>1, <1>2, <2>1 DEF GoTo, TypeOK, Facts, Shown, loadVars, procVars, Loops, Runs
    <2> QED
      BY <2>2
  <1>3. CASE l = "info"
    <2>1. ReportsAt(l, cpuStatic)
      BY <1>1, <1>3 DEF AfterGPU
    <2>2. cpuStatic \in 1..Present
      BY <1>1, <1>3, BoundsAssumption DEF TypeOK, Facts
    <2>3. /\ pc' = [pc EXCEPT ![l] = "idle"] /\ cpus' = [cpus EXCEPT ![l] = 0]
          /\ shown' \in [Loops -> 0..Present]
          /\ shown'["node"] = shown["node"] /\ shown'["info"] >= cpuStatic
      BY <1>3, <2>1, <2>2, ReportKeeps DEF Loops
    <2>4. TypeOK'
      BY <1>1, <1>3, <2>3, BoundsAssumption DEF TypeOK, loadVars, procVars, Loops, Runs
    <2>5. Facts' /\ Shown'
      BY <1>1, <1>3, <2>2, <2>3 DEF TypeOK, Facts, Shown, loadVars, Loops
    <2> QED
      BY <2>3, <2>4, <2>5
  <1> QED
    BY <1>2, <1>3 DEF Loops

\* The invariant is inductive.
LEMMA NextIInv == IInv /\ [Next]_vars => IInv'
  <1> SUFFICES ASSUME IInv, [Next]_vars PROVE IInv'
    OBVIOUS
  <1>1. CASE UNCHANGED vars
    BY <1>1 DEF IInv, TypeOK, Facts, Shown, Runs, vars, cycleVars, loadVars,
                procVars, hostVars
  <1>2. ASSUME NEW l \in Loops, Step(l) PROVE IInv'
    BY <1>2, StaticCachedIInv, StaticLoadsIInv, LscpuIInv, GPUIInv, CollectIInv, HardwareIInv
    DEF Step, Static
  <1> QED
    BY <1>1, <1>2, HostIInv, BeginIInv DEF Next

\* The invariant implies the two properties.
LEMMA IInvImplies == IInv => TypeOK /\ CoresAgree
  BY BoundsAssumption DEF IInv, TypeOK, Facts, Shown, CoresAgree, Loops

\* The invariant holds in every reachable state.
LEMMA Invariance == Spec => []IInv
  BY InitIInv, NextIInv, PTL DEF Spec

\* Types, and a loop holds the reader's mutex exactly while it runs lscpu or
\* dmidecode.
THEOREM TypeCorrect == Spec => []TypeOK
  BY Invariance, IInvImplies, PTL

\* Collect and CollectHardware never disagree on the number of CPUs, unless
\* lscpu failed and CPUs came online later.
THEOREM LoopsAgree == Spec => []CoresAgree
  BY Invariance, IInvImplies, PTL

-----------------------------------------------------------------------------
(* The reported usages add up *)

\* Between two snapshots only the iowait column has gone back, and by no more
\* than setBack has room for; outside the stretch from the read to the lock,
\* prevSnapshot is what /proc/stat was at the last read.
Accounted ==
    /\ UsageAddsUp
    /\ hasPrev /\ pc["node"] # "usage" => stat = prev
    /\ pc["node"] = "usage" => stat = snapshot
    /\ hasPrev /\ pc["node"] = "usage" =>
          /\ \A c \in Columns \ {"iowait"} : snapshot[c] >= prev[c]
          /\ setBack = 0 => snapshot["iowait"] >= prev["iowait"]
          /\ counted.part + deltaCounter(prev["iowait"], snapshot["iowait"])
                 <= Busy(prev) + setBack

\* The read of /proc/stat: what went back since prevSnapshot is in setBack.
LEMMA ReadAccounted ==
    ASSUME TypeOK, Accounted, NEW s \in Stats, ReadStat(s)
    PROVE  Accounted'
  <1>1. /\ s \in [Columns -> Nat] /\ prev \in [Columns -> Nat] /\ stat \in [Columns -> Nat]
        /\ counted.part \in Nat /\ setBack \in Nat
    BY StatTypes DEF TypeOK
  <1>2. /\ pc["node"] = "stat" /\ pc'["node"] = "usage"
        /\ snapshot' = s /\ stat' = s
        /\ hasPrev' = hasPrev /\ prev' = prev /\ counted' = counted
        /\ \A c \in Columns \ {"iowait"} : s[c] >= stat[c]
        /\ setBack' = setBack + deltaCounter(stat["iowait"], s["iowait"])
    BY DEF ReadStat, GoTo, TypeOK, Loops, WentBack
  <1>3. CASE ~hasPrev
    BY <1>2, <1>3 DEF Accounted, UsageAddsUp
  <1>4. CASE hasPrev
    <2>1. stat = prev /\ UsageAddsUp
      BY <1>2, <1>4 DEF Accounted
    <2>2. deltaCounter(prev["iowait"], s["iowait"]) \in Nat
      BY <1>1 DEF deltaCounter, Columns
    <2>3. Busy(prev) \in Nat
      BY <1>1, UsageTypes
    <2>4. counted.part + deltaCounter(prev["iowait"], s["iowait"]) <= Busy(prev) + setBack'
      BY <1>1, <1>2, <1>4, <2>1, <2>2, <2>3 DEF UsageAddsUp
    <2>5. setBack' = 0 => setBack = 0 /\ s["iowait"] >= prev["iowait"]
      BY <1>1, <1>2, <2>1 DEF deltaCounter, Columns
    <2>6. UsageAddsUp'
      <3>1. UsageAddsUp' = (hasPrev =>
                /\ counted.part <= Busy(prev) + setBack'
                /\ setBack' = 0 => counted.part = Busy(prev) /\ counted.whole = Total(prev))
        BY <1>2 DEF UsageAddsUp, Busy, Total
      <3>2. counted.part <= Busy(prev) + setBack'
        BY <1>1, <1>2, <2>2, <2>3, <2>4
      <3> QED
        BY <1>4, <2>1, <2>5, <3>1, <3>2 DEF UsageAddsUp
    <2>7. (Busy(prev))' = Busy(prev)
      BY <1>2 DEF Busy
    <2> QED
      BY <1>2, <2>1, <2>4, <2>5, <2>6, <2>7 DEF Accounted
  <1> QED
    BY <1>3, <1>4

\* computeCPURealtime: the growth of the busy columns since prevSnapshot is
\* counted once, and a growth of nothing is worth nothing.
LEMMA UsageAccounted ==
    ASSUME TypeOK, Accounted, ComputeUsage
    PROVE  Accounted'
  <1> DEFINE now == snapshot
  <1>1. /\ now \in [Columns -> Nat] /\ prev \in [Columns -> Nat]
        /\ counted \in [part : Nat, whole : Nat] /\ setBack \in Nat
    BY DEF TypeOK
  <1>2. /\ pc["node"] = "usage" /\ pc'["node"] = "rates"
        /\ hasPrev' /\ prev' = now /\ stat' = stat /\ stat = now /\ setBack' = setBack
    BY DEF ComputeUsage, GoTo, TypeOK, Loops, Accounted
  <1>3. (Busy(prev))' = Busy(now) /\ (Total(prev))' = Total(now)
    BY <1>2 DEF Busy, Total
  <1>4. CASE ~hasPrev
    <2>1. counted'.part = Busy(now) /\ counted'.whole = Total(now)
      BY <1>4 DEF ComputeUsage
    <2>2. Busy(now) \in Nat
      BY <1>1, UsageTypes
    <2> QED
      BY <1>1, <1>2, <1>3, <2>1, <2>2 DEF Accounted, UsageAddsUp
  <1>5. CASE hasPrev
    <2>1. /\ counted'.part = counted.part + Usage(now, prev).part
          /\ counted'.whole = counted.whole + Usage(now, prev).whole
      BY <1>5 DEF ComputeUsage
    <2>2. /\ now["own"] >= prev["own"] /\ now["guest"] >= prev["guest"]
          /\ now["idle"] >= prev["idle"]
          /\ setBack = 0 => now["iowait"] >= prev["iowait"]
          /\ counted.part + deltaCounter(prev["iowait"], now["iowait"]) <= Busy(prev) + setBack
          /\ setBack = 0 => counted.part = Busy(prev) /\ counted.whole = Total(prev)
      BY <1>2, <1>5 DEF Accounted, UsageAddsUp, Columns
    <2>3. /\ now["own"] \in Nat /\ now["guest"] \in Nat /\ now["iowait"] \in Nat
          /\ now["idle"] \in Nat
          /\ prev["own"] \in Nat /\ prev["guest"] \in Nat /\ prev["iowait"] \in Nat
          /\ prev["idle"] \in Nat
          /\ counted.part \in Nat /\ counted.whole \in Nat
      BY <1>1 DEF Columns
    <2>4. counted'.part <= Busy(now) + setBack
      BY <1>1, <2>1, <2>2, <2>3 DEF Usage, deltaCounter, Busy, Total
    <2>5. setBack = 0 => counted'.part = Busy(now) /\ counted'.whole = Total(now)
      BY <2>1, <2>2, <2>3 DEF Usage, deltaCounter, Busy, Total
    <2> QED
      BY <1>2, <1>3, <2>4, <2>5 DEF Accounted, UsageAddsUp
  <1> QED
    BY <1>4, <1>5

\* Nothing else touches the snapshots or what has been counted.
LEMMA OthersAccounted ==
    ASSUME Accounted, UNCHANGED <<procVars, snapshot>>,
           pc'["node"] = "usage" <=> pc["node"] = "usage"
    PROVE  Accounted'
  BY DEF Accounted, UsageAddsUp, Busy, Total, deltaCounter, procVars

\* The invariant is inductive.
LEMMA NextAccounted == TypeOK /\ Accounted /\ [Next]_vars => Accounted'
  <1> SUFFICES ASSUME TypeOK, Accounted, [Next]_vars PROVE Accounted'
    OBVIOUS
  <1>1. ASSUME NEW l \in Loops, Static(l) \/ GPU(l) PROVE Accounted'
    <2>1. UNCHANGED <<procVars, snapshot>>
      BY <1>1 DEF Static, StaticCached, StaticLoads, LscpuOk, LscpuFails, GPU, GPUAnswers,
                  GPUKilled, cycleVars
    <2>2. /\ pc[l] \in {"static", "lscpu", "gpu"}
          /\ \E step \in {"idle", "memory", "lscpu", "static"} : pc' = [pc EXCEPT ![l] = step]
      BY <1>1 DEF Static, StaticCached, StaticLoads, LscpuOk, LscpuFails, GPU, GPUAnswers,
                  GPUKilled, AfterStatic, AfterGPU, ReportsAt, GoTo
    <2>3. pc'["node"] = "usage" <=> pc["node"] = "usage"
      BY <2>2 DEF TypeOK, Loops
    <2> QED
      BY <2>1, <2>3, OthersAccounted
  <1>2. CASE StatFails \/ ComputeMemoryRates
    <2>1. /\ UNCHANGED <<procVars, snapshot>>
          /\ pc'["node"] = "usage" <=> pc["node"] = "usage"
      BY <1>2 DEF StatFails, ComputeMemoryRates, GoTo, cycleVars, TypeOK, Loops
    <2> QED
      BY <2>1, OthersAccounted
  <1>3. CASE CollectHardware
    <2>1. /\ UNCHANGED <<procVars, snapshot>>
          /\ pc'["node"] = "usage" <=> pc["node"] = "usage"
      BY <1>3 DEF CollectHardware, DmidecodeOk, MemoryCached, MemoryLoads, DmidecodeFails, GoTo,
                  cycleVars, TypeOK, Loops
    <2> QED
      BY <2>1, OthersAccounted
  <1>4. CASE Hotplug \/ Cancel \/ \E l \in Loops : Hang(l) \/ Begin(l)
    <2>1. /\ UNCHANGED <<procVars, snapshot>>
          /\ pc'["node"] = "usage" <=> pc["node"] = "usage"
      BY <1>4 DEF Hotplug, Cancel, Hang, Begin, GoTo, cycleVars, TypeOK, Loops
    <2> QED
      BY <2>1, OthersAccounted
  <1>5. CASE UNCHANGED vars
    BY <1>5, OthersAccounted DEF vars, cycleVars
  <1> QED
    BY <1>1, <1>2, <1>3, <1>4, <1>5, ReadAccounted, UsageAccounted DEF Next, Step, Collect

\* For counters of any size and any number of failed reads: the usages that
\* computeCPURealtime reports count every tick in which the host or a guest
\* ran or the CPU waited for I/O, from the first snapshot on, exactly once; and
\* when the kernel's iowait column goes back, too much by no more than that.
THEOREM UsageCountsOnce == Spec => []UsageAddsUp
  <1>1. Init => Accounted
    BY DEF Init, Accounted, UsageAddsUp, Loops
  <1>2. Accounted => UsageAddsUp
    BY DEF Accounted
  <1> QED
    BY <1>1, <1>2, NextAccounted, TypeCorrect, PTL DEF Spec

-----------------------------------------------------------------------------
(* The pass over dmidecode's records *)

Records == Modules \cup {Array, Empty}
States == [inDevice : BOOLEAN, current : Records, sticks : Seq(Records)]
Start == [inDevice |-> FALSE, current |-> Empty, sticks |-> <<>>]

\* The sequence q lists the records of raw with an index in C, in their order.
Lists(q, raw, C) ==
    /\ Len(q) = Cardinality(C)
    /\ \A i \in C : q[Cardinality({c \in C : c <= i})] = raw[i]

\* The modules that the first k records have committed: a device is committed
\* by the next one, and lost when the next record is an array.
Committed(raw, k) == {i \in 1..(k - 1) : raw[i] \in Modules /\ raw[i + 1] # Array}

\* The scanner's state after the first k records.
Scanned(s, raw, k) ==
    /\ s \in States
    /\ s.inDevice <=> (k >= 1 /\ raw[k] # Array)
    /\ s.inDevice => s.current = raw[k]
    /\ Lists(s.sticks, raw, Committed(raw, k))

\* A list grows by the record at a later index.
LEMMA ListsAppend ==
    ASSUME NEW raw \in Seq(Records), NEW q \in Seq(Records), NEW k \in 1..Len(raw),
           NEW C \in SUBSET (1..(k - 1)), Lists(q, raw, C)
    PROVE  Lists(Append(q, raw[k]), raw, C \cup {k})
  <1> DEFINE D == C \cup {k}
             Below(S, i) == {c \in S : c <= i}
  <1>0. raw[k] \in Records
    OBVIOUS
  <1>1. IsFiniteSet(C) /\ Cardinality(C) \in Nat
    <2>1. IsFiniteSet(1..(k - 1))
      BY FS_Interval
    <2>2. IsFiniteSet(C)
      BY <2>1, FS_Subset
    <2> QED
      BY <2>2, FS_CardinalityType
  <1>2. k \notin C /\ \A i \in C : i \in Nat /\ i < k
    OBVIOUS
  <1>3. Cardinality(D) = Cardinality(C) + 1
    BY <1>1, <1>2, FS_AddElement
  <1>4. Len(Append(q, raw[k])) = Cardinality(D)
    BY <1>0, <1>3 DEF Lists
  <1>5. ASSUME NEW i \in C PROVE Append(q, raw[k])[Cardinality(Below(D, i))] = raw[i]
    <2>1. Below(D, i) = Below(C, i)
      BY <1>2
    <2>2. /\ IsFiniteSet(Below(C, i)) /\ Cardinality(Below(C, i)) \in Nat
          /\ Cardinality(Below(C, i)) <= Cardinality(C)
      BY <1>1, FS_Subset, FS_CardinalityType
    <2>3. Cardinality(Below(C, i)) # 0
      <3>1. i \in Below(C, i)
        BY <1>2
      <3> QED
        BY <2>2, <3>1, FS_EmptySet
    <2>4. Cardinality(Below(C, i)) \in 1..Len(q)
      BY <1>1, <2>2, <2>3 DEF Lists
    <2>5. q[Cardinality(Below(C, i))] = raw[i]
      BY DEF Lists
    <2> HIDE DEF D, Below
    <2>6. Append(q, raw[k])[Cardinality(Below(C, i))] = q[Cardinality(Below(C, i))]
      BY <1>0, <2>4
    <2> QED
      BY <2>1, <2>5, <2>6
  <1>6. Append(q, raw[k])[Cardinality(Below(D, k))] = raw[k]
    <2>1. Below(D, k) = D
      <3>1. \A c \in D : c <= k
        BY <1>2
      <3> QED
        BY <3>1
    <2>2. Cardinality(D) = Len(q) + 1
      BY <1>3 DEF Lists
    <2> QED
      BY <1>0, <2>1, <2>2
  <1> QED
    BY <1>4, <1>5, <1>6 DEF Lists

\* A record that is neither an array nor an empty slot is a module.
LEMMA RecordKinds ==
    ASSUME NEW r \in Records
    PROVE  r \in Modules <=> r # Array /\ r # Empty
  BY TablesAssumption DEF Records

\* What one record makes of a state.
LEMMA ParseType ==
    ASSUME NEW s \in States, NEW r \in Records
    PROVE  ParseRecord(s, r) \in States
  <1>1. CASE r = Array
    <2>1. FALSE \in BOOLEAN
      BY Zenon
    <2> QED
      BY <1>1, <2>1 DEF ParseRecord, States
  <1>2. CASE r # Array
    <2>1. TRUE \in BOOLEAN
      BY Zenon
    <2>2. s.sticks \in Seq(Records) /\ Append(s.sticks, s.current) \in Seq(Records)
      BY DEF States
    <2> QED
      BY <1>2, <2>1, <2>2 DEF ParseRecord, States
  <1> QED
    BY <1>1, <1>2

\* One more record keeps the description of the scanner's state.
LEMMA ScanStep ==
    ASSUME NEW raw \in Seq(Records), NEW k \in Nat, k < Len(raw), NEW s, Scanned(s, raw, k)
    PROVE  Scanned(ParseRecord(s, raw[k + 1]), raw, k + 1)
  <1> DEFINE t == ParseRecord(s, raw[k + 1])
             C == Committed(raw, k)
  <1>1. k + 1 \in 1..Len(raw) /\ raw[k + 1] \in Records
    OBVIOUS
  <1>2. t \in States /\ s \in States
    BY <1>1, ParseType DEF Scanned
  <1>3. CASE raw[k + 1] = Array
    <2>1. t.inDevice = FALSE /\ t.sticks = s.sticks
      BY <1>2, <1>3 DEF ParseRecord, States
    <2>2. Committed(raw, k + 1) = C
      BY <1>3 DEF Committed
    <2> QED
      BY <1>2, <1>3, <2>1, <2>2 DEF Scanned
  <1>4. CASE raw[k + 1] # Array /\ ~(k >= 1 /\ raw[k] \in Modules)
    <2>1. ~(s.inDevice /\ s.current # Empty)
      <3>1. CASE k = 0
        BY <3>1 DEF Scanned
      <3>2. CASE k >= 1
        BY <1>4, <3>2, RecordKinds DEF Scanned
      <3> QED
        BY <3>1, <3>2
    <2>2. t.inDevice = TRUE /\ t.current = raw[k + 1] /\ t.sticks = s.sticks
      BY <1>4, <2>1 DEF ParseRecord
    <2>3. Committed(raw, k + 1) = C
      BY <1>4 DEF Committed
    <2> QED
      BY <1>2, <1>4, <2>2, <2>3 DEF Scanned
  <1>5. CASE raw[k + 1] # Array /\ k >= 1 /\ raw[k] \in Modules
    <2>1. s.inDevice /\ s.current = raw[k] /\ s.current # Empty
      BY <1>5, RecordKinds DEF Scanned
    <2>2. t.inDevice = TRUE /\ t.current = raw[k + 1] /\ t.sticks = Append(s.sticks, raw[k])
      BY <1>5, <2>1 DEF ParseRecord
    <2>3. Committed(raw, k + 1) = C \cup {k}
      BY <1>5 DEF Committed
    <2>4. Lists(Append(s.sticks, raw[k]), raw, C \cup {k})
      <3>1. C \in SUBSET (1..(k - 1)) /\ k \in 1..Len(raw) /\ s.sticks \in Seq(Records)
        BY <1>2, <1>5 DEF Committed, States
      <3>2. Lists(s.sticks, raw, C)
        BY DEF Scanned
      <3> QED
        BY <3>1, <3>2, ListsAppend
    <2>5. Lists(t.sticks, raw, Committed(raw, k + 1))
      BY <2>2, <2>3, <2>4
    <2> HIDE DEF t
    <2>6. Scanned(t, raw, k + 1)
      BY <1>2, <1>5, <2>2, <2>5 DEF Scanned
    <2> QED
      BY <2>6 DEF t
  <1> QED
    BY <1>3, <1>4, <1>5

\* FoldLeft passes over the records one by one: its value after the first k.
LEMMA FoldOfRecords ==
    ASSUME NEW raw \in Seq(Records)
    PROVE  \E g : /\ FoldLeft(ParseRecord, Start, raw) = g[1..Len(raw)]
                  /\ g[{}] = Start
                  /\ \A k \in 1..Len(raw) :
                        g[1..k] = ParseRecord(g[1..(k - 1)], raw[k])
  <1> DEFINE S == 1..Len(raw)
             Body(g) == [s \in SUBSET S |-> IF s = {} THEN Start
                            ELSE ParseRecord(g[s \ {Max(s)}], raw[Max(s)])]
             iter == CHOOSE g : g = Body(g)
             pick == [s \in SUBSET S |-> Max(s)]
             step == [i \in S |-> [v \in States |-> ParseRecord(v, raw[i])]]
  <1>0. IsFiniteSet(S) /\ DOMAIN raw = S /\ Len(raw) \in Nat
    BY FS_Interval
  <1>1. \A s \in SUBSET S : s # {} => Max(s) \in s
    BY <1>0, MaxOfIndices
  <1>2. Picks(pick, S)
    BY <1>1 DEF Picks
  <1>3. Start \in States
    <2>1. FALSE \in BOOLEAN
      BY Zenon
    <2> QED
      BY <2>1 DEF Start, States, Records
  <1>4. \A i \in S : \A v \in States : ParseRecord(v, raw[i]) \in States
    BY ParseType
  <1>5. step \in [S -> [States -> States]]
    BY <1>4
  <1> HIDE DEF pick, step
  <1>6. PICK g : IsFold(g, S, States, Start, step, pick)
    <2> HIDE DEF S
    <2> QED
      BY <1>0, <1>2, <1>3, <1>5, FoldExists
  <1>7. ASSUME NEW s \in SUBSET S
        PROVE  g[s] = IF s = {} THEN Start ELSE ParseRecord(g[s \ {Max(s)}], raw[Max(s)])
    <2>1. g[s] = FoldStep(g, s, Start, step, pick)
      BY <1>6 DEF IsFold
    <2>2. s # {} => g[s \ {Max(s)}] \in States /\ Max(s) \in S
      BY <1>1, <1>6 DEF IsFold
    <2>3. s # {} => step[Max(s)][g[s \ {Max(s)}]] = ParseRecord(g[s \ {Max(s)}], raw[Max(s)])
      BY <2>2 DEF step
    <2> QED
      BY <2>1, <2>3 DEF FoldStep, pick
  <1>8. g = Body(g)
    BY <1>6, <1>7 DEF IsFold
  <1>9. FoldLeft(ParseRecord, Start, raw) = iter[S]
    <2>1. FoldLeft(ParseRecord, Start, raw)
             = (CHOOSE f : f = [s \in SUBSET DOMAIN raw |-> IF s = {} THEN Start
                                  ELSE ParseRecord(f[s \ {Max(s)}], raw[Max(s)])])[DOMAIN raw]
      BY Zenon DEF FoldLeft, MapThenFoldSet
    <2> QED
      BY <1>0, <2>1, Zenon
  <1> HIDE DEF Body
  <1>10. iter = Body(iter)
    BY <1>8, Zenon
  <1> HIDE DEF iter
  <1>11. \A s \in SUBSET S :
            iter[s] = IF s = {} THEN Start ELSE ParseRecord(iter[s \ {Max(s)}], raw[Max(s)])
    BY <1>10, Zenon DEF Body
  <1>12. iter[{}] = Start
    BY <1>11
  <1>13. ASSUME NEW k \in S PROVE iter[1..k] = ParseRecord(iter[1..(k - 1)], raw[k])
    <2>1. k \in Nat \ {0} /\ 1..k \in SUBSET S /\ k \in 1..k /\ (1..k) \ {k} = 1..(k - 1)
      OBVIOUS
    <2>2. Max(1..k) = k
      BY <2>1, MaxOfPrefix
    <2>3. 1..k # {}
      BY <2>1, Zenon
    <2>4. iter[1..k] = ParseRecord(iter[(1..k) \ {Max(1..k)}], raw[Max(1..k)])
      BY <1>11, <2>1, <2>3, Zenon
    <2> QED
      BY <2>1, <2>2, <2>4, Zenon
  <1> QED
    BY <1>9, <1>12, <1>13, Zenon

\* The pass over all of the records.
LEMMA ScanAll ==
    ASSUME NEW raw \in Seq(Records)
    PROVE  Scanned(FoldLeft(ParseRecord, Start, raw), raw, Len(raw))
  <1>1. PICK g : /\ FoldLeft(ParseRecord, Start, raw) = g[1..Len(raw)]
                 /\ g[{}] = Start
                 /\ \A k \in 1..Len(raw) : g[1..k] = ParseRecord(g[1..(k - 1)], raw[k])
    BY FoldOfRecords, Zenon
  <1> DEFINE P == {k \in Nat : k <= Len(raw) => Scanned(g[1..k], raw, k)}
  <1>2. 0 \in P
    <2>1. 1..0 = {} /\ Committed(raw, 0) = {}
      BY DEF Committed
    <2>2. Lists(Start.sticks, raw, {})
      BY FS_EmptySet DEF Lists, Start
    <2>3. Start \in States /\ ~Start.inDevice
      <3>1. FALSE \in BOOLEAN
        BY Zenon
      <3> QED
        BY <3>1 DEF Start, States, Records
    <2>4. Lists(Start.sticks, raw, Committed(raw, 0))
      BY <2>1, <2>2, Zenon
    <2>5. Scanned(Start, raw, 0)
      <3>1. ~(0 >= 1)
        OBVIOUS
      <3> QED
        BY <2>3, <2>4, <3>1, Zenon DEF Scanned
    <2> QED
      BY <1>1, <2>1, <2>5
  <1>3. ASSUME NEW k \in P PROVE k + 1 \in P
    <2>0. k \in Nat /\ (k <= Len(raw) => Scanned(g[1..k], raw, k))
      OBVIOUS
    <2> SUFFICES ASSUME k + 1 <= Len(raw) PROVE Scanned(g[1..(k + 1)], raw, k + 1)
      BY <2>0
    <2> HIDE DEF P
    <2>1. k < Len(raw) /\ k + 1 \in 1..Len(raw) /\ (k + 1) - 1 = k
      BY <2>0
    <2>2. Scanned(g[1..k], raw, k)
      BY <2>0, <2>1
    <2>3. g[1..(k + 1)] = ParseRecord(g[1..k], raw[k + 1])
      BY <1>1, <2>1
    <2>4. Scanned(ParseRecord(g[1..k], raw[k + 1]), raw, k + 1)
      BY <2>0, <2>1, <2>2, ScanStep
    <2> QED
      BY <2>3, <2>4, Zenon
  <1>4. P = Nat
    <2> HIDE DEF P
    <2>1. P \in SUBSET Nat
      BY DEF P
    <2> QED
      BY <1>2, <1>3, <2>1, NatSetInduction
  <1>5. Len(raw) \in Nat /\ Len(raw) \in P
    BY <1>4
  <1> QED
    BY <1>1, <1>5

\* The indices of the modules that are reported: all but the last device before
\* a further array.
Kept(raw) ==
    {i \in 1..Len(raw) : /\ raw[i] \in Modules
                         /\ i = Len(raw) \/ raw[i + 1] # Array}

\* parseDmidecodeMemoryInfo lists exactly these, whatever dmidecode printed.
LEMMA ParseLists ==
    ASSUME NEW raw \in Seq(Records)
    PROVE  Lists(parseDmidecodeMemoryInfo(raw), raw, Kept(raw))
  <1> DEFINE n == Len(raw)
  <1>1. PICK s : s = FoldLeft(ParseRecord, Start, raw)
    BY Zenon
  <1>2. Scanned(s, raw, n) /\ n \in Nat
    BY <1>1, ScanAll
  <1>3. parseDmidecodeMemoryInfo(raw) = ParseRecord(s, Empty).sticks
    BY <1>1, Zenon DEF parseDmidecodeMemoryInfo, Start
  <1>4. Empty # Array
    BY DEF Empty, Array
  <1>5. CASE ~(n >= 1 /\ raw[n] \in Modules)
    <2>1. ~(s.inDevice /\ s.current # Empty)
      <3>1. CASE n = 0
        BY <1>2, <3>1 DEF Scanned
      <3>2. CASE n >= 1
        <4>1. raw[n] \in Records
          BY <3>2
        <4> QED
          BY <1>2, <1>5, <3>2, <4>1, RecordKinds DEF Scanned
      <3> QED
        BY <1>2, <3>1, <3>2
    <2>2. ParseRecord(s, Empty).sticks = s.sticks
      BY <1>4, <2>1 DEF ParseRecord
    <2>3. Kept(raw) = Committed(raw, n)
      BY <1>2, <1>5 DEF Kept, Committed
    <2> QED
      BY <1>2, <1>3, <2>2, <2>3 DEF Scanned
  <1>6. CASE n >= 1 /\ raw[n] \in Modules
    <2>1. s.inDevice /\ s.current = raw[n] /\ s.current # Empty
      <3>1. raw[n] \in Records
        BY <1>2, <1>6
      <3> QED
        BY <1>2, <1>6, <3>1, RecordKinds DEF Scanned
    <2>2. ParseRecord(s, Empty).sticks = Append(s.sticks, raw[n])
      BY <1>4, <2>1 DEF ParseRecord
    <2>3. Kept(raw) = Committed(raw, n) \cup {n}
      BY <1>2, <1>6 DEF Kept, Committed
    <2>4. /\ Committed(raw, n) \in SUBSET (1..(n - 1)) /\ n \in 1..Len(raw)
          /\ s.sticks \in Seq(Records) /\ Lists(s.sticks, raw, Committed(raw, n))
      BY <1>2, <1>6 DEF Committed, Scanned, States
    <2>5. Lists(Append(s.sticks, raw[n]), raw, Committed(raw, n) \cup {n})
      BY <2>4, ListsAppend
    <2> QED
      BY <1>3, <2>2, <2>3, <2>5
  <1> QED
    BY <1>5, <1>6

\* What is reported was parsed from dmidecode's only run.
Parsed ==
    memHardware # None /\ "dmidecode" \notin failed =>
        table \in Tables /\ memHardware.sticks = parseDmidecodeMemoryInfo(table)

\* Only that run changes it.
LEMMA NextParsed == Parsed /\ [Next]_vars => Parsed'
  <1> SUFFICES ASSUME Parsed, [Next]_vars PROVE Parsed'
    OBVIOUS
  <1>1. ASSUME UNCHANGED <<memHardware, table>>, failed \subseteq failed' PROVE Parsed'
    BY <1>1 DEF Parsed
  <1>2. ASSUME NEW raw \in Tables, DmidecodeOk(raw) PROVE Parsed'
    BY <1>2 DEF DmidecodeOk, Parsed
  <1>3. CASE DmidecodeFails
    BY <1>3 DEF DmidecodeFails, Parsed
  <1>4. ASSUME NEW l \in Loops, Static(l) \/ GPU(l)
        PROVE  UNCHANGED <<memHardware, table>> /\ failed \subseteq failed'
    BY <1>4 DEF Static, StaticCached, StaticLoads, LscpuOk, LscpuFails, GPU, GPUAnswers,
                GPUKilled, loadVars
  <1>5. CASE Collect \/ MemoryCached \/ MemoryLoads
    BY <1>1, <1>5 DEF Collect, ReadStat, StatFails, ComputeUsage, ComputeMemoryRates,
                      MemoryCached, MemoryLoads, loadVars
  <1>6. CASE Hotplug \/ Cancel \/ \E l \in Loops : Hang(l) \/ Begin(l)
    BY <1>1, <1>6 DEF Hotplug, Cancel, Hang, Begin, loadVars
  <1>7. CASE UNCHANGED vars
    BY <1>1, <1>7 DEF vars, loadVars
  <1> QED
    BY <1>1, <1>2, <1>3, <1>4, <1>5, <1>6, <1>7 DEF Next, Step, CollectHardware

\* The memory modules that CollectHardware reports are the ones dmidecode
\* printed, in that order, without those parseDmidecodeMemoryInfo forgets.
THEOREM ModulesReported == Spec => []SticksReported
  <1>1. Init => Parsed
    BY DEF Init, Parsed
  <1>2. Parsed => SticksReported
    <2> SUFFICES ASSUME Parsed, memHardware # None, "dmidecode" \notin failed
                 PROVE  SticksReported
      BY DEF SticksReported
    <2>1. table \in Seq(Records) /\ memHardware.sticks = parseDmidecodeMemoryInfo(table)
      BY TablesAssumption DEF Parsed, Records
    <2>2. Lists(memHardware.sticks, table, Kept(table))
      BY <2>1, ParseLists
    <2> QED
      BY <2>2 DEF SticksReported, Lists, Kept
  <1> QED
    BY <1>1, <1>2, NextParsed, PTL DEF Spec

-----------------------------------------------------------------------------
(* What is loaded is loaded once *)

\* While dmidecode runs no modules are cached.
ModulesPending == pc["info"] = "dmidecode" => memHardware = None

\* What is cached is never replaced.
KeepsFacts ==
    /\ cpuStatic # 0 => cpuStatic' = cpuStatic
    /\ memHardware # None => memHardware' = memHardware

\* A step of a loop's static facts or GPU tools: the modules stay, the CPU
\* count is only filled in while it is missing, and dmidecode does not start.
LEMMA LoopKeepsFacts ==
    ASSUME IInv, ModulesPending, NEW l \in Loops, Static(l) \/ GPU(l)
    PROVE  KeepsFacts /\ ModulesPending'
  <1>1. memHardware' = memHardware
    BY DEF Static, StaticCached, StaticLoads, LscpuOk, LscpuFails, GPU, GPUAnswers,
           GPUKilled, loadVars
  <1>2. cpuStatic' = cpuStatic \/ pc[l] = "lscpu"
    BY DEF Static, StaticCached, StaticLoads, LscpuOk, LscpuFails, GPU, GPUAnswers,
           GPUKilled, loadVars
  <1>3. \E step \in {"idle", "memory", "lscpu", "static"} : pc' = [pc EXCEPT ![l] = step]
    BY DEF Static, StaticCached, StaticLoads, LscpuOk, LscpuFails, GPU, GPUAnswers,
           GPUKilled, AfterStatic, AfterGPU, ReportsAt, GoTo
  <1>4. pc'["info"] = "dmidecode" => pc["info"] = "dmidecode"
    BY <1>3 DEF IInv, TypeOK, Loops
  <1> QED
    BY <1>1, <1>2, <1>4 DEF IInv, Facts, KeepsFacts, ModulesPending

\* Every step keeps what is cached.
LEMMA NextKeepsFacts ==
    ASSUME IInv, ModulesPending, [Next]_vars
    PROVE  KeepsFacts /\ ModulesPending'
  <1>1. ASSUME NEW l \in Loops, Static(l) \/ GPU(l) PROVE KeepsFacts /\ ModulesPending'
    BY <1>1, LoopKeepsFacts
  <1>2. CASE Collect
    <2>1. UNCHANGED <<cpuStatic, memHardware>>
      BY <1>2 DEF Collect, ReadStat, StatFails, ComputeUsage, ComputeMemoryRates, loadVars
    <2>2. pc'["info"] = pc["info"]
      BY <1>2 DEF Collect, ReadStat, StatFails, ComputeUsage, ComputeMemoryRates, GoTo, IInv,
                  TypeOK, Loops
    <2> QED
      BY <2>1, <2>2 DEF KeepsFacts, ModulesPending
  <1>3. CASE MemoryCached \/ MemoryLoads
    BY <1>3 DEF MemoryCached, MemoryLoads, GoTo, loadVars, KeepsFacts, ModulesPending, IInv, TypeOK,
                Loops
  <1>4. CASE DmidecodeFails \/ \E raw \in Tables : DmidecodeOk(raw)
    <2>1. pc["info"] = "dmidecode" /\ cpuStatic' = cpuStatic
      BY <1>4 DEF DmidecodeFails, DmidecodeOk
    <2>2. pc' = [pc EXCEPT !["info"] = "gpu"]
      BY <1>4 DEF DmidecodeFails, DmidecodeOk, GoTo
    <2>3. pc'["info"] # "dmidecode"
      BY <2>2 DEF IInv, TypeOK, Loops
    <2> QED
      BY <2>1, <2>3 DEF KeepsFacts, ModulesPending
  <1>5. CASE Hotplug \/ Cancel \/ \E l \in Loops : Hang(l)
    BY <1>5 DEF Hotplug, Cancel, Hang, loadVars, KeepsFacts, ModulesPending
  <1>6. ASSUME NEW l \in Loops, Begin(l) PROVE KeepsFacts /\ ModulesPending'
    <2>1. pc'["info"] = pc["info"] \/ pc'["info"] = "static"
      BY <1>6 DEF Begin, GoTo, IInv, TypeOK, Loops
    <2> QED
      BY <1>6, <2>1 DEF Begin, loadVars, KeepsFacts, ModulesPending
  <1>7. CASE UNCHANGED vars
    BY <1>7 DEF vars, loadVars, KeepsFacts, ModulesPending
  <1> QED
    BY <1>1, <1>2, <1>3, <1>4, <1>5, <1>6, <1>7 DEF Next, Step, CollectHardware

\* Whichever of the two loops comes first, and however they overlap: lscpu and
\* dmidecode give their answer, or fail, once in the life of the process, and
\* what the first run has left in the cache is never replaced.
THEOREM LoadedOnce == Spec => [][KeepsFacts]_vars
  <1>1. Init => ModulesPending
    BY DEF Init, ModulesPending, Loops
  <1>2. IInv /\ ModulesPending /\ [Next]_vars => ModulesPending'
    BY NextKeepsFacts
  <1>3. IInv /\ ModulesPending /\ [Next]_vars => [KeepsFacts]_vars
    BY NextKeepsFacts
  <1> QED
    BY <1>1, <1>2, <1>3, Invariance, PTL DEF Spec

-----------------------------------------------------------------------------
(* Cycles are short: the safety part of CyclesEnd *)

\* How many steps a cycle of a loop has left at most.
StepsLeft(l, step) ==
    IF l = "node"
    THEN CASE step = "lscpu" -> 1 [] step = "static" -> 2 [] step = "gpu" -> 3
           [] step = "rates" -> 4 [] step = "usage" -> 5 [] step = "stat" -> 6
           [] OTHER -> 0
    ELSE CASE step = "gpu" -> 1 [] step = "dmidecode" -> 2 [] step = "memory" -> 3
           [] step = "lscpu" -> 4 [] step = "static" -> 5
           [] OTHER -> 0

\* Each loop only takes the steps of its own kind of cycle.
OwnSteps ==
    /\ pc["node"] \notin {"memory", "dmidecode"}
    /\ pc["info"] \notin {"stat", "usage", "rates"}

\* A step of a loop brings its cycle closer to its end.
LEMMA StepGoesOn ==
    ASSUME TypeOK, OwnSteps, NEW l \in Loops, Step(l)
    PROVE  /\ StepsLeft(l, pc'[l]) < StepsLeft(l, pc[l])
           /\ \A k \in Loops \ {l} : pc'[k] = pc[k]
           /\ OwnSteps'
  <1>0. l \in {"node", "info"} /\ DOMAIN pc = {"node", "info"} /\ pc = [k \in Loops |-> pc[k]]
    BY DEF TypeOK, Loops
  <1>1. /\ pc' = [pc EXCEPT ![l] = pc'[l]]
        /\ \/ pc[l] = "static" /\ pc'[l] = "lscpu"
           \/ pc[l] \in {"static", "lscpu"} /\ pc'[l] = IF l = "node" THEN "idle" ELSE "memory"
           \/ pc[l] = "gpu" /\ pc'[l] = IF l = "node" THEN "static" ELSE "idle"
           \/ l = "node" /\ pc[l] = "stat" /\ pc'[l] \in {"usage", "rates"}
           \/ l = "node" /\ pc[l] = "usage" /\ pc'[l] = "rates"
           \/ l = "node" /\ pc[l] = "rates" /\ pc'[l] = "gpu"
           \/ l = "info" /\ pc[l] = "memory" /\ pc'[l] \in {"gpu", "dmidecode"}
           \/ l = "info" /\ pc[l] = "dmidecode" /\ pc'[l] = "gpu"
    <2>1. CASE Static(l)
      BY <1>0, <2>1 DEF Static, StaticCached, StaticLoads, LscpuOk, LscpuFails, AfterStatic,
                        ReportsAt, GoTo
    <2>2. CASE GPU(l)
      BY <1>0, <2>2 DEF GPU, GPUAnswers, GPUKilled, AfterGPU, ReportsAt, GoTo
    <2>3. CASE l = "node" /\ Collect
      BY <1>0, <2>3 DEF Collect, ReadStat, StatFails, ComputeUsage, ComputeMemoryRates, GoTo
    <2>4. CASE l = "info" /\ CollectHardware
      BY <1>0, <2>4 DEF CollectHardware, DmidecodeOk, MemoryCached, MemoryLoads,
                        DmidecodeFails, GoTo
    <2> QED
      BY <2>1, <2>2, <2>3, <2>4 DEF Step
  <1>2. StepsLeft(l, pc'[l]) < StepsLeft(l, pc[l])
    BY <1>0, <1>1 DEF StepsLeft
  <1>3. \A k \in Loops \ {l} : pc'[k] = pc[k]
    BY <1>0, <1>1
  <1>4. OwnSteps'
    BY <1>0, <1>1, <1>3 DEF OwnSteps, Loops
  <1> QED
    BY <1>2, <1>3, <1>4

\* What every step does to the cycles under way.
Shortens ==
    \A l \in Loops :
        /\ Step(l) => StepsLeft(l, pc'[l]) < StepsLeft(l, pc[l])
        /\ pc[l] # "idle" => pc'[l] = pc[l] \/ StepsLeft(l, pc'[l]) < StepsLeft(l, pc[l])

\* The other loop, the host and a cancellation do not lengthen a cycle.
LEMMA NextShortens ==
    ASSUME TypeOK, OwnSteps, [Next]_vars
    PROVE  [Shortens]_vars /\ OwnSteps'
  <1>1. ASSUME NEW l \in Loops, Step(l) PROVE Shortens /\ OwnSteps'
    BY <1>1, StepGoesOn DEF Shortens
  <1>2. ASSUME NEW l \in Loops, Begin(l)
        PROVE  /\ \A k \in Loops : pc[k] # "idle" => pc'[k] = pc[k]
               /\ OwnSteps'
    BY <1>2 DEF Begin, GoTo, TypeOK, OwnSteps, Loops
  <1>3. \A l \in Loops : Step(l) => StepsLeft(l, pc'[l]) < StepsLeft(l, pc[l])
    BY StepGoesOn
  <1>4. ASSUME UNCHANGED pc PROVE Shortens /\ OwnSteps'
    BY <1>3, <1>4 DEF Shortens, OwnSteps
  <1>5. CASE UNCHANGED vars
    BY <1>5 DEF vars, OwnSteps
  <1>6. Hotplug \/ Cancel \/ (\E l \in Loops : Hang(l)) => UNCHANGED pc
    BY DEF Hotplug, Cancel, Hang
  <1>7. ASSUME NEW l \in Loops, Begin(l) PROVE Shortens
    BY <1>2, <1>3, <1>7 DEF Shortens
  <1> QED
    BY <1>1, <1>2, <1>4, <1>5, <1>6, <1>7 DEF Next

\* For every number of CPUs, every output of the tools and every fault: a
\* cycle of either loop is over after at most six of its own steps, each of
\* which brings it closer to its end; it can be held up, but not lengthened.
THEOREM CyclesAreShort == Spec => [][Shortens]_vars
  <1>1. Init => OwnSteps
    BY DEF Init, OwnSteps, Loops
  <1>2. TypeOK /\ OwnSteps /\ [Next]_vars => [Shortens]_vars
    BY NextShortens
  <1>3. TypeOK /\ OwnSteps /\ [Next]_vars => OwnSteps'
    BY NextShortens
  <1> QED
    BY <1>1, <1>2, <1>3, TypeCorrect, PTL DEF Spec
=============================================================================
