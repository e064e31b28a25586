---------------------------- MODULE CounterRates ----------------------------
(***************************************************************************)
(* How counters become rates.  ObserveCounter of the node reader's delta   *)
(* engine (internal/libvirt/metric/node/delta_engine.go) and computeCPU,   *)
(* computeLiteNetRates and computeRuntimeRates of the VM reader            *)
(* (internal/libvirt/metric/vm/vm_metrics.go) are the same step: under a   *)
(* lock, replace the previous sample of a key by the new one and report    *)
(* the difference, unless there is no previous sample, no time has passed, *)
(* or the counter went back.                                               *)
(*                                                                         *)
(* Keys do not influence each other, so the module follows one key.  The   *)
(* lock covers only the step itself: a collector takes its time stamp and  *)
(* its reading before it, and where two loops share a key they may arrive  *)
(* in either order.  Disk and network counters have one loop, the energy   *)
(* counter of a GPU and the CPU time of a VM two.  Time stamps are taken   *)
(* as time.Now().UTC(), which drops the monotonic clock: what is compared  *)
(* is the wall clock, which may be set back.                               *)
(***************************************************************************)
EXTENDS Integers

CONSTANTS
    NodeLoops,      \* loops of the node reader: stamp, then read
    VMLoops,        \* loops of the VM reader: read, then stamp
    KeyUsers,       \* which loops may share a key
    None,           \* no sample
    Width,          \* counters are unsigned numbers below this
    MaxTime,        \* bound: the latest time
    MaxGrowth,      \* bound: what the counter grows in all
    MaxResets,      \* bound: resets of the counter
    MaxFaults       \* bound: failed readings

Loops == NodeLoops \cup VMLoops

ASSUME LoopsAssumption == NodeLoops \cap VMLoops = {} /\ KeyUsers \subseteq SUBSET Loops
ASSUME BoundsAssumption ==
    /\ MaxTime \in Nat /\ MaxGrowth \in Nat /\ MaxResets \in Nat /\ MaxFaults \in Nat
    /\ Width \in Nat /\ MaxGrowth < Width

VARIABLES
    users,      \* the loops that observe the key
    clock,      \* the wall clock
    counter,    \* the kernel's or libvirt's counter (external)
    grown,      \* history: what the counter has grown in all
    moment,     \* history: number of changes of the counter
    prev,       \* the stored sample of the key
    pc, now, cur,       \* each loop: next step, time stamp, sample it read
    report,     \* the last report: delta, seconds, and the two samples behind it
    credited,   \* history: sum of all reported deltas
    first,      \* history: what had grown when the first sample was stored
    resets, faults      \* consumed bounds

vars == <<users, clock, counter, grown, moment, prev, pc, now, cur, report, credited,
          first, resets, faults>>
envVars == <<users, clock, counter, grown, moment, resets>>
loopVars == <<pc, now, cur>>
outVars == <<prev, report, credited, first>>

\* A reading.  The last three fields are history: what had grown, when in the
\* life of the counter it was taken, and whether it failed.
Samples == [value : 0..(Width - 1), at : 0..MaxTime, grown : 0..MaxGrowth,
            moment : 0..(MaxGrowth + MaxResets), failed : BOOLEAN]
ASSUME NoneAssumption == None \notin Samples
NoSample == [value |-> 0, at |-> 0, grown |-> 0, moment |-> 0, failed |-> FALSE]
NoReport == [delta |-> 0, seconds |-> 0, from |-> NoSample, to |-> NoSample]

Init ==
    /\ users \in KeyUsers
    /\ clock = 0 /\ counter = 0 /\ grown = 0 /\ moment = 0
    /\ prev = None
    /\ pc = [l \in Loops |-> "idle"] /\ now = [l \in Loops |-> 0]
    /\ cur = [l \in Loops |-> NoSample]
    /\ report = NoReport /\ credited = 0 /\ first = 0
    /\ resets = 0 /\ faults = 0

-----------------------------------------------------------------------------
(* Time and the counter *)

\* Time passes.
Tick ==
    /\ clock < MaxTime
    /\ clock' = clock + 1
    /\ UNCHANGED <<users, counter, grown, moment, resets, loopVars, outVars, faults>>

\* The wall clock is set back.
SetBack ==
    /\ \E t \in 0..(clock - 1) : clock' = t
    /\ UNCHANGED <<users, counter, grown, moment, resets, loopVars, outVars, faults>>

Grow ==
    /\ grown < MaxGrowth
    /\ grown' = grown + 1
    /\ counter' = counter + 1
    /\ moment' = moment + 1
    /\ UNCHANGED <<users, clock, resets, loopVars, outVars, faults>>

\* A VM is restarted, a device is plugged in again.
Reset ==
    /\ resets < MaxResets
    /\ resets' = resets + 1
    /\ counter' = 0
    /\ moment' = moment + 1
    /\ UNCHANGED <<users, clock, grown, loopVars, outVars, faults>>

-----------------------------------------------------------------------------
(* A loop *)

\* The cycle is over and its local variables are gone.
Done(l) ==
    /\ pc' = [pc EXCEPT ![l] = "idle"]
    /\ now' = [now EXCEPT ![l] = 0]
    /\ cur' = [cur EXCEPT ![l] = NoSample]

\* NodeMetricsReader.Collect, one time stamp for all counters of the cycle.
NodeStamp(l) ==
    /\ pc[l] = "idle"
    /\ pc' = [pc EXCEPT ![l] = "read"]
    /\ now' = [now EXCEPT ![l] = clock]
    /\ UNCHANGED <<envVars, cur, outVars, faults>>

Reading(value, failed) ==
    [value |-> value, at |-> 0, grown |-> grown, moment |-> moment, failed |-> failed]

\* readDiskStatSnapshots and its like.
NodeRead(l) ==
    /\ pc[l] = "read"
    /\ pc' = [pc EXCEPT ![l] = "observe"]
    /\ cur' = [cur EXCEPT ![l] = Reading(counter, FALSE)]
    /\ UNCHANGED <<envVars, now, outVars, faults>>

\* readUintFile answers 0 when the file cannot be read, and the loop goes on
\* with it as with a reading.
NodeReadFails(l) ==
    /\ pc[l] = "read"
    /\ faults < MaxFaults
    /\ faults' = faults + 1
    /\ cur' = [cur EXCEPT ![l] = Reading(0, TRUE)]
    /\ pc' = [pc EXCEPT ![l] = "observe"]
    /\ UNCHANGED <<envVars, now, outVars>>

\* The whole snapshot cannot be read, or the key is not in it.
NodeSkip(l) ==
    /\ pc[l] = "read"
    /\ Done(l)
    /\ UNCHANGED <<envVars, outVars, faults>>

\* ConnectGetAllDomainStats.
VMRead(l) ==
    /\ pc[l] = "idle"
    /\ pc' = [pc EXCEPT ![l] = "stamp"]
    /\ cur' = [cur EXCEPT ![l] = Reading(counter, FALSE)]
    /\ UNCHANGED <<envVars, now, outVars, faults>>

\* A field that is not among a record's parameters counts as 0.
VMReadFails(l) ==
    /\ pc[l] = "idle"
    /\ faults < MaxFaults
    /\ faults' = faults + 1
    /\ cur' = [cur EXCEPT ![l] = Reading(0, TRUE)]
    /\ pc' = [pc EXCEPT ![l] = "stamp"]
    /\ UNCHANGED <<envVars, now, outVars>>

\* The VM reader takes its time stamp when the statistics have arrived.
VMStamp(l) ==
    /\ pc[l] = "stamp"
    /\ pc' = [pc EXCEPT ![l] = "observe"]
    /\ now' = [now EXCEPT ![l] = clock]
    /\ UNCHANGED <<envVars, cur, outVars, faults>>

\* The VM is not among the records of the answer.
VMSkip(l) ==
    /\ pc[l] = "stamp"
    /\ Done(l)
    /\ UNCHANGED <<envVars, outVars, faults>>

\* Mutants of Delta: the difference is taken modulo the width; every reading
\* is taken to start from zero; a smaller reading is not recognised.
DeltaWraps(p, s) ==
    IF s.at - p.at <= 0 THEN 0 ELSE (s.value - p.value) % Width
DeltaAbsolute(p, s) ==
    IF s.at - p.at <= 0 THEN 0 ELSE s.value
DeltaSigned(p, s) ==
    IF s.at - p.at <= 0 THEN 0 ELSE s.value - p.value

\* The difference that is reported, 0 also where the code reports nothing.
Delta(p, s) ==
    IF s.at - p.at <= 0 \/ s.value < p.value THEN 0 ELSE s.value - p.value

\* The critical section.
ObserveCounter(s) ==
    /\ prev' = s
    /\ IF prev = None
       THEN /\ first' = s.grown
            /\ UNCHANGED <<report, credited>>
       ELSE /\ report' = [delta |-> Delta(prev, s), seconds |-> s.at - prev.at,
                          from |-> prev, to |-> s]
            /\ credited' = credited + Delta(prev, s)
            /\ UNCHANGED first

Observe(l) ==
    /\ pc[l] = "observe"
    /\ ObserveCounter([cur[l] EXCEPT !.at = now[l]])
    /\ Done(l)
    /\ UNCHANGED <<envVars, faults>>

\* collectNodeDiskMetrics, collectNodeNetworkMetrics, queryNvidiaEnergyCounter.
NodeLoop(l) ==
    NodeStamp(l) \/ NodeRead(l) \/ NodeReadFails(l) \/ NodeSkip(l) \/ Observe(l)

\* Collect and CollectRuntime with computeCPU and the rates.
VMLoop(l) ==
    VMRead(l) \/ VMReadFails(l) \/ VMStamp(l) \/ VMSkip(l) \/ Observe(l)

-----------------------------------------------------------------------------
Next ==
    \/ Tick \/ SetBack \/ Grow \/ Reset
    \/ \E l \in users \cap NodeLoops : NodeLoop(l)
    \/ \E l \in users \cap VMLoops : VMLoop(l)

Spec == Init /\ [][Next]_vars

-----------------------------------------------------------------------------
(* Properties *)

\* Samples, stamps and reports have their types.
TypeOK ==
    /\ users \in KeyUsers /\ \A l \in Loops \ users : pc[l] = "idle"
    /\ clock \in 0..MaxTime /\ counter \in 0..(Width - 1) /\ counter <= grown
    /\ grown \in 0..MaxGrowth /\ moment = grown + resets
    /\ prev \in Samples \cup {None}
    /\ pc \in [Loops -> {"idle", "read", "stamp", "observe"}]
    /\ now \in [Loops -> 0..MaxTime] /\ cur \in [Loops -> Samples]
    /\ report \in [delta : 0..(Width - 1), seconds : -MaxTime..MaxTime,
                   from : Samples, to : Samples]
    /\ credited \in Nat /\ first \in 0..MaxGrowth
    /\ resets \in 0..MaxResets /\ faults \in 0..MaxFaults

\* However loops interleave and counters restart, a report does not claim more
\* than the counter grew between the two readings behind it, and never with an
\* interval that is not positive.  Two things break this and are excepted: the
\* earlier reading failed and was stored as 0, or the readings of two loops
\* were stored in the opposite order with a restart in between.
NoInventedGrowth ==
    report.delta > 0 =>
        /\ report.seconds > 0
        /\ \/ report.delta <= report.to.grown - report.from.grown
           \/ report.from.failed
           \/ report.to.moment < report.from.moment /\ resets > 0

\* A key of one loop, as disks and network interfaces have.
SingleLoop == \A l, m \in users : l = m

\* With one loop and no failed reading, all reports together never exceed what
\* the counter really grew since the first sample: nothing is counted twice,
\* also over restarts.
NeverOverReports ==
    SingleLoop /\ faults = 0 /\ prev # None => credited <= prev.grown - first
=============================================================================
