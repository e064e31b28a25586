----------------------------- MODULE VMInfoSync -----------------------------
(***************************************************************************)
(* How the scheduler keeps the control plane's copy of the VM inventory    *)
(* up to date (internal/collector/scheduler.go, internal/model/            *)
(* vm_info_sync.go).  Two goroutines share lastVMInfoByID,                 *)
(* latestVMInfoByID and vmInfoSynced under Scheduler.mu:                   *)
(*                                                                         *)
(*   - the sync loop collects the domains from libvirt, diffs them against *)
(*     last, sends a full or delta VMInfoSync and commits what it sent;    *)
(*   - the info loop sends, on its own ticker, a full snapshot of latest.  *)
(*                                                                         *)
(* The lock is released while a message is sent, and a send may fail with  *)
(* the message lost, applied, or applied much later.                       *)
(*                                                                         *)
(* The sync loop is collectAndSendVMRuntime; collectAndSendVM takes the    *)
(* same steps when the scheduler has no runtime collector.  A map          *)
(* map[string]VMInfo is a total function with None where a key is absent.  *)
(*                                                                         *)
(* The scheduler gets its inventory through an interface.  NeedResults is  *)
(* the argument with which the collector behind it asks libvirt for the    *)
(* domains: VMMetricsReader passes 0, for which libvirt only counts them;  *)
(* with 1, as in the controller's call, it returns them.                   *)
(***************************************************************************)
EXTENDS Naturals

CONSTANTS
    VMIDs,          \* identifiers of domains
    Infos,          \* values of VMInfo (name, state, vcpu, ram, ...)
    None,           \* no entry for a key
    NeedResults,    \* ConnectListAllDomains: 0 to count the domains, 1 to get them
    MaxChanges,     \* bound: changes of the libvirt domain table
    MaxFaults,      \* bound: failed calls and copies left in flight
    MaxRestarts     \* bound: restarts of the agent process

ASSUME NoneAssumption == None \notin Infos
ASSUME NeedResultsAssumption == NeedResults \in {0, 1}
ASSUME BoundsAssumption ==
    MaxChanges \in Nat /\ MaxFaults \in Nat /\ MaxRestarts \in Nat

VARIABLES
    vms,        \* libvirt's domain table (external)
    latest,     \* Scheduler.latestVMInfoByID
    last,       \* Scheduler.lastVMInfoByID
    synced,     \* Scheduler.vmInfoSynced
    pc,         \* sync loop: where it is in its cycle
    listed,     \* sync loop: result of ConnectListAllDomains
    cur,        \* sync loop: currentMap
    out,        \* sync loop: the VMInfoSync it is about to send
    ipc,        \* info loop: where it is in its cycle
    full,       \* info loop: the snapshot it is about to send
    replica,    \* the control plane's VM table of this node (external)
    inflight,   \* messages of failed attempts the backend may still apply
    changes, faults, restarts,      \* consumed bounds
    fullSeen,   \* history: the backend acknowledged a full sync of this process
    causes      \* history: what happened that can make the replica diverge

schedVars == <<latest, last, synced>>
syncVars  == <<pc, listed, cur, out>>
infoVars  == <<ipc, full>>
netVars   == <<replica, inflight, fullSeen, causes>>
bounds    == <<changes, faults, restarts>>
vars == <<vms, latest, last, synced, pc, listed, cur, out, ipc, full, replica,
          inflight, changes, faults, restarts, fullSeen, causes>>

-----------------------------------------------------------------------------
(* Maps and messages *)

VMInfoMap == [VMIDs -> Infos \cup {None}]
Empty == [v \in VMIDs |-> None]
Keys(m) == {v \in VMIDs : m[v] # None}

\* VMInfoSync.  named: NodeID is not the empty string.  No message both
\* upserts and removes a domain.
Messages == {m \in [mode : {"full", "delta"}, named : BOOLEAN,
                    upserts : VMInfoMap, removed : SUBSET VMIDs] :
                m.removed \cap Keys(m.upserts) = {}}
NoMsg == [mode |-> "full", named |-> FALSE, upserts |-> Empty, removed |-> {}]

FullSync(m, named) ==
    [mode |-> "full", named |-> named, upserts |-> m, removed |-> {}]

\* Mutants of VMInfoDiff: every known key is reported as removed; none is.
VMInfoDiffRemovesAll(prev, current) ==
    [mode |-> "delta", named |-> TRUE,
     upserts |-> [v \in VMIDs |-> IF current[v] # prev[v] THEN current[v] ELSE None],
     removed |-> Keys(prev)]
VMInfoDiffKeepsRemoved(prev, current) ==
    [mode |-> "delta", named |-> TRUE,
     upserts |-> [v \in VMIDs |-> IF current[v] # prev[v] THEN current[v] ELSE None],
     removed |-> {}]

\* The delta branch of computeVMInfoDiff: entries of current that are new or
\* different, keys of prev that are gone.
VMInfoDiff(prev, current) ==
    [mode |-> "delta", named |-> TRUE,
     upserts |-> [v \in VMIDs |-> IF current[v] # prev[v] THEN current[v] ELSE None],
     removed |-> Keys(prev) \ Keys(current)]

ShouldSync(d) == d.upserts # Empty \/ d.removed # {}

\* resolveVMNodeID: the node's name is taken from any entry of the current
\* map, then of latest, then of last; with all three empty it stays "".  It
\* takes the lock in a critical section of its own before computeVMInfoDiff;
\* the info loop can only copy a non-empty latest to last in between, which
\* does not change the outcome.
NodeIDResolved(current) == current # Empty \/ latest # Empty \/ last # Empty

\* What the control plane does with a message: a full sync replaces the
\* node's table, a delta edits it; a message naming no node edits no table.
Apply(m, table) ==
    IF ~m.named THEN table
    ELSE IF m.mode = "full" THEN m.upserts
    ELSE [v \in VMIDs |-> IF m.upserts[v] # None THEN m.upserts[v]
                          ELSE IF v \in m.removed THEN None ELSE table[v]]

-----------------------------------------------------------------------------
Init ==
    /\ vms \in VMInfoMap
    /\ latest = Empty /\ last = Empty /\ synced = FALSE
    /\ pc = "idle" /\ listed = {} /\ cur = Empty /\ out = NoMsg
    /\ ipc = "hardware" /\ full = Empty
    /\ replica = Empty /\ inflight = {}
    /\ changes = 0 /\ faults = 0 /\ restarts = 0
    /\ fullSeen = FALSE /\ causes = {}

-----------------------------------------------------------------------------
(* Environment: domains appear, change and disappear; the backend handles  *)
(* requests of failed attempts late, or never; the process is restarted.   *)

DomainChange(v, i) ==
    /\ changes < MaxChanges
    /\ vms[v] # i
    /\ vms' = [vms EXCEPT ![v] = i]
    /\ changes' = changes + 1
    /\ UNCHANGED <<schedVars, syncVars, infoVars, netVars, faults, restarts>>

LateApply(m) ==
    /\ m \in inflight
    /\ inflight' = inflight \ {m}
    /\ replica' = Apply(m, replica)
    /\ UNCHANGED <<vms, schedVars, syncVars, infoVars, fullSeen, causes, bounds>>

\* Requests a dying process has written but whose outcome it never learns.
Unanswered == (IF pc = "send" THEN {out} ELSE {})
              \cup (IF ipc = "send" THEN {FullSync(full, TRUE)} ELSE {})

\* systemd restarts the agent: NewScheduler starts from empty maps.
Restart ==
    /\ restarts < MaxRestarts
    /\ \E lost \in SUBSET Unanswered :
          /\ inflight' = inflight \cup lost
          /\ causes' = causes \cup (IF lost # {} THEN {"fault"} ELSE {})
    /\ restarts' = restarts + 1
    /\ latest' = Empty /\ last' = Empty /\ synced' = FALSE
    /\ pc' = "idle" /\ listed' = {} /\ cur' = Empty /\ out' = NoMsg
    /\ ipc' = "hardware" /\ full' = Empty
    /\ fullSeen' = FALSE
    /\ UNCHANGED <<vms, replica, changes, faults>>

-----------------------------------------------------------------------------
(* Sync loop *)

\* VMMetricsReader.CollectRuntime, first call: the domains that exist now, if
\* libvirt is asked for more than their number.
ListDomains ==
    /\ pc = "idle"
    /\ listed' = IF NeedResults = 0 THEN {} ELSE Keys(vms)
    /\ pc' = "stats"
    /\ UNCHANGED <<vms, schedVars, cur, out, infoVars, netVars, bounds>>

\* Second call, left out when nothing is listed: statistics of the listed
\* domains, without those that are gone meanwhile.  With nothing to report the
\* metrics frame is skipped.
ReadStats ==
    /\ pc = "stats"
    /\ LET m == [v \in VMIDs |-> IF v \in listed THEN vms[v] ELSE None]
       IN  /\ cur' = m
           /\ pc' = IF m = Empty THEN "diff" ELSE "metrics"
    /\ listed' = {}
    /\ UNCHANGED <<vms, schedVars, out, infoVars, netVars, bounds>>

SendVMRuntimeMetrics ==
    /\ pc = "metrics"
    /\ pc' = "diff"
    /\ UNCHANGED <<vms, schedVars, listed, cur, out, infoVars, netVars, bounds>>

\* A libvirt call or the metrics frame fails: the cycle returns the error
\* before any VM info is touched, and the loop waits for its next turn.
CycleFails ==
    /\ pc \in {"idle", "stats", "metrics"}
    /\ faults < MaxFaults
    /\ faults' = faults + 1
    /\ pc' = "idle" /\ listed' = {} /\ cur' = Empty
    /\ UNCHANGED <<vms, schedVars, out, infoVars, netVars, changes, restarts>>

\* syncVMInfoFromMap up to the send.  latest is overwritten whether or not
\* there is anything to send.
ComputeVMInfoDiff ==
    /\ pc = "diff"
    /\ latest' = cur
    /\ LET d == VMInfoDiff(last, cur)
       IN  \/ /\ ~synced
              /\ out' = FullSync(cur, NodeIDResolved(cur))
              /\ pc' = "send" /\ cur' = cur
           \/ /\ synced /\ ShouldSync(d)
              /\ out' = d
              /\ pc' = "send" /\ cur' = cur
           \/ /\ synced /\ ~ShouldSync(d)
              /\ pc' = "idle" /\ cur' = Empty /\ out' = out
    /\ UNCHANGED <<vms, last, synced, listed, infoVars, netVars, bounds>>

\* The backend answers a message that was just delivered to it.  A copy from
\* an earlier attempt of the same call may stay behind.
Delivered(m) ==
    /\ replica' = Apply(m, replica)
    /\ fullSeen' = (fullSeen \/ m.mode = "full")
    /\ \/ UNCHANGED <<inflight, faults>>
       \/ /\ faults < MaxFaults
          /\ faults' = faults + 1
          /\ inflight' = inflight \cup {m}

\* All attempts of the call failed; what they sent may still be applied.
NotAcknowledged(m) ==
    /\ faults < MaxFaults
    /\ faults' = faults + 1
    /\ inflight' = inflight \cup {m}
    /\ causes' = causes \cup {"fault"}
    /\ UNCHANGED <<replica, fullSeen>>

SendDelivered ==
    /\ pc = "send"
    /\ Delivered(out)
    /\ causes' = causes \cup (IF inflight' # inflight THEN {"fault"} ELSE {})
                        \cup (IF ~out.named /\ replica # Empty THEN {"unnamed"} ELSE {})
    /\ pc' = "commit" /\ out' = NoMsg
    /\ UNCHANGED <<vms, schedVars, listed, cur, infoVars, changes, restarts>>

\* Mutant of SendFails: the error of the send is ignored.
SendFailsIgnored ==
    /\ pc = "send"
    /\ NotAcknowledged(out)
    /\ pc' = "commit" /\ out' = NoMsg
    /\ UNCHANGED <<vms, schedVars, listed, cur, infoVars, changes, restarts>>

SendFails ==
    /\ pc = "send"
    /\ NotAcknowledged(out)
    /\ pc' = "idle" /\ cur' = Empty /\ out' = NoMsg
    /\ UNCHANGED <<vms, schedVars, listed, infoVars, changes, restarts>>

Commit ==
    /\ pc = "commit"
    /\ synced' = TRUE
    /\ last' = cur
    /\ latest' = cur
    /\ pc' = "idle" /\ cur' = Empty
    /\ UNCHANGED <<vms, listed, out, infoVars, netVars, bounds>>

-----------------------------------------------------------------------------
(* Info loop *)

\* syncNodeHardwarePeriodic: at start and on every tick, before the VM info;
\* its errors are logged and its data is separate.
SyncNodeHardware ==
    /\ ipc = "hardware"
    /\ ipc' = "snapshot"
    /\ UNCHANGED <<vms, schedVars, syncVars, full, netVars, bounds>>

\* Mutant of PeriodicSnapshot: no snapshot once the inventory is synced.
PeriodicSnapshotOnlyFirst ==
    /\ ipc = "snapshot"
    /\ IF latest = Empty \/ synced THEN ipc' = "hardware" /\ full' = full
                                   ELSE ipc' = "send" /\ full' = latest
    /\ UNCHANGED <<vms, schedVars, syncVars, netVars, bounds>>

\* syncVMInfoPeriodic up to the send: nothing is sent while latest is empty.
PeriodicSnapshot ==
    /\ ipc = "snapshot"
    /\ IF latest = Empty THEN ipc' = "hardware" /\ full' = full
                         ELSE ipc' = "send" /\ full' = latest
    /\ UNCHANGED <<vms, schedVars, syncVars, netVars, bounds>>

PeriodicDelivered ==
    /\ ipc = "send"
    /\ Delivered(FullSync(full, TRUE))
    /\ causes' = causes \cup (IF inflight' # inflight THEN {"fault"} ELSE {})
                        \cup (IF full # latest /\ full # replica THEN {"stale"} ELSE {})
    /\ ipc' = "commit" /\ full' = Empty
    /\ UNCHANGED <<vms, schedVars, syncVars, changes, restarts>>

PeriodicFails ==
    /\ ipc = "send"
    /\ NotAcknowledged(FullSync(full, TRUE))
    /\ ipc' = "hardware" /\ full' = Empty
    /\ UNCHANGED <<vms, schedVars, syncVars, changes, restarts>>

\* last becomes what latest is now, not the snapshot that was sent.
PeriodicCommit ==
    /\ ipc = "commit"
    /\ synced' = TRUE
    /\ last' = IF latest # Empty THEN latest ELSE last
    /\ ipc' = "hardware"
    /\ UNCHANGED <<vms, latest, syncVars, full, netVars, bounds>>

-----------------------------------------------------------------------------
SyncLoop ==
    \/ ListDomains \/ ReadStats \/ SendVMRuntimeMetrics \/ CycleFails
    \/ ComputeVMInfoDiff \/ SendDelivered \/ SendFails \/ Commit

InfoLoop ==
    \/ SyncNodeHardware \/ PeriodicSnapshot
    \/ PeriodicDelivered \/ PeriodicFails \/ PeriodicCommit

Environment ==
    \/ \E v \in VMIDs, i \in Infos \cup {None} : DomainChange(v, i)
    \/ \E m \in inflight : LateApply(m)
    \/ Restart

Next == SyncLoop \/ InfoLoop \/ Environment

Spec == Init /\ [][Next]_vars

\* Both loops are driven by a ticker for as long as the process lives.
FairSpec == Spec /\ WF_vars(SyncLoop) /\ WF_vars(InfoLoop)

-----------------------------------------------------------------------------
(* Properties *)

\* Every map, message and program counter has its type.  In particular a
\* VMInfoSync built by computeVMInfoDiff never upserts and removes the same
\* domain, and a periodic snapshot is never empty.
TypeOK ==
    /\ vms \in VMInfoMap /\ latest \in VMInfoMap /\ last \in VMInfoMap
    /\ cur \in VMInfoMap /\ full \in VMInfoMap /\ replica \in VMInfoMap
    /\ synced \in BOOLEAN /\ fullSeen \in BOOLEAN
    /\ pc \in {"idle", "stats", "metrics", "diff", "send", "commit"}
    /\ ipc \in {"hardware", "snapshot", "send", "commit"}
    /\ listed \in SUBSET VMIDs
    /\ out \in Messages /\ inflight \in SUBSET Messages
    /\ ipc = "send" => full # Empty
    /\ changes \in 0..MaxChanges /\ faults \in 0..MaxFaults
    /\ restarts \in 0..MaxRestarts
    /\ causes \in SUBSET {"fault", "stale", "unnamed"}

\* computeVMInfoDiff answers with a delta only in a process whose full sync
\* the backend has acknowledged: whichever of the two loops sent that full,
\* however sends failed and however often the process was restarted.
DeltaNeedsFull ==
    pc = "send" /\ out.mode = "delta" => fullSeen

\* Between two sends the control plane's table and lastVMInfoByID are both the
\* last collected inventory, unless one of three things ever happened: a send
\* failed or left a copy behind, a periodic snapshot was overtaken by a newer
\* sync, or a sync without a node name met a table that was not empty.
ReplicaFollowsLatest ==
    causes = {} /\ synced /\ pc \notin {"send", "commit"} =>
        replica = latest /\ last = latest

\* The scheduler with a collector that is given the domains.  Whatever was
\* lost, duplicated, overtaken or restarted: when the domains of a host that has
\* some stop changing, the periodic full sync makes the control plane's table
\* equal to them for good.
Converges == <>[](NeedResults = 1 /\ vms # Empty => replica = vms)

\* The control plane's table is the domain table of libvirt, and nothing on its
\* way would change that: what the sync loop has collected and what either loop
\* is sending lead to that table, and so does whatever failed attempts and
\* earlier processes left in flight.  last may be anything, and after a restart
\* latest is still empty.
Agreed ==
    /\ replica = vms
    /\ latest \in {Empty, vms}
    /\ pc = "stats" => listed = Keys(vms)
    /\ pc \in {"metrics", "diff", "send", "commit"} => cur = vms
    /\ pc = "send" => Apply(out, vms) = vms
    /\ ipc = "send" => full = vms
    /\ \A m \in inflight : Apply(m, vms) = vms

\* Agreement lasts until a domain changes: no failed send, late or repeated
\* message, stale lastVMInfoByID, commit of the other loop or restart takes the
\* control plane's table away from libvirt's again, not even for a moment.
AgreementLasts == [][Agreed /\ vms' = vms => Agreed']_vars

\* The comments above runInfoPeriodicLoop and syncVMInfoPeriodic: "sends a full
\* VM info snapshot on periodic timer".  Stated for a host that has something to
\* report: as long as it has domains, the info loop comes to send a snapshot.
PeriodicSendsFull == (vms # Empty) ~> (ipc = "send" \/ vms = Empty)

\* Every VMInfoSync of the sync loop names the node it is about: the table of
\* environment variables calls AURORA_NODE_ID, which is never empty, the "Node
\* identity" sent to the control plane.
SyncNamesNode == pc = "send" => out.named
=============================================================================
