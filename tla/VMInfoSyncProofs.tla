-------------------------- MODULE VMInfoSyncProofs --------------------------
(***************************************************************************)
(* Safety of the VM inventory sync for every set of domains, every set of  *)
(* VMInfo values and every bound on changes, faults and restarts.          *)
(***************************************************************************)
EXTENDS VMInfoSync, TLAPS

-----------------------------------------------------------------------------
(* The inductive invariant *)

\* A full sync was acknowledged before anything depends on it.
FullFirst ==
    /\ synced => fullSeen
    /\ pc = "commit" => fullSeen
    /\ pc = "send" /\ out.mode = "delta" => fullSeen
    /\ ipc = "commit" => fullSeen

\* With no cause of divergence: nothing is left in flight; the message being
\* sent turns the replica into cur, and leaves cur alone if the info loop put
\* it there first; and while nothing is synced the scheduler knows of nothing.
Sending ==
    pc = "send" => /\ latest = cur
                   /\ out.named => /\ Apply(out, replica) = cur
                                   /\ Apply(out, cur) = cur
                   /\ ~out.named => cur = Empty
Committing ==
    pc = "commit" => latest = cur /\ replica = cur
Resting ==
    pc \notin {"send", "commit"} =>
        /\ last = latest
        /\ synced => replica = latest
        /\ ~synced => latest = Empty /\ ipc \notin {"send", "commit"}

Follows == causes = {} =>
    /\ inflight = {}
    /\ Sending
    /\ Committing
    /\ Resting

-----------------------------------------------------------------------------
(* The operators on maps and messages *)

\* The empty map is a map, and a map without keys is the empty one.
LEMMA EmptyMap == Empty \in VMInfoMap /\ NoMsg \in Messages
BY DEF Empty, VMInfoMap, NoMsg, Messages, Keys

\* A full sync of a map is a message.
LEMMA FullSyncType ==
    ASSUME NEW m \in VMInfoMap, NEW b \in BOOLEAN
    PROVE  FullSync(m, b) \in Messages
BY DEF FullSync, Messages, Keys

\* A delta never upserts a domain it also removes.
LEMMA DiffType ==
    ASSUME NEW a \in VMInfoMap, NEW b \in VMInfoMap
    PROVE  VMInfoDiff(a, b) \in Messages
BY NoneAssumption DEF VMInfoDiff, Messages, Keys, VMInfoMap

\* Handling a message turns a table into a table.
LEMMA ApplyType ==
    ASSUME NEW m \in Messages, NEW t \in VMInfoMap
    PROVE  Apply(m, t) \in VMInfoMap
BY DEF Apply, Messages, VMInfoMap

\* The delta from a to b, applied to a, gives b; applied to b it changes
\* nothing, so a delta that arrives after a full of the same inventory, or
\* that is handled twice, does no harm.
LEMMA DiffApply ==
    ASSUME NEW a \in VMInfoMap, NEW b \in VMInfoMap
    PROVE  /\ Apply(VMInfoDiff(a, b), a) = b
           /\ Apply(VMInfoDiff(a, b), b) = b
BY DEF VMInfoDiff, Apply, Keys, VMInfoMap

\* When computeVMInfoDiff finds nothing to send, nothing has changed.
LEMMA NothingToSync ==
    ASSUME NEW a \in VMInfoMap, NEW b \in VMInfoMap,
           ~ShouldSync(VMInfoDiff(a, b))
    PROVE  a = b
<1>1. \A v \in VMIDs : (IF b[v] # a[v] THEN b[v] ELSE None) = None
  <2>1. [v \in VMIDs |-> IF b[v] # a[v] THEN b[v] ELSE None] = [v \in VMIDs |-> None]
    BY DEF ShouldSync, VMInfoDiff, Empty
  <2>2. QED BY <2>1
<1>2. Keys(a) \ Keys(b) = {}
  BY DEF ShouldSync, VMInfoDiff
<1>3. \A v \in VMIDs : a[v] = b[v]
  BY <1>1, <1>2 DEF Keys
<1>4. QED BY <1>3 DEF VMInfoMap
-----------------------------------------------------------------------------
(* Type correctness *)

\* The initial states have the right types.
LEMMA InitType == Init => TypeOK
<1> SUFFICES ASSUME Init PROVE TypeOK
  OBVIOUS
<1>1. changes \in 0..MaxChanges /\ faults \in 0..MaxFaults /\ restarts \in 0..MaxRestarts
  BY BoundsAssumption DEF Init
<1>2. QED BY <1>1, EmptyMap DEF Init, TypeOK

\* An answered send keeps the types of what it changes.
LEMMA DeliveredType ==
    ASSUME TypeOK, NEW m \in Messages, Delivered(m)
    PROVE  /\ replica' = Apply(m, replica) /\ replica' \in VMInfoMap
           /\ inflight' \in SUBSET Messages
           /\ faults' \in 0..MaxFaults /\ fullSeen' \in BOOLEAN
BY ApplyType, BoundsAssumption DEF TypeOK, Delivered

\* A send that fails keeps the types of what it changes.
LEMMA NotAcknowledgedType ==
    ASSUME TypeOK, NEW m \in Messages, NotAcknowledged(m)
    PROVE  /\ inflight' \in SUBSET Messages
           /\ causes' \in SUBSET {"fault", "stale", "unnamed"}
           /\ faults' \in 0..MaxFaults
           /\ UNCHANGED <<replica, fullSeen>>
BY BoundsAssumption DEF TypeOK, NotAcknowledged

\* Every step of either loop, of the backend, of libvirt and every restart
\* keeps the types.
LEMMA NextType == TypeOK /\ [Next]_vars => TypeOK'
<1> SUFFICES ASSUME TypeOK, [Next]_vars PROVE TypeOK'
  OBVIOUS
<1> USE EmptyMap, BoundsAssumption DEF TypeOK, schedVars, syncVars, infoVars, netVars, bounds
<1>1. CASE ListDomains
  BY <1>1 DEF ListDomains, Keys
<1>2. CASE ReadStats
  <2>1. [v \in VMIDs |-> IF v \in listed THEN vms[v] ELSE None] \in VMInfoMap
    BY DEF VMInfoMap
  <2>2. QED BY <1>2, <2>1 DEF ReadStats
<1>3. CASE SendVMRuntimeMetrics
  BY <1>3 DEF SendVMRuntimeMetrics
<1>4. CASE CycleFails
  BY <1>4 DEF CycleFails
<1>5. CASE ComputeVMInfoDiff
  <2>1. VMInfoDiff(last, cur) \in Messages
    BY DiffType
  <2>2. NodeIDResolved(cur) \in BOOLEAN
    BY DEF NodeIDResolved
  <2>3. FullSync(cur, NodeIDResolved(cur)) \in Messages
    BY <2>2, FullSyncType
  <2>4. QED BY <1>5, <2>1, <2>3 DEF ComputeVMInfoDiff
<1>6. CASE SendDelivered
  <2>1. Delivered(out)
    BY <1>6 DEF SendDelivered
  <2>2. QED BY <1>6, <2>1, DeliveredType DEF SendDelivered
<1>7. CASE SendFails
  <2>1. NotAcknowledged(out)
    BY <1>7 DEF SendFails
  <2>2. QED BY <1>7, <2>1, NotAcknowledgedType DEF SendFails
<1>8. CASE Commit
  BY <1>8 DEF Commit
<1>9. CASE SyncNodeHardware
  BY <1>9 DEF SyncNodeHardware
<1>10. CASE PeriodicSnapshot
  BY <1>10 DEF PeriodicSnapshot
<1>11. CASE PeriodicDelivered
  <2>1. FullSync(full, TRUE) \in Messages
    BY FullSyncType
  <2>2. Delivered(FullSync(full, TRUE))
    BY <1>11 DEF PeriodicDelivered
  <2>3. /\ replica' \in VMInfoMap /\ inflight' \in SUBSET Messages
        /\ faults' \in 0..MaxFaults /\ fullSeen' \in BOOLEAN
    BY <2>1, <2>2, DeliveredType, Zenon
  <2>4. causes' \in SUBSET {"fault", "stale", "unnamed"}
    BY <1>11 DEF PeriodicDelivered
  <2>5. QED BY <1>11, <2>3, <2>4 DEF PeriodicDelivered
<1>12. CASE PeriodicFails
  <2>1. FullSync(full, TRUE) \in Messages
    BY FullSyncType
  <2>2. NotAcknowledged(FullSync(full, TRUE))
    BY <1>12 DEF PeriodicFails
  <2>3. /\ inflight' \in SUBSET Messages /\ faults' \in 0..MaxFaults
        /\ causes' \in SUBSET {"fault", "stale", "unnamed"}
        /\ UNCHANGED <<replica, fullSeen>>
    BY <2>1, <2>2, NotAcknowledgedType, Zenon
  <2>4. QED BY <1>12, <2>3 DEF PeriodicFails
<1>13. CASE PeriodicCommit
  BY <1>13 DEF PeriodicCommit
<1>14. ASSUME NEW v \in VMIDs, NEW i \in Infos \cup {None}, DomainChange(v, i)
       PROVE  TypeOK'
  <2>1. [vms EXCEPT ![v] = i] \in VMInfoMap
    BY DEF VMInfoMap
  <2>2. QED BY <1>14, <2>1 DEF DomainChange
<1>15. ASSUME NEW m \in inflight, LateApply(m)
       PROVE  TypeOK'
  <2>1. Apply(m, replica) \in VMInfoMap
    BY ApplyType
  <2>2. QED BY <1>15, <2>1 DEF LateApply
<1>16. CASE Restart
  <2>1. ipc = "send" => FullSync(full, TRUE) \in Messages
    BY FullSyncType
  <2>2. Unanswered \subseteq Messages
    BY <2>1 DEF Unanswered, FullSync
  <2>3. inflight' \in SUBSET Messages /\ causes' \in SUBSET {"fault", "stale", "unnamed"}
    BY <1>16, <2>2 DEF Restart
  <2>4. (ipc = "send" => full # Empty)'
    BY <1>16 DEF Restart
  <2>5. restarts' \in 0..MaxRestarts
    BY <1>16 DEF Restart
  <2>6. QED BY <1>16, <2>3, <2>4, <2>5 DEF Restart
<1>17. CASE UNCHANGED vars
  BY <1>17 DEF vars
<1>18. QED
  BY <1>1, <1>2, <1>3, <1>4, <1>5, <1>6, <1>7, <1>8, <1>9, <1>10, <1>11, <1>12, <1>13, <1>14, <1>15, <1>16, <1>17 DEF Next, SyncLoop, InfoLoop, Environment

\* The maps, messages and counters of the sync keep their types, for every set
\* of domains and every bound; a VMInfoSync never upserts and removes the same
\* domain and a periodic snapshot is never empty.
THEOREM TypeCorrect == Spec => []TypeOK
BY InitType, NextType, PTL DEF Spec
-----------------------------------------------------------------------------
(* Deltas need a full *)

\* Every step keeps: what is synced, committed or sent as a delta was preceded
\* by an acknowledged full sync of this process.
LEMMA NextFullFirst == TypeOK /\ FullFirst /\ [Next]_vars => FullFirst'
<1> SUFFICES ASSUME TypeOK, FullFirst, [Next]_vars PROVE FullFirst'
  OBVIOUS
<1> USE DEF FullFirst, schedVars, syncVars, infoVars, netVars, bounds
<1>1. CASE \/ ListDomains \/ ReadStats \/ SendVMRuntimeMetrics \/ CycleFails
           \/ SyncNodeHardware \/ PeriodicSnapshot
  BY <1>1 DEF ListDomains, ReadStats, SendVMRuntimeMetrics, CycleFails,
              SyncNodeHardware, PeriodicSnapshot
<1>2. CASE ComputeVMInfoDiff
  <2>1. FullSync(cur, NodeIDResolved(cur)).mode = "full"
    BY DEF FullSync
  <2>2. QED BY <1>2, <2>1 DEF ComputeVMInfoDiff
<1>3. CASE SendDelivered
  <2>1. out.mode \in {"full", "delta"}
    BY DEF TypeOK, Messages
  <2>2. QED BY <1>3, <2>1 DEF SendDelivered, Delivered
<1>4. CASE SendFails
  BY <1>4 DEF SendFails, NotAcknowledged
<1>5. CASE Commit \/ PeriodicCommit
  BY <1>5 DEF Commit, PeriodicCommit
<1>6. CASE PeriodicDelivered
  <2>1. FullSync(full, TRUE).mode = "full"
    BY DEF FullSync
  <2>2. fullSeen'
    BY <1>6, <2>1, Zenon DEF PeriodicDelivered, Delivered
  <2>3. QED BY <1>6, <2>2 DEF PeriodicDelivered
<1>7. CASE PeriodicFails
  BY <1>7 DEF PeriodicFails, NotAcknowledged
<1>8. CASE Environment
  BY <1>8 DEF Environment, DomainChange, LateApply, Restart
<1>9. CASE UNCHANGED vars
  BY <1>9 DEF vars
<1>10. QED
  BY <1>1, <1>2, <1>3, <1>4, <1>5, <1>6, <1>7, <1>8, <1>9 DEF Next, SyncLoop, InfoLoop

\* For every number of domains, failures and restarts: the sync loop sends a
\* delta only in a process whose full sync the backend has acknowledged.
THEOREM DeltasNeedFull == Spec => []DeltaNeedsFull
<1>1. Init => FullFirst
  BY DEF Init, FullFirst, NoMsg
<1>2. FullFirst => DeltaNeedsFull
  BY DEF FullFirst, DeltaNeedsFull
<1>3. QED BY <1>1, <1>2, TypeCorrect, NextFullFirst, PTL DEF Spec

-----------------------------------------------------------------------------
(* The replica follows the collected inventory *)

\* The steps that touch neither the messages, the maps of the scheduler nor
\* the replica keep Follows, whatever the program counters of the collection.
LEMMA QuietSteps ==
    ASSUME TypeOK, Follows,
           \/ ListDomains \/ ReadStats \/ SendVMRuntimeMetrics \/ CycleFails
           \/ SyncNodeHardware \/ UNCHANGED vars
           \/ \E v \in VMIDs, i \in Infos \cup {None} : DomainChange(v, i)
    PROVE  Follows'
BY DEF TypeOK, Follows, Sending, Committing, Resting, schedVars, syncVars, infoVars, netVars,
       bounds, vars, ListDomains, ReadStats, SendVMRuntimeMetrics, CycleFails,
       SyncNodeHardware, DomainChange, Apply

\* The diff: what is sent leads from the replica to the collected inventory.
LEMMA DiffFollows ==
    ASSUME TypeOK, Follows, ComputeVMInfoDiff
    PROVE  Follows'
<1> SUFFICES ASSUME causes = {} PROVE Follows'
  BY DEF ComputeVMInfoDiff, Follows, netVars
<1> USE DEF TypeOK
<1>1. /\ inflight = {} /\ last = latest /\ (synced => replica = latest)
      /\ (~synced => latest = Empty /\ ipc \notin {"send", "commit"})
  BY DEF Follows, Resting, ComputeVMInfoDiff
<1>2. CASE ~synced
  <2>1. out' = FullSync(cur, NodeIDResolved(cur)) /\ pc' = "send" /\ cur' = cur /\ latest' = cur
    BY <1>2 DEF ComputeVMInfoDiff
  <2>2. out'.named => Apply(out', replica) = cur /\ Apply(out', cur) = cur
    BY <2>1 DEF FullSync, Apply
  <2>3. ~out'.named => cur = Empty
    BY <2>1 DEF FullSync, NodeIDResolved
  <2>4. QED
    BY <1>1, <2>1, <2>2, <2>3 DEF ComputeVMInfoDiff, Follows, Sending, Committing, Resting, netVars
<1>3. CASE synced /\ ShouldSync(VMInfoDiff(last, cur))
  <2>1. out' = VMInfoDiff(last, cur) /\ pc' = "send" /\ cur' = cur /\ latest' = cur
    BY <1>3 DEF ComputeVMInfoDiff
  <2>2. Apply(VMInfoDiff(last, cur), last) = cur /\ Apply(VMInfoDiff(last, cur), cur) = cur
    BY DiffApply
  <2>3. VMInfoDiff(last, cur).named
    BY DEF VMInfoDiff
  <2>4. QED
    BY <1>1, <1>3, <2>1, <2>2, <2>3
    DEF ComputeVMInfoDiff, Follows, Sending, Committing, Resting, netVars
<1>4. CASE synced /\ ~ShouldSync(VMInfoDiff(last, cur))
  <2>1. last = cur
    BY <1>4, NothingToSync
  <2>2. latest' = cur /\ pc' = "idle"
    BY <1>4 DEF ComputeVMInfoDiff
  <2>3. QED
    BY <1>1, <1>4, <2>1, <2>2
    DEF ComputeVMInfoDiff, Follows, Sending, Committing, Resting, netVars, infoVars
<1>5. QED BY <1>2, <1>3, <1>4

\* An answered send of the sync loop makes the replica equal to cur.
LEMMA SendFollows ==
    ASSUME TypeOK, Follows, SendDelivered
    PROVE  Follows'
<1> SUFFICES ASSUME causes' = {} PROVE Follows'
  BY DEF Follows
<1>1. causes = {} /\ inflight' = inflight /\ (out.named \/ replica = Empty)
  BY DEF SendDelivered
<1>2. inflight = {} /\ latest = cur /\ (out.named => Apply(out, replica) = cur)
      /\ (~out.named => cur = Empty)
  BY <1>1 DEF Follows, Sending, SendDelivered
<1>3. replica' = Apply(out, replica)
  BY DEF SendDelivered, Delivered
<1>4. replica' = cur
  BY <1>1, <1>2, <1>3 DEF Apply
<1>5. QED
  BY <1>1, <1>2, <1>4 DEF SendDelivered, Follows, Sending, Committing, Resting, schedVars

\* A periodic snapshot that is not stale changes nothing a send relies on.
LEMMA PeriodicFollows ==
    ASSUME TypeOK, Follows, PeriodicDelivered
    PROVE  Follows'
<1> SUFFICES ASSUME causes' = {} PROVE Follows'
  BY DEF Follows
<1>1. causes = {} /\ inflight' = inflight /\ (full = latest \/ full = replica)
  BY DEF PeriodicDelivered
<1>2. Apply(FullSync(full, TRUE), replica) = full
  BY DEF Apply, FullSync
<1>3. replica' = full
  BY <1>2, Zenon DEF PeriodicDelivered, Delivered
<1>4. inflight = {} /\ Sending /\ Committing /\ Resting
  BY <1>1 DEF Follows
<1>5. /\ ipc = "send" /\ ipc' = "commit"
      /\ UNCHANGED <<latest, last, synced, pc, cur, out>>
  BY DEF PeriodicDelivered, schedVars, syncVars
<1>6. Sending'
  BY <1>1, <1>3, <1>4, <1>5 DEF Sending, Apply
<1>7. Committing'
  BY <1>1, <1>3, <1>4, <1>5 DEF Committing
<1>8. Resting'
  BY <1>1, <1>3, <1>4, <1>5 DEF Resting
<1>9. QED BY <1>1, <1>4, <1>6, <1>7, <1>8 DEF Follows

\* Every step keeps the relation of replica, last and latest.
LEMMA NextFollows == TypeOK /\ Follows /\ [Next]_vars => Follows'
<1> SUFFICES ASSUME TypeOK, Follows, [Next]_vars PROVE Follows'
  OBVIOUS
<1> USE DEF schedVars, syncVars, infoVars, netVars, bounds
<1>1. CASE \/ ListDomains \/ ReadStats \/ SendVMRuntimeMetrics \/ CycleFails
           \/ SyncNodeHardware \/ UNCHANGED vars
           \/ \E v \in VMIDs, i \in Infos \cup {None} : DomainChange(v, i)
  BY <1>1, QuietSteps, Zenon
<1>2. CASE ComputeVMInfoDiff
  BY <1>2, DiffFollows
<1>3. CASE SendDelivered
  BY <1>3, SendFollows
<1>4. CASE SendFails \/ PeriodicFails
  BY <1>4 DEF SendFails, PeriodicFails, NotAcknowledged, Follows
<1>5. CASE Commit
  BY <1>5 DEF Commit, Follows, Sending, Committing, Resting
<1>6. CASE PeriodicSnapshot
  BY <1>6 DEF PeriodicSnapshot, Follows, Sending, Committing, Resting, Apply
<1>7. CASE PeriodicDelivered
  BY <1>7, PeriodicFollows
<1>8. CASE PeriodicCommit
  BY <1>8 DEF PeriodicCommit, Follows, Sending, Committing, Resting, Apply
<1>9. ASSUME NEW m \in inflight, LateApply(m)
      PROVE  Follows'
  BY <1>9 DEF LateApply, Follows
<1>10. CASE Restart
  BY <1>10 DEF Restart, Follows, Sending, Committing, Resting
<1>11. QED
  BY <1>1, <1>2, <1>3, <1>4, <1>5, <1>6, <1>7, <1>8, <1>9, <1>10
  DEF Next, SyncLoop, InfoLoop, Environment

\* For every number of domains, VMInfo values, changes and restarts, and every
\* interleaving of the two loops: as long as no send failed, no periodic
\* snapshot was overtaken and no unnamed sync met a filled table, the control
\* plane's table and lastVMInfoByID are the collected inventory between sends.
THEOREM ReplicaFollows == Spec => []ReplicaFollowsLatest
<1>1. Init => Follows
  BY DEF Init, Follows, Sending, Committing, Resting
<1>2. Follows => ReplicaFollowsLatest
  BY DEF Follows, Resting, ReplicaFollowsLatest
<1>3. QED BY <1>1, <1>2, TypeCorrect, NextFollows, PTL DEF Spec

-----------------------------------------------------------------------------
(* What the reader's call leaves of the inventory *)

\* libvirt has only been asked to count the domains: nothing that is collected,
\* remembered, sent or received names a domain.
Blind ==
    NeedResults = 0 =>
        /\ listed = {} /\ cur = Empty
        /\ latest = Empty /\ last = Empty
        /\ out.upserts = Empty /\ out.removed = {}
        /\ replica = Empty /\ ipc # "send"
        /\ \A m \in inflight : m.upserts = Empty

\* A message without upserts leaves an empty table empty.
LEMMA EmptyStaysEmpty ==
    ASSUME NEW m \in Messages, m.upserts = Empty
    PROVE  Apply(m, Empty) = Empty
BY DEF Apply, Empty, Messages

\* With nothing listed there is nothing to collect, and the difference of two
\* empty maps is empty.
LEMMA CollectsNothing ==
    ASSUME TypeOK, Blind, NeedResults = 0,
           \/ ListDomains \/ ReadStats \/ SendVMRuntimeMetrics \/ CycleFails
           \/ ComputeVMInfoDiff \/ Commit
    PROVE  Blind'
<1> USE DEF Blind, schedVars, syncVars, infoVars, netVars, bounds
<1>1. CASE ListDomains \/ SendVMRuntimeMetrics \/ CycleFails \/ Commit
  BY <1>1 DEF ListDomains, SendVMRuntimeMetrics, CycleFails, Commit
<1>2. CASE ReadStats
  <2>1. cur' = Empty
    BY <1>2 DEF ReadStats, Empty
  <2>2. QED BY <1>2, <2>1 DEF ReadStats
<1>3. CASE ComputeVMInfoDiff
  <2>1. VMInfoDiff(last, cur).upserts = Empty /\ VMInfoDiff(last, cur).removed = {}
    BY DEF VMInfoDiff, Empty, Keys
  <2>2. FullSync(cur, NodeIDResolved(cur)).upserts = Empty
        /\ FullSync(cur, NodeIDResolved(cur)).removed = {}
    BY DEF FullSync
  <2>3. QED BY <1>3, <2>1, <2>2 DEF ComputeVMInfoDiff
<1>4. QED BY <1>1, <1>2, <1>3

\* Nothing but empty messages is ever under way.
LEMMA NextBlind == TypeOK /\ Blind /\ [Next]_vars => Blind'
<1> SUFFICES ASSUME TypeOK, Blind, [Next]_vars, NeedResults = 0 PROVE Blind'
  BY DEF Blind
<1> USE DEF schedVars, syncVars, infoVars, netVars, bounds
<1>1. CASE \/ ListDomains \/ ReadStats \/ SendVMRuntimeMetrics \/ CycleFails
           \/ ComputeVMInfoDiff \/ Commit
  BY <1>1, CollectsNothing
<1>2. CASE SendDelivered
  <2>1. Apply(out, replica) = Empty
    BY EmptyStaysEmpty DEF Blind, TypeOK
  <2>2. replica' = Empty /\ \A m \in inflight' : m.upserts = Empty
    BY <1>2, <2>1 DEF SendDelivered, Delivered, Blind
  <2>3. QED BY <1>2, <2>2 DEF SendDelivered, Blind, NoMsg
<1>3. CASE SendFails
  BY <1>3 DEF SendFails, NotAcknowledged, Blind, NoMsg
<1>4. CASE SyncNodeHardware \/ PeriodicSnapshot \/ PeriodicCommit
  BY <1>4 DEF SyncNodeHardware, PeriodicSnapshot, PeriodicCommit, Blind
<1>5. CASE PeriodicDelivered \/ PeriodicFails
  BY <1>5 DEF PeriodicDelivered, PeriodicFails, Blind
<1>6. ASSUME NEW m \in inflight, LateApply(m) PROVE Blind'
  <2>1. Apply(m, replica) = Empty
    BY EmptyStaysEmpty DEF Blind, TypeOK
  <2>2. QED BY <1>6, <2>1 DEF LateApply, Blind
<1>7. CASE Restart
  BY <1>7 DEF Restart, Unanswered, Blind, NoMsg
<1>8. CASE UNCHANGED vars \/ \E v \in VMIDs, i \in Infos \cup {None} : DomainChange(v, i)
  BY <1>8 DEF vars, DomainChange, Blind
<1>9. QED
  BY <1>1, <1>2, <1>3, <1>4, <1>5, <1>6, <1>7, <1>8
  DEF Next, SyncLoop, InfoLoop, Environment

\* The invariant holds in every reachable state.
LEMMA BlindAlways == Spec => []Blind
<1>1. Init => Blind
  BY DEF Init, Blind, NoMsg
<1>2. QED BY <1>1, TypeCorrect, NextBlind, PTL DEF Spec

\* As VMMetricsReader makes the call, for any host and whatever fails: the
\* scheduler never knows of a domain, never sends one, the periodic snapshot is
\* never sent at all, and the control plane's table stays empty.
THEOREM NothingReported ==
    ASSUME NeedResults = 0
    PROVE  Spec => [](latest = Empty /\ replica = Empty /\ ipc # "send")
<1>1. Blind => latest = Empty /\ replica = Empty /\ ipc # "send"
  BY DEF Blind
<1>2. QED BY <1>1, BlindAlways, PTL

-----------------------------------------------------------------------------
(* Agreement lasts *)

\* A domain table says which value every key has, so its keys and their values
\* give the table back: what the sync loop collects in one cycle without a
\* change is the table.
LEMMA CollectedTable ==
    ASSUME NEW t \in VMInfoMap
    PROVE  [v \in VMIDs |-> IF v \in Keys(t) THEN t[v] ELSE None] = t
BY DEF VMInfoMap, Keys

\* A full sync of the agreed table leaves the table alone, named or not.
LEMMA FullOfTable ==
    ASSUME NEW t \in VMInfoMap, NEW b \in BOOLEAN
    PROVE  Apply(FullSync(t, b), t) = t
BY DEF Apply, FullSync

\* An answered send of a message that does no harm, with or without a copy
\* left behind.
LEMMA HarmlessDelivered ==
    ASSUME NEW m \in Messages, Delivered(m), replica = vms, Apply(m, vms) = vms,
           \A n \in inflight : Apply(n, vms) = vms
    PROVE  /\ replica' = vms
           /\ \A n \in inflight' : Apply(n, vms) = vms
BY DEF Delivered

\* A send that fails leaves only a message in flight that does no harm.
LEMMA HarmlessFailure ==
    ASSUME NEW m \in Messages, NotAcknowledged(m), replica = vms, Apply(m, vms) = vms,
           \A n \in inflight : Apply(n, vms) = vms
    PROVE  /\ replica' = vms
           /\ \A n \in inflight' : Apply(n, vms) = vms
BY DEF NotAcknowledged

\* The diff of an agreed inventory against any last: a delta to the agreed
\* table does not change that table, from wherever it was computed.
LEMMA DiffAgrees ==
    ASSUME TypeOK, Agreed, ComputeVMInfoDiff
    PROVE  Agreed'
<1> USE DEF TypeOK
<1>1. cur = vms /\ latest' = vms /\ vms' = vms
  BY DEF ComputeVMInfoDiff, Agreed
<1>2. UNCHANGED <<replica, inflight, ipc, full>>
  BY DEF ComputeVMInfoDiff, infoVars, netVars
<1>3. Apply(VMInfoDiff(last, cur), vms) = vms
  BY <1>1, DiffApply
<1>4. Apply(FullSync(cur, NodeIDResolved(cur)), vms) = vms
  BY <1>1, FullOfTable DEF NodeIDResolved
<1>5. pc' = "send" => Apply(out', vms) = vms
  BY <1>3, <1>4 DEF ComputeVMInfoDiff
<1>6. (pc' = "send" /\ cur' = vms) \/ pc' = "idle"
  BY <1>1 DEF ComputeVMInfoDiff
<1>7. QED BY <1>1, <1>2, <1>5, <1>6 DEF Agreed

\* Every step that changes no domain keeps the agreement.
LEMMA NextAgreed ==
    ASSUME TypeOK, Blind, Agreed, [Next]_vars, vms' = vms
    PROVE  Agreed'
<1> USE DEF schedVars, syncVars, infoVars, netVars, bounds
<1>0. CASE ListDomains
  <2>1. NeedResults = 0 => Keys(vms) = {}
    BY DEF Blind, Agreed, Keys, Empty
  <2>2. listed' = Keys(vms)
    BY <1>0, <2>1 DEF ListDomains
  <2>3. QED BY <1>0, <2>2 DEF ListDomains, Agreed
<1>1. CASE SendVMRuntimeMetrics \/ CycleFails \/ Commit
           \/ SyncNodeHardware \/ PeriodicSnapshot \/ PeriodicCommit
  <2>1. UNCHANGED <<replica, inflight>>
    BY <1>1 DEF SendVMRuntimeMetrics, CycleFails, Commit,
                SyncNodeHardware, PeriodicSnapshot, PeriodicCommit
  <2>2. QED
    BY <1>1, <2>1 DEF Agreed, SendVMRuntimeMetrics, CycleFails, Commit,
                      SyncNodeHardware, PeriodicSnapshot, PeriodicCommit
<1>2. CASE ReadStats
  <2>1. listed = Keys(vms)
    BY <1>2 DEF ReadStats, Agreed
  <2>2. cur' = vms
    BY <1>2, <2>1, CollectedTable DEF ReadStats, TypeOK
  <2>3. QED BY <1>2, <2>2 DEF ReadStats, Agreed
<1>3. CASE ComputeVMInfoDiff
  BY <1>3, DiffAgrees
<1>4. CASE SendDelivered
  <2>1. out \in Messages /\ Delivered(out) /\ Apply(out, vms) = vms
    BY <1>4 DEF SendDelivered, Agreed, TypeOK
  <2>2. replica' = vms /\ \A n \in inflight' : Apply(n, vms) = vms
    BY <2>1, HarmlessDelivered DEF Agreed
  <2>3. QED BY <1>4, <2>2 DEF SendDelivered, Agreed
<1>5. CASE SendFails
  <2>1. out \in Messages /\ NotAcknowledged(out) /\ Apply(out, vms) = vms
    BY <1>5 DEF SendFails, Agreed, TypeOK
  <2>2. replica' = vms /\ \A n \in inflight' : Apply(n, vms) = vms
    BY <2>1, HarmlessFailure DEF Agreed
  <2>3. QED BY <1>5, <2>2 DEF SendFails, Agreed
<1>6. CASE PeriodicDelivered \/ PeriodicFails
  <2>1. full = vms /\ FullSync(full, TRUE) \in Messages
    BY <1>6, FullSyncType DEF PeriodicDelivered, PeriodicFails, Agreed, TypeOK
  <2>2. Apply(FullSync(full, TRUE), vms) = vms
    BY <2>1, FullOfTable DEF TypeOK
  <2>3. Delivered(FullSync(full, TRUE)) \/ NotAcknowledged(FullSync(full, TRUE))
    BY <1>6 DEF PeriodicDelivered, PeriodicFails
  <2>4. replica' = vms /\ \A n \in inflight' : Apply(n, vms) = vms
    BY <2>1, <2>2, <2>3, HarmlessDelivered, HarmlessFailure, Zenon DEF Agreed
  <2>5. QED BY <1>6, <2>4 DEF PeriodicDelivered, PeriodicFails, Agreed
<1>7. ASSUME NEW m \in inflight, LateApply(m) PROVE Agreed'
  BY <1>7 DEF LateApply, Agreed
<1>8. CASE Restart
  <2>1. ipc = "send" => Apply(FullSync(full, TRUE), vms) = vms
    BY FullOfTable DEF Agreed, TypeOK
  <2>2. \A n \in Unanswered : Apply(n, vms) = vms
    BY <2>1, Zenon DEF Unanswered, Agreed
  <2>3. \A n \in inflight' : n \in inflight \/ n \in Unanswered
    BY <1>8 DEF Restart
  <2>4. \A n \in inflight' : Apply(n, vms) = vms
    BY <2>2, <2>3 DEF Agreed
  <2>5. QED BY <1>8, <2>4 DEF Restart, Agreed
<1>9. CASE UNCHANGED vars \/ \E v \in VMIDs, i \in Infos \cup {None} : DomainChange(v, i)
  BY <1>9 DEF vars, DomainChange, Agreed
<1>10. QED
  BY <1>0, <1>1, <1>2, <1>3, <1>4, <1>5, <1>6, <1>7, <1>8, <1>9
  DEF Next, SyncLoop, InfoLoop, Environment

\* For every number of domains, faults and restarts: once the control plane's
\* table is libvirt's and nothing on its way says otherwise, it stays so until
\* a domain changes.  This is what makes the convergence TLC checks final.
THEOREM AgreementIsFinal == Spec => AgreementLasts
<1>1. TypeOK /\ Blind /\ [Next]_vars => [Agreed /\ vms' = vms => Agreed']_vars
  BY NextAgreed
<1>2. QED BY <1>1, TypeCorrect, BlindAlways, PTL DEF Spec, AgreementLasts
=============================================================================
