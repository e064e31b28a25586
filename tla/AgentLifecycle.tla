--------------------------- MODULE AgentLifecycle ---------------------------
(***************************************************************************)
(* The life of the agent (internal/agent): Agent.Run and the signals it    *)
(* waits for, Agent.run and its errgroup of scheduler, health loop and     *)
(* probe listener, the healthSink around the stream sink, the shutdown     *)
(* sequence, and the restart by systemd after an exit of its own.  The     *)
(* group's fourth member, the event loop, only logs heartbeats and ends    *)
(* with the context: it is left out.                                       *)
(*                                                                         *)
(* The stream sink is the abstract one of module Sink, which GRPCClient    *)
(* implements; the connection manager appears as one client pointer and    *)
(* the lock its Reconnect holds (ConnManager has the details).  The        *)
(* contexts of Run and of the two errgroups are one flag: nothing looks at *)
(* an outer one while an inner one is cancelled alone.                     *)
(***************************************************************************)
EXTENDS Naturals

CONSTANTS
    Senders,        \* the scheduler's loops
    NodeLoop,       \* the one that sends a frame in every cycle
    MaxFaults       \* bound: failures of backend, libvirtd and listener

ASSUME SendersAssumption == NodeLoop \in Senders
ASSUME BoundsAssumption == MaxFaults \in Nat

VARIABLES
    phase, session, backend, cancelled, closed,     \* the sink, see Sink
    main,               \* Agent.Run
    forced,             \* shutdown did not wait for the loops
    stopped,            \* a signal was sent to the process
    run,                \* Agent.run
    pc,                 \* each sender
    health,             \* runHealthLoop
    probe,              \* runProbeListener
    client,             \* ConnManager.client: nil, live or dead
    libvirt,            \* libvirtd answers, is unreachable, or hangs (external)
    streamConnected,    \* HealthStatus.streamConnected
    faults              \* consumed bound

sinkVars == <<phase, session, backend, cancelled, closed>>
mainVars == <<main, forced, stopped>>
healthVars == <<health, client, libvirt>>
vars == <<sinkVars, mainVars, healthVars, run, pc, probe, streamConnected, faults>>

S == INSTANCE Sink WITH Loops <- Senders

Init ==
    /\ S!Init
    /\ main = "select" /\ forced = FALSE /\ stopped = FALSE
    /\ run = "connect" /\ pc = [l \in Senders |-> "off"]
    /\ health = "off" /\ probe = "off"
    /\ client = "nil" /\ libvirt \in {"good", "down"}
    /\ streamConnected = FALSE
    /\ faults = 0

Alive == main # "exit"

-----------------------------------------------------------------------------
(* The world: backend, libvirtd, signals *)

Fault == faults < MaxFaults /\ faults' = faults + 1

BackendFails(state) ==
    /\ backend = "up" /\ Fault
    /\ S!BackendChanges(state)
    /\ UNCHANGED <<mainVars, healthVars, run, pc, probe, streamConnected>>

BackendUp ==
    /\ backend # "up"
    /\ S!BackendChanges("up")
    /\ UNCHANGED <<mainVars, healthVars, run, pc, probe, streamConnected, faults>>

\* libvirtd stops, and its connections with it, or only stops answering.
LibvirtFails(state) ==
    /\ libvirt = "good" /\ Fault
    /\ libvirt' = state
    /\ client' = IF client = "live" /\ state = "down" THEN "dead" ELSE client
    /\ UNCHANGED <<sinkVars, mainVars, health, run, pc, probe,
                   streamConnected>>

LibvirtUp ==
    /\ libvirt # "good"
    /\ libvirt' = "good"
    /\ UNCHANGED <<sinkVars, mainVars, health, client, run, pc,
                   probe, streamConnected, faults>>

Signal ==
    /\ Alive /\ ~stopped
    /\ stopped' = TRUE
    /\ UNCHANGED <<sinkVars, main, forced, healthVars, run, pc, probe,
                   streamConnected, faults>>

-----------------------------------------------------------------------------
(* Agent.run *)

\* The first connect, and the start of the errgroup's members.  Connect only
\* returns an error when the context is cancelled, and sees that between dials.
RunConnects ==
    /\ Alive /\ run = "connect" /\ libvirt = "good"
    /\ client' = "live"
    /\ streamConnected' = TRUE
    /\ run' = "group"
    /\ pc' = [l \in Senders |-> "collect"]
    /\ health' = "wait" /\ probe' = "serving"
    /\ UNCHANGED <<sinkVars, mainVars, libvirt, faults>>

RunCancelled ==
    /\ Alive /\ run = "connect" /\ cancelled
    /\ run' = "returned"
    /\ UNCHANGED <<sinkVars, mainVars, healthVars, pc, probe, streamConnected, faults>>

\* Mutant of GroupDone: the scheduler is not a member of the group.
GroupDoneEarly ==
    /\ Alive /\ run = "group"
    /\ health = "done" /\ probe = "done"
    /\ run' = "returned"
    /\ UNCHANGED <<sinkVars, mainVars, healthVars, pc, probe, streamConnected, faults>>

\* g.Wait returns when every member has; the monitor is not one of them.
GroupDone ==
    /\ Alive /\ run = "group"
    /\ \A l \in Senders : pc[l] = "done"
    /\ health = "done" /\ probe = "done"
    /\ run' = "returned"
    /\ UNCHANGED <<sinkVars, mainVars, healthVars, pc, probe, streamConnected, faults>>

-----------------------------------------------------------------------------
(* A loop of the scheduler: collect, send, set the health flag, wait *)

GoTo(l, step) == pc' = [pc EXCEPT ![l] = step]
senderUnchanged == <<mainVars, healthVars, run, probe>>

\* Client gets the pointer, which is nil while Reconnect holds the lock.
CollectSends(l) ==
    /\ Alive /\ pc[l] = "collect"
    /\ client = "live" /\ libvirt = "good"
    /\ S!Call(l)
    /\ GoTo(l, "send")
    /\ UNCHANGED <<senderUnchanged, streamConnected, faults>>

\* No VM, or VM infos that have not changed: nothing to send.  (A cycle that
\* sends metrics and then VM infos is two cycles here.)
CollectNothing(l) ==
    /\ Alive /\ pc[l] = "collect" /\ l # NodeLoop
    /\ client = "live" /\ libvirt = "good"
    /\ GoTo(l, "pause")
    /\ UNCHANGED <<sinkVars, senderUnchanged, streamConnected, faults>>

\* The client is dead or was dropped during the collector's calls.  The error
\* is logged and the loop goes on.
CollectFails(l) ==
    /\ Alive /\ pc[l] = "collect"
    /\ client # "live"
    /\ GoTo(l, "pause")
    /\ UNCHANGED <<sinkVars, senderUnchanged, streamConnected, faults>>

SinkServes(l) ==
    /\ Alive
    /\ S!Serve(l) \/ S!Connect(l)
    /\ UNCHANGED <<senderUnchanged, pc, streamConnected, faults>>

\* A session does not break, and a call does not fail, without a reason.
SinkLoses(l) ==
    /\ Alive
    /\ S!Lose(l)
    /\ IF backend = "down" \/ cancelled THEN faults' = faults ELSE Fault
    /\ UNCHANGED <<senderUnchanged, pc, streamConnected>>

SinkFails(l) ==
    /\ Alive
    /\ S!GiveUp(l)
    /\ IF backend # "up" \/ cancelled THEN faults' = faults ELSE Fault
    /\ GoTo(l, "flag")
    /\ UNCHANGED <<senderUnchanged, streamConnected>>

SinkSends(l) ==
    /\ Alive
    /\ S!Succeed(l)
    /\ GoTo(l, "flag")
    /\ UNCHANGED <<senderUnchanged, streamConnected, faults>>

\* Mutant of SetFlag: healthSink returns a failed send's error right away.
SetFlagOnSuccess(l) ==
    /\ Alive /\ pc[l] = "flag"
    /\ streamConnected' = (phase[l] = "ok" \/ streamConnected)
    /\ GoTo(l, "pause")
    /\ UNCHANGED <<sinkVars, senderUnchanged, faults>>

\* healthSink: the flag is written after the sink has let the next loop in.
SetFlag(l) ==
    /\ Alive /\ pc[l] = "flag"
    /\ streamConnected' = (phase[l] = "ok")
    /\ GoTo(l, "pause")
    /\ UNCHANGED <<sinkVars, senderUnchanged, faults>>

\* Mutant of Tick: the cycle runs in a goroutine of its own.
TickOverlaps(l) ==
    /\ Alive /\ pc[l] \in {"pause", "send"}
    /\ GoTo(l, "collect")
    /\ UNCHANGED <<sinkVars, senderUnchanged, streamConnected, faults>>

\* The ticker fires; with the context cancelled too, select may pick either.
Tick(l) ==
    /\ Alive /\ pc[l] = "pause"
    /\ GoTo(l, "collect")
    /\ UNCHANGED <<sinkVars, senderUnchanged, streamConnected, faults>>

LoopEnds(l) ==
    /\ Alive /\ pc[l] = "pause" /\ cancelled
    /\ GoTo(l, "done")
    /\ UNCHANGED <<sinkVars, senderUnchanged, streamConnected, faults>>

-----------------------------------------------------------------------------
(* The health loop *)

healthUnchanged == <<sinkVars, mainVars, run, pc, probe, streamConnected, faults>>

HealthTick ==
    /\ Alive /\ health = "wait"
    /\ health' = "version"
    /\ UNCHANGED <<healthUnchanged, client, libvirt>>

HealthyOk ==
    /\ Alive /\ health = "version"
    /\ client = "live" /\ libvirt = "good"
    /\ health' = "wait"
    /\ UNCHANGED <<healthUnchanged, client, libvirt>>

\* Reconnect drops the client and starts to dial.
HealthyFails ==
    /\ Alive /\ health = "version"
    /\ client = "dead" \/ (client = "nil" /\ cancelled)
    /\ health' = "reconnect" /\ client' = "nil"
    /\ UNCHANGED <<healthUnchanged, libvirt>>

Reconnects ==
    /\ Alive /\ health = "reconnect" /\ libvirt = "good"
    /\ client' = "live" /\ health' = "wait"
    /\ UNCHANGED <<healthUnchanged, libvirt>>

ReconnectCancelled ==
    /\ Alive /\ health = "reconnect" /\ cancelled
    /\ health' = "wait"
    /\ UNCHANGED <<healthUnchanged, client, libvirt>>

HealthEnds ==
    /\ Alive /\ health = "wait" /\ cancelled
    /\ health' = "done"
    /\ UNCHANGED <<healthUnchanged, client, libvirt>>

-----------------------------------------------------------------------------
(* The probe listener *)

probeUnchanged == <<mainVars, healthVars, run, pc, streamConnected>>

\* Mutant of ProbeFails: a group without a context of its own.
ProbeFailsAlone ==
    /\ Alive /\ probe = "serving" /\ ~cancelled
    /\ Fault
    /\ probe' = "done"
    /\ UNCHANGED <<sinkVars, probeUnchanged>>

\* Listen or Serve fails: the only member whose error ends the group.
ProbeFails ==
    /\ Alive /\ probe = "serving" /\ ~cancelled
    /\ Fault
    /\ probe' = "done"
    /\ S!Cancel
    /\ UNCHANGED probeUnchanged

\* GracefulStop, or Stop two seconds later, ends Serve.
ProbeEnds ==
    /\ Alive /\ probe = "serving" /\ cancelled
    /\ probe' = "done"
    /\ UNCHANGED <<sinkVars, probeUnchanged, faults>>

-----------------------------------------------------------------------------
(* Agent.Run, after it has started run in a goroutine *)

mainUnchanged == <<run, pc, probe, health, libvirt, faults>>

\* The group ended by itself, or in time after a signal.
RunReturned ==
    /\ main \in {"select", "grace"} /\ run = "returned"
    /\ main' = "closeSink"
    /\ UNCHANGED <<mainUnchanged, sinkVars, forced, stopped, client,
                   streamConnected>>

FirstSignal ==
    /\ main = "select" /\ stopped
    /\ main' = "grace"
    /\ IF cancelled THEN UNCHANGED sinkVars ELSE S!Cancel
    /\ UNCHANGED <<mainUnchanged, forced, stopped, client, streamConnected>>

\* Mutant of GraceOver: there is no timer.
GraceNeverOver == FALSE /\ UNCHANGED vars

\* The grace timer fires, or a second signal arrives.
GraceOver ==
    /\ main = "grace"
    /\ main' = "closeSink" /\ forced' = TRUE
    /\ UNCHANGED <<mainUnchanged, sinkVars, stopped, client,
                   streamConnected>>

\* shutdown: Close waits for the sink's mutex, not for a context.
CloseSink ==
    /\ main = "closeSink"
    /\ S!Close
    /\ streamConnected' = FALSE
    /\ main' = "closeConn"
    /\ UNCHANGED <<mainUnchanged, forced, stopped, client>>

\* Close waits for the manager's lock and for libvirtd's answer to the goodbye.
CloseConn ==
    /\ main = "closeConn"
    /\ run # "connect" /\ health # "reconnect"
    /\ client = "nil" \/ libvirt # "hung"
    /\ client' = "nil"
    /\ main' = "exit"
    /\ UNCHANGED <<mainUnchanged, sinkVars, forced, stopped, streamConnected>>

\* Restart=always: systemd starts a process that ended without a stop.
Restart ==
    /\ main = "exit" /\ ~stopped
    /\ phase' = [l \in Senders |-> "ok"]
    /\ cancelled' = FALSE /\ closed' = FALSE
    /\ main' = "select"
    /\ run' = "connect" /\ pc' = [l \in Senders |-> "off"]
    /\ health' = "off" /\ probe' = "off"
    /\ session' = FALSE /\ client' = "nil" /\ streamConnected' = FALSE
    /\ UNCHANGED <<backend, forced, stopped, libvirt, faults>>

-----------------------------------------------------------------------------
Collect(l) == CollectSends(l) \/ CollectNothing(l)
Served(l) == \/ SinkServes(l) /\ phase[l] = "served"
             \/ SinkLoses(l) \/ SinkFails(l) \/ SinkSends(l)
Sender(l) == \/ Collect(l) \/ CollectFails(l) \/ SinkServes(l) \/ SinkLoses(l) \/ SinkFails(l)
             \/ SinkSends(l) \/ SetFlag(l) \/ Tick(l) \/ LoopEnds(l)
HealthStep == HealthyOk \/ HealthyFails \/ Reconnects \/ ReconnectCancelled
Group == RunConnects \/ RunCancelled \/ GroupDone
Hung == libvirt = "hung"
MainStep == RunReturned \/ FirstSignal \/ GraceOver

Next ==
    \/ BackendFails("down") \/ BackendFails("hung") \/ BackendUp
    \/ LibvirtFails("down") \/ LibvirtFails("hung") \/ LibvirtUp \/ Signal
    \/ Group
    \/ \E l \in Senders : Sender(l)
    \/ HealthTick \/ HealthStep \/ HealthEnds
    \/ ProbeFails \/ ProbeEnds
    \/ MainStep \/ CloseSink \/ CloseConn \/ Restart

Spec == Init /\ [][Next]_vars

\* Goroutines and timers run; a select with two ready cases does not forever
\* prefer its ticker, and sync.Mutex does not starve a waiter.  A call in the
\* sink ends unless the backend hangs and nobody cancels it, and a session to a
\* backend that is gone does not accept frames forever.  A collector is only
\* known to give up when its context is cancelled and Reconnect has released
\* the lock, and a dial that hangs does not look at its context.
FairSpec ==
    /\ Spec
    /\ WF_vars((~Hung \/ run = "group") /\ Group)
    /\ WF_vars(MainStep \/ Restart)
    /\ SF_vars(CloseSink \/ CloseConn \/ HealthEnds \/ \E l \in Senders : LoopEnds(l))
    /\ WF_vars(HealthTick \/ (~Hung /\ HealthStep))
    /\ WF_vars(ProbeEnds)
    /\ SF_vars(backend = "down" /\ \E l \in Senders : SinkLoses(l))
    /\ \A l \in Senders :
        /\ WF_vars(\/ Collect(l) \/ (cancelled /\ health # "reconnect" /\ CollectFails(l))
                   \/ ((backend # "hung" \/ cancelled) /\ Served(l))
                   \/ SetFlag(l) \/ Tick(l))
        /\ SF_vars(phase[l] = "waiting" /\ SinkServes(l))

-----------------------------------------------------------------------------
(* Properties *)

\* Program counters, counters and flags have their types, and a loop of the
\* scheduler is in one call of the sink at a time.
TypeOK ==
    /\ main \in {"select", "grace", "closeSink", "closeConn", "exit"}
    /\ run \in {"connect", "group", "returned"}
    /\ pc \in [Senders -> {"off", "collect", "send", "flag", "pause", "done"}]
    /\ health \in {"off", "wait", "version", "reconnect", "done"}
    /\ probe \in {"off", "serving", "done"}
    /\ faults \in 0..MaxFaults
    /\ client \in {"nil", "live", "dead"} /\ libvirt \in {"good", "down", "hung"}
    /\ phase \in [Senders -> {"ok", "error", "waiting", "served"}]
    /\ backend \in {"up", "down", "hung"}
    /\ session \in BOOLEAN /\ cancelled \in BOOLEAN /\ closed \in BOOLEAN
    /\ forced \in BOOLEAN /\ stopped \in BOOLEAN /\ streamConnected \in BOOLEAN
    /\ \A l \in Senders : phase[l] \in {"waiting", "served"} <=> pc[l] = "send"

\* A shutdown that was not forced is complete: Close comes after the last send,
\* and no loop that is still returning sets a health flag again after shutdown
\* has cleared it.
ShutdownIsFinal ==
    ~forced =>
        /\ closed => \A l \in Senders : phase[l] \in S!Idle /\ pc[l] \in {"off", "done"}
        /\ main \in {"closeConn", "exit"} => ~streamConnected /\ ~session
        /\ main = "exit" => client = "nil"

\* After a signal the sink is closed although loops may hang in libvirtd or in
\* the backend for good; the process ends unless libvirtd hangs for good.
StopsOnSignal ==
    <>stopped => <>closed /\ ([]<>~Hung => <>(main = "exit"))

\* A failing probe listener takes the whole process down and systemd brings it
\* back: the endpoint serves again, whatever the backend does, unless somebody
\* stops the agent or libvirtd stays away.
ComesBack ==
    []~stopped /\ <>[](libvirt = "good") => <>[](probe = "serving" /\ ~cancelled)

\* The stream flag tells the truth in the end: it settles on the state of a
\* backend that stays reachable or stays away, although the loops write it in
\* no particular order after they have left the sink, and although a send to a
\* backend that has just gone may still count as sent.
StreamFlagSettles ==
    []~stopped /\ <>[](libvirt = "good") =>
        /\ <>[](backend = "up") => <>[]streamConnected
        /\ <>[](backend = "down") => <>[]~streamConnected
=============================================================================
