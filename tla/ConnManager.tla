----------------------------- MODULE ConnManager -----------------------------
(***************************************************************************)
(* The libvirt connection (internal/libvirt/metric/conn.go), the health    *)
(* loop that repairs it and the part of agent shutdown that closes it      *)
(* (internal/agent/lifecycle.go, agent.go, probe_listener.go).             *)
(*                                                                         *)
(* One RWMutex guards one client pointer.  Collector loops and RPC         *)
(* handlers take the pointer and use it after the lock is released; a      *)
(* connect keeps the write lock until libvirtd answers or the context of   *)
(* the one goroutine that connects is cancelled.                           *)
(***************************************************************************)
EXTENDS Naturals

CONSTANTS
    Loops,          \* collector loops; their context is the agent's
    Handlers,       \* RPC handlers; their context is the server's
    Health,         \* the goroutine of Agent.run and of the health loop
    Conns,          \* identities of libvirt connections
    Nil,            \* a nil pointer, and nobody
    MaxFaults       \* bound: losses of connections and of libvirtd

Callers == Loops \cup Handlers
Procs == Callers \cup {Health}

ASSUME ProcsAssumption == Health \notin Callers /\ Loops \cap Handlers = {}
ASSUME NilAssumption == Nil \notin Conns /\ Nil \notin Procs
ASSUME BoundAssumption == MaxFaults \in Nat

VARIABLES
    mu, via,    \* ConnManager.mu: the writer that holds it, and the caller of connectLocked
    client,     \* ConnManager.client
    live,       \* connections not disconnected by the agent (external)
    good,       \* connections libvirtd still serves (external)
    up,         \* libvirtd accepts connections (external)
    pc, held,   \* each goroutine: next step, and the client it uses
    libvirtConnected,       \* HealthStatus.libvirtConnected
    started,    \* the first Connect has succeeded and the loops run
    ctxDone, cancelled,     \* the agent's context; goroutines whose context is done
    stopped,    \* the RPC server has been stopped
    closed,     \* Close has returned
    faults      \* consumed bound

connVars == <<client, live, good>>
stopVars == <<ctxDone, cancelled, stopped, closed>>
vars == <<mu, via, client, live, good, up, pc, held, libvirtConnected, started,
          ctxDone, cancelled, stopped, closed, faults>>

\* Agent.run starts with Connect.
Init ==
    /\ mu = Nil /\ via = "run"
    /\ client = Nil /\ live = {} /\ good = {} /\ up \in BOOLEAN
    /\ pc = [p \in Procs |-> IF p = Health THEN "lock" ELSE "idle"]
    /\ held = [p \in Procs |-> Nil]
    /\ libvirtConnected = FALSE /\ started = FALSE
    /\ ctxDone = FALSE /\ cancelled = {} /\ stopped = FALSE /\ closed = FALSE /\ faults = 0

-----------------------------------------------------------------------------
(* libvirtd *)

LibvirtDown ==
    /\ up /\ faults < MaxFaults
    /\ faults' = faults + 1
    /\ up' = FALSE /\ good' = {}
    /\ UNCHANGED <<mu, via, client, live, pc, held, libvirtConnected, started, stopVars>>

LibvirtUp ==
    /\ ~up
    /\ up' = TRUE
    /\ UNCHANGED <<mu, via, connVars, pc, held, libvirtConnected, started, stopVars, faults>>

ConnDrops(c) ==
    /\ c \in good /\ faults < MaxFaults
    /\ faults' = faults + 1
    /\ good' = good \ {c}
    /\ UNCHANGED <<mu, via, client, live, up, pc, held, libvirtConnected, started, stopVars>>

-----------------------------------------------------------------------------
(* ConnManager *)

GoTo(p, step) == pc' = [pc EXCEPT ![p] = step]

\* Client: read the pointer under RLock; with none, connect.  The health loop
\* calls it through Healthy on its ticker.  A handler that starts before the
\* server stops has a fresh context.
ReadClient(p) ==
    /\ pc[p] = "idle" /\ mu = Nil
    /\ started
    /\ IF client # Nil THEN held' = [held EXCEPT ![p] = client] /\ GoTo(p, "use")
                       ELSE held' = held /\ GoTo(p, "lock")
    /\ cancelled' = IF p \in Handlers /\ ~stopped THEN cancelled \ {p} ELSE cancelled
    /\ UNCHANGED <<mu, via, connVars, up, libvirtConnected, started, ctxDone, stopped, closed, faults>>

\* Connect, called by Agent.run or by Client: the write lock, whatever the
\* caller's context says.
LockConnect(p) ==
    /\ pc[p] = "lock" /\ mu = Nil
    /\ mu' = p
    /\ via' = IF started THEN "Client" ELSE "run"
    /\ GoTo(p, "check")
    /\ UNCHANGED <<connVars, up, held, libvirtConnected, started, stopVars, faults>>

\* Mutant of LockReconnect: a client that is there is taken to be fine.
LockReconnectKeeps(p) ==
    /\ pc[p] = "relock" /\ mu = Nil
    /\ IF client = Nil THEN mu' = p /\ GoTo(p, "select")
                       ELSE mu' = mu /\ GoTo(p, "idle")
    /\ via' = "Reconnect"
    /\ UNCHANGED <<connVars, up, held, libvirtConnected, started, stopVars, faults>>

\* Reconnect: drop the client under the write lock, then connect.
LockReconnect(p) ==
    /\ pc[p] = "relock" /\ mu = Nil
    /\ mu' = p /\ via' = "Reconnect"
    /\ live' = live \ {client}
    /\ client' = Nil
    /\ GoTo(p, "select")
    /\ UNCHANGED <<good, up, held, libvirtConnected, started, stopVars, faults>>

\* connectLocked succeeds and the lock is released.  Client reads the pointer
\* again; Agent.run and the health loop have the flag still to set.
Connected(p) ==
    /\ mu' = Nil /\ via' = via
    /\ GoTo(p, IF via = "Client" THEN "reread" ELSE "flag")
    /\ UNCHANGED <<libvirtConnected, started>>

\* Mutant of CheckClient: the dead client is not disconnected.
CheckClientLeaks(p) ==
    /\ pc[p] = "check"
    /\ \/ /\ client \in good
          /\ Connected(p)
          /\ UNCHANGED connVars
       \/ /\ client \notin good
          /\ client' = Nil
          /\ GoTo(p, "select")
          /\ UNCHANGED <<mu, via, live, good, libvirtConnected, started>>
    /\ UNCHANGED <<up, held, stopVars, faults>>

\* connectLocked: somebody else may have connected before the lock was free.
CheckClient(p) ==
    /\ pc[p] = "check"
    /\ \/ /\ client \in good
          /\ Connected(p)
          /\ UNCHANGED connVars
       \/ /\ client \notin good
          /\ live' = live \ {client}
          /\ client' = Nil
          /\ GoTo(p, "select")
          /\ UNCHANGED <<mu, via, good, libvirtConnected, started>>
    /\ UNCHANGED <<up, held, stopVars, faults>>

\* The context is looked at before every dial and during every wait.  When it
\* ends Client inside Healthy, the health loop goes on to Reconnect.
CheckContext(p) ==
    /\ pc[p] = "select"
    /\ p \notin cancelled
    /\ GoTo(p, "dial")
    /\ UNCHANGED <<mu, via, connVars, up, held, libvirtConnected, started, stopVars, faults>>

\* Mutant of ConnectCancelled: the early return does not unlock.
ConnectCancelledLocked(p) ==
    /\ pc[p] \in {"select", "wait"}
    /\ p \in cancelled
    /\ GoTo(p, IF p = Health /\ via = "Client" THEN "clear" ELSE "idle")
    /\ UNCHANGED <<mu, via, connVars, up, held, libvirtConnected, started, stopVars, faults>>

ConnectCancelled(p) ==
    /\ pc[p] \in {"select", "wait"}
    /\ p \in cancelled
    /\ mu' = Nil
    /\ GoTo(p, IF p = Health /\ via = "Client" THEN "clear" ELSE "idle")
    /\ UNCHANGED <<via, connVars, up, held, libvirtConnected, started, stopVars, faults>>

Dial(p, c) ==
    /\ pc[p] = "dial" /\ up
    /\ c \notin live /\ \A q \in Procs : held[q] # c
    /\ client' = c
    /\ live' = live \cup {c} /\ good' = good \cup {c}
    /\ Connected(p)
    /\ UNCHANGED <<up, held, stopVars, faults>>

DialFails(p) ==
    /\ pc[p] = "dial" /\ ~up
    /\ GoTo(p, "wait")
    /\ UNCHANGED <<mu, via, connVars, up, held, libvirtConnected, started, stopVars, faults>>

WaitEnds(p) ==
    /\ pc[p] = "wait"
    /\ GoTo(p, "select")
    /\ UNCHANGED <<mu, via, connVars, up, held, libvirtConnected, started, stopVars, faults>>

\* The end of Client after a connect.
RereadClient(p) ==
    /\ pc[p] = "reread" /\ mu = Nil
    /\ IF client # Nil THEN held' = [held EXCEPT ![p] = client] /\ GoTo(p, "use")
                       ELSE held' = held /\ GoTo(p, IF p = Health THEN "clear" ELSE "idle")
    /\ UNCHANGED <<mu, via, connVars, up, libvirtConnected, started, stopVars, faults>>

\* A libvirt call on the pointer taken earlier; in the health loop the version
\* check, whose verdict decides what happens to the flag.
UseClient(p) ==
    /\ pc[p] = "use"
    /\ held' = [held EXCEPT ![p] = Nil]
    /\ \/ p # Health /\ GoTo(p, "idle")
       \/ p = Health /\ held[p] \in good \cap live /\ GoTo(p, "flag")
       \/ p = Health /\ held[p] \notin good \cap live /\ GoTo(p, "clear")
    /\ UNCHANGED <<mu, via, connVars, up, libvirtConnected, started, stopVars, faults>>

-----------------------------------------------------------------------------
(* The health flag: written after the verdict, outside the manager's lock *)

\* SetLibvirtConnected(true): after the first Connect, which starts the loops,
\* after a good health check, and after Reconnect.  libvirtd may be gone again.
SetConnected(p) ==
    /\ pc[p] = "flag"
    /\ libvirtConnected' = TRUE /\ started' = TRUE
    /\ GoTo(p, "idle")
    /\ UNCHANGED <<mu, via, connVars, up, held, stopVars, faults>>

\* Mutant of ClearConnected: the flag waits for the outcome of Reconnect.
ClearConnectedLater(p) ==
    /\ pc[p] = "clear"
    /\ GoTo(p, "relock")
    /\ UNCHANGED <<mu, via, connVars, up, held, libvirtConnected, started, stopVars, faults>>

\* SetLibvirtConnected(false) after a failed health check, before Reconnect.
ClearConnected(p) ==
    /\ pc[p] = "clear"
    /\ libvirtConnected' = FALSE
    /\ GoTo(p, "relock")
    /\ UNCHANGED <<mu, via, connVars, up, held, started, stopVars, faults>>

-----------------------------------------------------------------------------
(* Cancellation and shutdown *)

\* The caller of an RPC gives up, or its deadline passes.
RPCCancelled(p) ==
    /\ p \in Handlers \ cancelled
    /\ pc[p] # "idle"
    /\ cancelled' = cancelled \cup {p}
    /\ UNCHANGED <<mu, via, connVars, up, pc, held, libvirtConnected, started, ctxDone, stopped, closed, faults>>

\* A signal: Agent.Run cancels the context of the loops.
Cancel ==
    /\ ~ctxDone
    /\ ctxDone' = TRUE
    /\ cancelled' = cancelled \cup Loops \cup {Health}
    /\ UNCHANGED <<mu, via, connVars, up, pc, held, libvirtConnected, started, stopped, closed, faults>>

\* Mutant of StopServer: GracefulStop without Stop waits for the handlers.
StopServerGraceful ==
    /\ ctxDone /\ ~stopped
    /\ \A p \in Handlers : pc[p] = "idle"
    /\ stopped' = TRUE
    /\ cancelled' = cancelled \cup Handlers
    /\ UNCHANGED <<mu, via, connVars, up, pc, held, libvirtConnected, started, ctxDone, closed, faults>>

\* runProbeListener: GracefulStop, after two seconds Stop, which cancels the
\* contexts of the handlers and does not wait for them.
StopServer ==
    /\ ctxDone /\ ~stopped
    /\ stopped' = TRUE
    /\ cancelled' = cancelled \cup Handlers
    /\ UNCHANGED <<mu, via, connVars, up, pc, held, libvirtConnected, started, ctxDone, closed, faults>>

\* The last part of Agent.shutdown, which may find goroutines still at work
\* after the grace period or a second signal.
Close ==
    /\ ctxDone /\ ~closed /\ mu = Nil
    /\ live' = live \ {client}
    /\ client' = Nil
    /\ closed' = TRUE
    /\ libvirtConnected' = FALSE
    /\ UNCHANGED <<mu, via, good, up, pc, held, started, ctxDone, cancelled, stopped, faults>>

-----------------------------------------------------------------------------
Locks(p) == LockConnect(p) \/ LockReconnect(p) \/ RereadClient(p)

Works(p) ==
    \/ CheckClient(p) \/ CheckContext(p) \/ ConnectCancelled(p)
    \/ (\E c \in Conns : Dial(p, c)) \/ DialFails(p) \/ WaitEnds(p) \/ UseClient(p)
    \/ SetConnected(p) \/ ClearConnected(p)

Next ==
    \/ LibvirtDown \/ LibvirtUp \/ \E c \in Conns : ConnDrops(c)
    \/ \E p \in Procs : ReadClient(p) \/ Locks(p) \/ Works(p)
    \/ \E p \in Handlers : RPCCancelled(p)
    \/ Cancel \/ StopServer \/ Close

Spec == Init /\ [][Next]_vars

\* Dials, waits and libvirt calls end; the health ticker keeps firing; waiters
\* for the mutex are not starved; shutdown goes on once it has begun.
FairSpec ==
    /\ Spec
    /\ \A p \in Procs : WF_vars(Works(p)) /\ SF_vars(Locks(p))
    /\ SF_vars(ReadClient(Health))
    /\ WF_vars(StopServer) /\ SF_vars(Close)

-----------------------------------------------------------------------------
(* Properties *)

\* Pointers and program counters have their types; the writer is the only
\* goroutine inside connectLocked; and a goroutine only uses a pointer it took.
TypeOK ==
    /\ mu \in Procs \cup {Nil} /\ via \in {"run", "Client", "Reconnect"}
    /\ client \in Conns \cup {Nil}
    /\ live \in SUBSET Conns /\ good \in SUBSET Conns /\ up \in BOOLEAN
    /\ pc \in [Procs -> {"idle", "lock", "relock", "check", "select", "dial", "wait",
                         "reread", "use", "flag", "clear"}]
    /\ held \in [Procs -> Conns \cup {Nil}]
    /\ libvirtConnected \in BOOLEAN /\ started \in BOOLEAN
    /\ ctxDone \in BOOLEAN /\ stopped \in BOOLEAN /\ closed \in BOOLEAN /\ cancelled \in SUBSET Procs
    /\ faults \in 0..MaxFaults
    /\ \A p \in Procs : mu = p <=> pc[p] \in {"check", "select", "dial", "wait"}
    /\ \A p \in Procs : held[p] # Nil <=> pc[p] = "use"

\* ConnManager "owns a single libvirt RPC connection": whoever connects,
\* reconnects or closes, and however often, the client is the only connection
\* left open, and no lost client is left undisconnected.
SingleConnection == live = {client} \ {Nil}

\* Once libvirtd stays up the agent recovers by itself: in the end there is a
\* working client for good and the health flag says so, although no collector
\* ever reports a broken client.
Recovers ==
    <>[](up /\ ~ctxDone) => <>[](client \in good /\ libvirtConnected)

\* An outage that does not end shows in the health flag, also when libvirtd
\* went down between a good verdict and the write of the flag: the next check
\* fails, the flag is cleared before Reconnect, which then keeps dialling, and
\* nobody sets it in the meantime.
OutageShows == <>[](~up /\ ~ctxDone) => <>[]~libvirtConnected

\* Shutdown gets the lock, also from a goroutine that keeps dialling a libvirtd
\* that is down: its context is cancelled, be it a loop or a handler.
CloseReturns == ctxDone ~> closed
=============================================================================
