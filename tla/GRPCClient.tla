----------------------------- MODULE GRPCClient -----------------------------
(***************************************************************************)
(* The stream sink (internal/stream/grpc_client.go): one mutex, one        *)
(* client connection, one lazily opened client stream per kind of metrics  *)
(* frame, and unary calls for hardware info and VM info.  The scheduler's  *)
(* loops call it concurrently; agent shutdown cancels their context and    *)
(* closes it, possibly while loops are still in a call.                    *)
(*                                                                         *)
(* The five send functions are the same loop and differ in whether they    *)
(* need a stream.  The mutex is held from the first attempt to the last,   *)
(* through dials and backoffs.  Method names are constants of factory.go,  *)
(* so the branches for empty names are dead; so is the one for a           *)
(* connection in state Shutdown, which only its Close produces.            *)
(***************************************************************************)
EXTENDS Naturals

CONSTANTS
    Loops,          \* goroutines that call the sink
    StreamKinds,    \* frames sent on a stream: node, vm, vm runtime
    UnaryKinds,     \* frames sent by Invoke: node hardware, vm info
    Conns,          \* identities of client connections
    Nil,            \* a nil pointer, and nobody
    MaxRetries,     \* GRPCClient.maxRetries
    MaxFaults       \* bound: outages of the backend and single failures

Kinds == StreamKinds \cup UnaryKinds

ASSUME KindsAssumption == StreamKinds \cap UnaryKinds = {}
ASSUME NilAssumption == Nil \notin Conns /\ Nil \notin Loops
ASSUME RetriesAssumption == MaxRetries \in Nat \ {0} /\ MaxFaults \in Nat

VARIABLES
    mu,         \* GRPCClient.mu: the loop that holds it
    conn,       \* GRPCClient.conn
    stream,     \* nodeStream, vmStream, vmRuntimeStream: the connection of each
    live,       \* connections that were dialled and not closed (external)
    broken,     \* streams whose next SendMsg fails (external)
    net,        \* the backend answers, is unreachable, or hangs (external)
    pc, kind, attempt, result,      \* each loop's call
    ctxDone,    \* the context of the loops is cancelled
    closed,     \* Close has returned
    faults      \* consumed bound

connVars == <<conn, stream, live, broken>>
callVars == <<pc, kind, attempt, result>>
vars == <<mu, conn, stream, live, broken, net, pc, kind, attempt, result,
          ctxDone, closed, faults>>

NoStreams == [k \in StreamKinds |-> Nil]

Init ==
    /\ mu = Nil /\ conn = Nil /\ stream = NoStreams
    /\ live = {} /\ broken = {} /\ net \in {"up", "down"}
    /\ pc = [l \in Loops |-> "idle"] /\ kind \in [Loops -> Kinds]
    /\ attempt = [l \in Loops |-> 1] /\ result = [l \in Loops |-> "ok"]
    /\ ctxDone = FALSE /\ closed = FALSE /\ faults = 0

-----------------------------------------------------------------------------
(* The backend *)

\* The backend goes away, or keeps its connections and stops reading them.
BackendFails(state) ==
    /\ net = "up" /\ faults < MaxFaults
    /\ faults' = faults + 1
    /\ net' = state
    /\ UNCHANGED <<mu, connVars, callVars, ctxDone, closed>>

\* A connection redials by itself; its streams do not survive an outage, but
\* may survive a hang.
BackendUp ==
    /\ net # "up"
    /\ net' = "up"
    /\ \/ broken' = {k \in StreamKinds : stream[k] # Nil}
       \/ net = "hung" /\ broken' = broken
    /\ UNCHANGED <<mu, conn, stream, live, callVars, ctxDone, closed, faults>>

\* The backend ends one stream.
StreamEnds(k) ==
    /\ stream[k] # Nil /\ k \notin broken
    /\ faults < MaxFaults
    /\ faults' = faults + 1
    /\ broken' = broken \cup {k}
    /\ UNCHANGED <<mu, conn, stream, live, net, callVars, ctxDone, closed>>

-----------------------------------------------------------------------------
(* A call of one loop *)

\* SendNodeMetrics, SendVMMetrics, SendVMRuntimeMetrics, SendNodeHardwareInfo,
\* SendVMInfoSync: wait for the mutex.  A ticker loop may pick its ticker once
\* more after the context is cancelled.
Call(l, k) ==
    /\ pc[l] = "idle"
    /\ pc' = [pc EXCEPT ![l] = "lock"]
    /\ kind' = [kind EXCEPT ![l] = k]
    /\ UNCHANGED <<mu, connVars, net, attempt, result, ctxDone, closed, faults>>

Lock(l) ==
    /\ pc[l] = "lock" /\ mu = Nil
    /\ mu' = l
    /\ pc' = [pc EXCEPT ![l] = "ensure"]
    /\ attempt' = [attempt EXCEPT ![l] = 1]
    /\ UNCHANGED <<connVars, net, kind, result, ctxDone, closed, faults>>

\* Mutant of Return: the mutex is not released on the error path.
ReturnLocked(l, r) ==
    /\ mu' = IF r = "error" THEN mu ELSE Nil
    /\ pc' = [pc EXCEPT ![l] = "idle"]
    /\ result' = [result EXCEPT ![l] = r]

Return(l, r) ==
    /\ mu' = Nil
    /\ pc' = [pc EXCEPT ![l] = "idle"]
    /\ result' = [result EXCEPT ![l] = r]

\* Where an attempt goes once there is a connection.
AfterEnsure(l) == IF kind[l] \in StreamKinds THEN "open" ELSE "invoke"

\* Mutant of Dial: the context is not passed on to DialContext.
DialWithoutContext(l, c) ==
    /\ pc[l] = "ensure" /\ conn = Nil
    /\ net = "up"
    /\ c \notin live /\ \A k \in StreamKinds : stream[k] # c
    /\ conn' = c
    /\ live' = live \cup {c}
    /\ pc' = [pc EXCEPT ![l] = AfterEnsure(l)]
    /\ UNCHANGED <<mu, stream, broken, net, kind, attempt, result, ctxDone, closed, faults>>

\* ensureConnLocked: reuse the connection, or dial with the caller's context.
ReuseConn(l) ==
    /\ pc[l] = "ensure" /\ conn # Nil
    /\ pc' = [pc EXCEPT ![l] = AfterEnsure(l)]
    /\ UNCHANGED <<mu, connVars, net, kind, attempt, result, ctxDone, closed, faults>>

Dial(l, c) ==
    /\ pc[l] = "ensure" /\ conn = Nil
    /\ net = "up" /\ ~ctxDone
    /\ c \notin live /\ \A k \in StreamKinds : stream[k] # c
    /\ conn' = c
    /\ live' = live \cup {c}
    /\ pc' = [pc EXCEPT ![l] = AfterEnsure(l)]
    /\ UNCHANGED <<mu, stream, broken, net, kind, attempt, result, ctxDone, closed, faults>>

\* The loop's stream, if it has to be opened, is opened on the connection.
ReuseStream(l) ==
    /\ pc[l] = "open" /\ stream[kind[l]] # Nil
    /\ pc' = [pc EXCEPT ![l] = "sendmsg"]
    /\ UNCHANGED <<mu, connVars, net, kind, attempt, result, ctxDone, closed, faults>>

OpenStream(l) ==
    /\ pc[l] = "open" /\ stream[kind[l]] = Nil
    /\ net # "down" /\ ~ctxDone
    /\ stream' = [stream EXCEPT ![kind[l]] = conn]
    /\ pc' = [pc EXCEPT ![l] = "sendmsg"]
    /\ UNCHANGED <<mu, conn, live, broken, net, kind, attempt, result, ctxDone, closed, faults>>

\* SendMsg returns nil once the frame is buffered, even when the backend has
\* just gone away.  A hung backend leaves it waiting for flow control, or lets
\* it buffer one more frame.  It fails on a stream that has ended or whose
\* connection is closed.
SendMsgReturns(l) ==
    /\ pc[l] = "sendmsg"
    /\ kind[l] \notin broken /\ stream[kind[l]] \in live
    /\ Return(l, "ok")
    /\ UNCHANGED <<connVars, net, kind, attempt, ctxDone, closed, faults>>
SendMsg(l) == net # "hung" /\ SendMsgReturns(l)
SendMsgBuffered(l) == net = "hung" /\ SendMsgReturns(l)

\* Invoke has no deadline: it waits for as long as the backend hangs.
Invoke(l) ==
    /\ pc[l] = "invoke"
    /\ net = "up" /\ conn \in live
    /\ Return(l, "ok")
    /\ UNCHANGED <<connVars, net, kind, attempt, ctxDone, closed, faults>>

\* Mutant of CannotProceed: the caller's context is not part of the call.
CannotProceedNoContext(l) ==
    \/ net = "down"
    \/ pc[l] = "ensure" /\ (net = "hung" \/ ctxDone)
    \/ pc[l] = "sendmsg" /\ (kind[l] \in broken \/ stream[kind[l]] \notin live)

\* What makes a step of an attempt fail for certain.  Only the dial has a
\* timeout of its own; the other calls end with the context.
CannotProceed(l) ==
    \/ net = "down"
    \/ ctxDone
    \/ pc[l] = "ensure" /\ net = "hung"
    \/ pc[l] = "sendmsg" /\ (kind[l] \in broken \/ stream[kind[l]] \notin live)

\* Mutants of ResetConn: the streams are kept; the connection is not closed.
ResetConnOnly ==
    /\ stream' = stream /\ broken' = broken
    /\ live' = live \ {conn}
    /\ conn' = Nil
ResetConnLeaks ==
    /\ stream' = NoStreams /\ broken' = {}
    /\ live' = live
    /\ conn' = Nil

\* resetConnLocked: all streams go with the connection.
ResetConn ==
    /\ stream' = NoStreams /\ broken' = {}
    /\ live' = live \ {conn}
    /\ conn' = Nil

\* Mutant of AttemptFails: only the streaming sends reset the connection.
AttemptFailsUnaryKeeps(l) ==
    /\ \/ pc[l] = "ensure" /\ conn = Nil
       \/ pc[l] = "open" /\ stream[kind[l]] = Nil
       \/ pc[l] \in {"sendmsg", "invoke"}
    /\ \/ CannotProceed(l) /\ faults' = faults
       \/ faults < MaxFaults /\ faults' = faults + 1
    /\ IF pc[l] = "invoke" THEN UNCHANGED connVars ELSE ResetConn
    /\ pc' = [pc EXCEPT ![l] = "wait"]
    /\ UNCHANGED <<mu, net, kind, attempt, result, ctxDone, closed>>

\* A dial, an open or a send fails: everything is reset before the backoff.
AttemptFails(l) ==
    /\ \/ pc[l] = "ensure" /\ conn = Nil
       \/ pc[l] = "open" /\ stream[kind[l]] = Nil
       \/ pc[l] \in {"sendmsg", "invoke"}
    /\ \/ CannotProceed(l) /\ faults' = faults
       \/ faults < MaxFaults /\ faults' = faults + 1
    /\ ResetConn
    /\ pc' = [pc EXCEPT ![l] = "wait"]
    /\ UNCHANGED <<mu, net, kind, attempt, result, ctxDone, closed>>

\* Mutant of WaitRetry: the last attempt is followed by another one.
WaitRetryForever(l) ==
    /\ pc[l] = "wait"
    /\ attempt' = [attempt EXCEPT ![l] = IF @ < MaxRetries THEN @ + 1 ELSE @]
    /\ pc' = [pc EXCEPT ![l] = "ensure"]
    /\ UNCHANGED <<mu, connVars, net, kind, result, ctxDone, closed, faults>>

\* waitRetryLocked: the backoff elapses and there is an attempt left.
WaitRetry(l) ==
    /\ pc[l] = "wait" /\ attempt[l] < MaxRetries
    /\ attempt' = [attempt EXCEPT ![l] = @ + 1]
    /\ pc' = [pc EXCEPT ![l] = "ensure"]
    /\ UNCHANGED <<mu, connVars, net, kind, result, ctxDone, closed, faults>>

\* No attempt is left, or the context ends the backoff.
GiveUp(l) ==
    /\ pc[l] = "wait" /\ (attempt[l] >= MaxRetries \/ ctxDone)
    /\ Return(l, "error")
    /\ UNCHANGED <<connVars, net, kind, attempt, ctxDone, closed, faults>>

-----------------------------------------------------------------------------
(* Shutdown *)

\* Agent.Run cancels the context of the loops before it calls shutdown.
Cancel ==
    /\ ~ctxDone
    /\ ctxDone' = TRUE
    /\ UNCHANGED <<mu, connVars, net, callVars, closed, faults>>

\* Agent.shutdown calls Close when the loops have returned, the grace period
\* is over or a second signal arrived: loops may still be in a call.
Close ==
    /\ ctxDone /\ ~closed /\ mu = Nil
    /\ stream' = NoStreams /\ broken' = {}
    /\ live' = live \ {conn}
    /\ conn' = Nil
    /\ closed' = TRUE
    /\ UNCHANGED <<mu, net, callVars, ctxDone, faults>>

-----------------------------------------------------------------------------
Attempt(l) ==
    \/ ReuseConn(l) \/ (\E c \in Conns : Dial(l, c))
    \/ ReuseStream(l) \/ OpenStream(l) \/ SendMsg(l) \/ Invoke(l)
    \/ AttemptFails(l) \/ WaitRetry(l) \/ GiveUp(l)

Next ==
    \/ BackendFails("down") \/ BackendFails("hung") \/ BackendUp
    \/ \E k \in StreamKinds : StreamEnds(k)
    \/ \E l \in Loops, k \in Kinds : Call(l, k)
    \/ \E l \in Loops : Lock(l) \/ Attempt(l) \/ SendMsgBuffered(l)
    \/ Cancel \/ Close

Spec == Init /\ [][Next]_vars

\* Dials and backoffs have timeouts, and streams and calls end unless the
\* backend hangs; tickers keep calling until the context is cancelled;
\* sync.Mutex does not starve a waiter, be it a loop or Close.
FairSpec ==
    /\ Spec
    /\ \A l \in Loops : /\ WF_vars(Attempt(l))
                        /\ SF_vars(Lock(l))
                        /\ WF_vars(~ctxDone /\ \E k \in Kinds : Call(l, k))
    /\ SF_vars(Close)

-----------------------------------------------------------------------------
(* Properties *)

\* Pointers, counters and program counters have their types, at most one loop
\* is inside the client, and it is the one that holds the mutex.
TypeOK ==
    /\ mu \in Loops \cup {Nil} /\ conn \in Conns \cup {Nil}
    /\ stream \in [StreamKinds -> Conns \cup {Nil}]
    /\ live \in SUBSET Conns /\ broken \in SUBSET StreamKinds
    /\ net \in {"up", "down", "hung"} /\ ctxDone \in BOOLEAN /\ closed \in BOOLEAN
    /\ pc \in [Loops -> {"idle", "lock", "ensure", "open", "sendmsg", "invoke", "wait"}]
    /\ kind \in [Loops -> Kinds]
    /\ attempt \in [Loops -> 1..MaxRetries]
    /\ result \in [Loops -> {"ok", "error"}]
    /\ faults \in 0..MaxFaults
    /\ \A l \in Loops : mu = l <=> pc[l] \notin {"idle", "lock"}

\* Whatever failed, an open stream belongs to the connection the client holds:
\* resetConnLocked and Close never leave one behind for the next attempt.
StreamsOnConn == \A k \in StreamKinds : stream[k] \in {Nil, conn}

\* The connection the client points to is open, and it is the only open one:
\* no retry leaks a connection.
OneConnection == live = {conn} \ {Nil}

\* After Close no connection is opened again, although the client keeps no
\* closed flag and loops that outlive the grace period still call it: the
\* cancelled context stops their dials.
ClosedForGood == closed => conn = Nil /\ live = {}

\* Every call returns, unless the backend hangs for good: a loop gets the
\* mutex and leaves it after at most maxRetries attempts, whatever fails.
CallsReturn ==
    []<>(net # "hung") => \A l \in Loops : pc[l] # "idle" ~> pc[l] = "idle"

\* Shutdown does not get stuck behind a loop that holds the mutex, even one
\* that waits for a backend that hangs: cancelling the context frees it.
CloseReturns == ctxDone ~> closed

\* Once the backend answers for good the client heals: from some point on no
\* call reports an error, although streams broke and a reset drops them all.
Recovers ==
    <>[](net = "up" /\ ~ctxDone) => <>[](\A l \in Loops : result[l] = "ok")

-----------------------------------------------------------------------------
(* What the sink promises to the agent *)

\* What a caller can tell of its call: it waits for the mutex, is served, or
\* has its answer.
CallPhase(l) ==
    CASE pc[l] = "idle" -> result[l]
      [] pc[l] = "lock" -> "waiting"
      [] OTHER          -> "served"

AbstractSink == INSTANCE Sink WITH
    phase <- [l \in Loops |-> CallPhase(l)],
    session <- conn # Nil,
    backend <- net,
    cancelled <- ctxDone

\* The client with its mutex, streams, resets and retries is a sink: one caller
\* is served at a time, success is reported over a session only, an error never
\* leaves a half-dead session to the next caller, and no call that outlives
\* Close establishes one.
ImplementsSink == AbstractSink!Spec
=============================================================================
