-------------------------------- MODULE Sink --------------------------------
(***************************************************************************)
(* What the agent may rely on when it sends: the interface stream.Sink     *)
(* (internal/stream/encoder.go) without the connection, the streams, the   *)
(* retries and the mutex that GRPCClient implements it with.               *)
(*                                                                         *)
(* A loop calls, is served alone, and gets one answer.  A session with the *)
(* backend is established on demand; an answer "ok" needs one, an error    *)
(* leaves none behind, and once the sink is closed there never is one.     *)
(***************************************************************************)
CONSTANT Loops      \* goroutines that call the sink

VARIABLES
    phase,      \* each loop: waiting for its turn, served, or its last answer
    session,    \* there is a session with the backend
    backend,    \* the backend answers, is unreachable, or hangs (external)
    cancelled,  \* the context of the loops is cancelled
    closed      \* Close has returned

Idle == {"ok", "error"}
vars == <<phase, session, backend, cancelled, closed>>

Init ==
    /\ phase = [l \in Loops |-> "ok"]
    /\ session = FALSE /\ backend \in {"up", "down", "hung"}
    /\ cancelled = FALSE /\ closed = FALSE

BackendChanges(state) ==
    /\ backend # state
    /\ backend' = state
    /\ UNCHANGED <<phase, session, cancelled, closed>>

\* One of the five sends.
Call(l) ==
    /\ phase[l] \in Idle
    /\ phase' = [phase EXCEPT ![l] = "waiting"]
    /\ UNCHANGED <<session, backend, cancelled, closed>>

Free == \A l \in Loops : phase[l] # "served"

Serve(l) ==
    /\ phase[l] = "waiting" /\ Free
    /\ phase' = [phase EXCEPT ![l] = "served"]
    /\ UNCHANGED <<session, backend, cancelled, closed>>

\* A session needs the backend and a context that is not cancelled.
Connect(l) ==
    /\ phase[l] = "served"
    /\ ~session /\ backend = "up" /\ ~cancelled
    /\ session' = TRUE
    /\ UNCHANGED <<phase, backend, cancelled, closed>>

\* An attempt fails and takes the session with it, for all loops.
Lose(l) ==
    /\ phase[l] = "served"
    /\ session
    /\ session' = FALSE
    /\ UNCHANGED <<phase, backend, cancelled, closed>>

Answer(l, r) ==
    /\ phase' = [phase EXCEPT ![l] = r]
    /\ UNCHANGED <<session, backend, cancelled, closed>>

\* The frame is sent, or buffered for a backend that is gone.
Succeed(l) == phase[l] = "served" /\ session /\ Answer(l, "ok")

\* All attempts failed.
GiveUp(l) == phase[l] = "served" /\ ~session /\ Answer(l, "error")

Cancel ==
    /\ ~cancelled
    /\ cancelled' = TRUE
    /\ UNCHANGED <<phase, session, backend, closed>>

Close ==
    /\ cancelled /\ ~closed /\ Free
    /\ session' = FALSE /\ closed' = TRUE
    /\ UNCHANGED <<phase, backend, cancelled>>

Next ==
    \/ \E s \in {"up", "down", "hung"} : BackendChanges(s)
    \/ \E l \in Loops : \/ Call(l) \/ Serve(l) \/ Connect(l) \/ Lose(l)
                        \/ Succeed(l) \/ GiveUp(l)
    \/ Cancel \/ Close

Spec == Init /\ [][Next]_vars
=============================================================================
