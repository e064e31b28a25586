-------------------------- MODULE GRPCClientProofs --------------------------
(***************************************************************************)
(* Safety of the stream sink for any number of loops, kinds of frames and  *)
(* retries: no stream outlives its connection, no connection leaks, and    *)
(* none is opened after Close.                                             *)
(***************************************************************************)
EXTENDS GRPCClient, TLAPS

\* A loop past ensureConnLocked has a connection to open its stream on.
Connected ==
    \A l \in Loops : pc[l] \in {"open", "sendmsg", "invoke"} => conn # Nil

\* A failed attempt leaves no connection, also while other loops are waiting.
Reset == \A l \in Loops : pc[l] = "wait" => conn = Nil

\* Close only runs once the loops' context is cancelled.
ClosedAfterCancel == closed => ctxDone

IInv ==
    /\ TypeOK
    /\ StreamsOnConn
    /\ OneConnection
    /\ ClosedForGood
    /\ Connected
    /\ Reset
    /\ ClosedAfterCancel

\* The initial states satisfy the invariant.
LEMMA InitInv == Init => IInv
<1> SUFFICES ASSUME Init PROVE IInv
  OBVIOUS
<1>1. 1 \in 1..MaxRetries /\ 0 \in 0..MaxFaults
  BY RetriesAssumption
<1>2. stream \in [StreamKinds -> Conns \cup {Nil}]
  BY DEF Init, NoStreams
<1>3. TypeOK
  BY <1>1, <1>2, NilAssumption DEF Init, TypeOK
<1>4. StreamsOnConn /\ OneConnection /\ ClosedForGood
  BY DEF Init, StreamsOnConn, OneConnection, ClosedForGood, NoStreams
<1>5. Connected /\ Reset /\ ClosedAfterCancel
  BY DEF Init, Connected, Reset, ClosedAfterCancel
<1>6. QED BY <1>3, <1>4, <1>5 DEF IInv

\* The backend touches no pointer of the client.
LEMMA BackendInv ==
    ASSUME IInv,
           \/ BackendFails("down") \/ BackendFails("hung") \/ BackendUp
           \/ \E k \in StreamKinds : StreamEnds(k)
    PROVE  IInv'
BY RetriesAssumption
DEF IInv, TypeOK, StreamsOnConn, OneConnection, ClosedForGood, Connected, Reset, ClosedAfterCancel,
    BackendFails, BackendUp, StreamEnds, connVars, callVars

\* A loop enters the client only when the mutex is free.
LEMMA EnterInv ==
    ASSUME IInv, NEW l \in Loops, (\E k \in Kinds : Call(l, k)) \/ Lock(l)
    PROVE  IInv'
<1> USE DEF IInv, StreamsOnConn, OneConnection, ClosedForGood, Connected, Reset, ClosedAfterCancel,
            connVars, callVars
<1>1. ASSUME NEW k \in Kinds, Call(l, k) PROVE IInv'
  <2>1. TypeOK'
    BY <1>1, NilAssumption DEF Call, TypeOK
  <2>2. QED BY <1>1, <2>1 DEF Call, TypeOK
<1>2. CASE Lock(l)
  <2>1. TypeOK'
    BY <1>2, NilAssumption, RetriesAssumption DEF Lock, TypeOK
  <2>2. QED BY <1>2, <2>1 DEF Lock, TypeOK
<1>3. QED BY <1>1, <1>2

\* Getting the connection and the stream of an attempt.
LEMMA OpenInv ==
    ASSUME IInv, NEW l \in Loops,
           \/ ReuseConn(l) \/ (\E c \in Conns : Dial(l, c))
           \/ ReuseStream(l) \/ OpenStream(l)
    PROVE  IInv'
<1> USE DEF IInv, StreamsOnConn, OneConnection, ClosedForGood, Connected, Reset, ClosedAfterCancel,
            connVars, callVars, TypeOK
<1>1. CASE ReuseConn(l)
  BY <1>1, NilAssumption DEF ReuseConn, AfterEnsure
<1>2. ASSUME NEW c \in Conns, Dial(l, c) PROVE IInv'
  <2>1. conn = Nil /\ live = {} /\ conn' = c /\ live' = {c} /\ c # Nil /\ ~ctxDone
    BY <1>2, NilAssumption DEF Dial
  <2>2. TypeOK'
    BY <1>2, <2>1, NilAssumption DEF Dial, AfterEnsure
  <2>3. Connected' /\ Reset'
    <3>1. \A m \in Loops : m # l => pc'[m] = pc[m] /\ pc[m] \in {"idle", "lock"}
      BY <1>2 DEF Dial
    <3>2. pc'[l] \in {"open", "invoke"} /\ conn' # Nil
      BY <1>2, <2>1 DEF Dial, AfterEnsure
    <3>3. QED BY <3>1, <3>2
  <2>4. QED BY <1>2, <2>1, <2>2, <2>3, NilAssumption DEF Dial
<1>3. CASE ReuseStream(l)
  BY <1>3, NilAssumption DEF ReuseStream
<1>4. CASE OpenStream(l)
  <2>1. TypeOK'
    BY <1>4, NilAssumption DEF OpenStream
  <2>2. QED BY <1>4, <2>1, NilAssumption DEF OpenStream
<1>5. QED BY <1>1, <1>2, <1>3, <1>4

\* The end of an attempt: success, failure with a reset, backoff, giving up.
LEMMA FinishInv ==
    ASSUME IInv, NEW l \in Loops,
           \/ SendMsgReturns(l) \/ Invoke(l)
           \/ AttemptFails(l) \/ WaitRetry(l) \/ GiveUp(l)
    PROVE  IInv'
<1> USE DEF IInv, StreamsOnConn, OneConnection, ClosedForGood, Connected, Reset, ClosedAfterCancel,
            connVars, callVars, TypeOK
<1>1. CASE SendMsgReturns(l) \/ Invoke(l) \/ GiveUp(l)
  <2>1. TypeOK'
    BY <1>1, NilAssumption DEF SendMsgReturns, Invoke, GiveUp, Return
  <2>2. QED BY <1>1, <2>1 DEF SendMsgReturns, Invoke, GiveUp, Return
<1>2. CASE AttemptFails(l)
  <2>1. /\ stream' = [k \in StreamKinds |-> Nil] /\ broken' = {}
        /\ live' = {} /\ conn' = Nil
    BY <1>2 DEF AttemptFails, ResetConn, NoStreams
  <2>2. faults' \in 0..MaxFaults
    BY <1>2, RetriesAssumption DEF AttemptFails
  <2>3. /\ mu = l /\ mu' = mu /\ pc' = [pc EXCEPT ![l] = "wait"]
        /\ UNCHANGED <<net, kind, attempt, result, ctxDone, closed>>
    BY <1>2 DEF AttemptFails
  <2>4. TypeOK'
    BY <2>1, <2>2, <2>3, NilAssumption
  <2>5. QED BY <2>1, <2>3, <2>4, NilAssumption
<1>3. CASE WaitRetry(l)
  <2>1. attempt' \in [Loops -> 1..MaxRetries]
    BY <1>3, RetriesAssumption DEF WaitRetry
  <2>2. TypeOK'
    BY <1>3, <2>1, NilAssumption DEF WaitRetry
  <2>3. QED BY <1>3, <2>2 DEF WaitRetry
<1>4. QED BY <1>1, <1>2, <1>3

\* Shutdown: Close finds the mutex free, so no loop relies on the connection.
LEMMA ShutdownInv ==
    ASSUME IInv, Cancel \/ Close
    PROVE  IInv'
<1> USE DEF IInv, TypeOK, StreamsOnConn, OneConnection, ClosedForGood, Connected, Reset,
            ClosedAfterCancel, connVars, callVars
<1>1. CASE Cancel
  BY <1>1 DEF Cancel
<1>2. CASE Close
  <2>1. /\ stream' = [k \in StreamKinds |-> Nil] /\ broken' = {}
        /\ live' = {} /\ conn' = Nil
    BY <1>2 DEF Close, NoStreams
  <2>2. TypeOK'
    BY <1>2, <2>1 DEF Close
  <2>3. Connected'
    BY <1>2, NilAssumption DEF Close
  <2>4. QED BY <1>2, <2>1, <2>2, <2>3 DEF Close
<1>3. QED BY <1>1, <1>2

\* The invariant is inductive.
LEMMA NextInv == IInv /\ [Next]_vars => IInv'
<1> SUFFICES ASSUME IInv, [Next]_vars PROVE IInv'
  OBVIOUS
<1>1. CASE UNCHANGED vars
  BY <1>1 DEF vars, IInv, TypeOK, StreamsOnConn, OneConnection, ClosedForGood, Connected, Reset,
              ClosedAfterCancel
<1>2. ASSUME NEW l \in Loops, Attempt(l) \/ SendMsgBuffered(l) PROVE IInv'
  BY <1>2, OpenInv, FinishInv DEF Attempt, SendMsg, SendMsgBuffered
<1>3. QED
  BY <1>1, <1>2, BackendInv, EnterInv, ShutdownInv DEF Next

\* The whole invariant holds in every reachable state.
LEMMA Invariance == Spec => []IInv
BY InitInv, NextInv, PTL DEF Spec

\* Mutual exclusion of the loops and the types of the client's state.
THEOREM TypeCorrect == Spec => []TypeOK
BY Invariance, PTL DEF IInv

\* No stream outlives the connection it was opened on, however many loops fail,
\* reset and retry.
THEOREM StreamsBelongToConn == Spec => []StreamsOnConn
BY Invariance, PTL DEF IInv

\* No retry and no shutdown leaks a connection.
THEOREM NoLeakedConnection == Spec => []OneConnection
BY Invariance, PTL DEF IInv

\* A loop that outlives the grace period cannot reopen the closed client.
THEOREM ClosedStaysClosed == Spec => []ClosedForGood
BY Invariance, PTL DEF IInv

-----------------------------------------------------------------------------
(* The client implements the abstract sink *)

\* The phases of all callers, as one function.
Phases == [l \in Loops |-> CallPhase(l)]

\* The mutex is free exactly when no caller is served.
LEMMA FreeMutex == ASSUME TypeOK PROVE mu = Nil <=> AbstractSink!Free
<1>1. \A l \in Loops : CallPhase(l) = "served" <=> pc[l] \notin {"idle", "lock"}
  BY DEF TypeOK, CallPhase
<1>2. QED BY <1>1, NilAssumption DEF TypeOK, AbstractSink!Free

\* The client's initial states are initial states of a sink.
LEMMA InitRefines == Init => AbstractSink!Init
BY DEF Init, AbstractSink!Init, CallPhase

\* Every step of the client is a step of the sink or changes nothing a caller
\* could observe.
LEMMA NextRefines ==
    IInv /\ [Next]_vars => [AbstractSink!Next]_AbstractSink!vars
<1> SUFFICES ASSUME IInv, [Next]_vars
             PROVE  AbstractSink!Next \/ UNCHANGED AbstractSink!vars
  OBVIOUS
<1> USE DEF IInv, AbstractSink!vars, AbstractSink!Idle, connVars, callVars
<1>p. /\ UNCHANGED <<pc, result>> => UNCHANGED Phases
      /\ Phases = [l \in Loops |-> CallPhase(l)]
  BY DEF Phases, CallPhase
<1>1. CASE UNCHANGED vars
  BY <1>1, <1>p DEF vars, Phases
<1>2. CASE BackendFails("down") \/ BackendFails("hung") \/ BackendUp
  <2>1. \E s \in {"up", "down", "hung"} : AbstractSink!BackendChanges(s)
    BY <1>2, <1>p DEF BackendFails, BackendUp, AbstractSink!BackendChanges, Phases
  <2>2. QED BY <2>1 DEF AbstractSink!Next
<1>3. ASSUME NEW k \in StreamKinds, StreamEnds(k)
      PROVE  UNCHANGED AbstractSink!vars
  BY <1>3, <1>p DEF StreamEnds, Phases
<1>4. ASSUME NEW l \in Loops, NEW k \in Kinds, Call(l, k) PROVE AbstractSink!Next
  <2>1. Phases' = [Phases EXCEPT ![l] = "waiting"] /\ Phases[l] \in {"ok", "error"}
    BY <1>4 DEF Call, Phases, CallPhase, TypeOK
  <2>2. AbstractSink!Call(l)
    BY <1>4, <2>1 DEF Call, AbstractSink!Call, Phases
  <2>3. QED BY <2>2 DEF AbstractSink!Next
<1>5. ASSUME NEW l \in Loops, Lock(l) PROVE AbstractSink!Next
  <2>1. Phases' = [Phases EXCEPT ![l] = "served"] /\ Phases[l] = "waiting"
    BY <1>5 DEF Lock, Phases, CallPhase, TypeOK
  <2>2. AbstractSink!Serve(l)
    BY <1>5, <2>1, FreeMutex DEF Lock, AbstractSink!Serve, Phases
  <2>3. QED BY <2>2 DEF AbstractSink!Next
<1>6. ASSUME NEW l \in Loops, Attempt(l) \/ SendMsgBuffered(l)
      PROVE  AbstractSink!Next \/ UNCHANGED AbstractSink!vars
  <2>s. ASSUME pc[l] \notin {"idle", "lock"},
               NEW p \in {"ensure", "open", "sendmsg", "invoke", "wait"},
               pc' = [pc EXCEPT ![l] = p], result' = result
        PROVE  UNCHANGED Phases /\ Phases[l] = "served"
    BY <2>s DEF Phases, CallPhase, TypeOK
  <2>r. ASSUME NEW r, Return(l, r), pc[l] \notin {"idle", "lock"}
        PROVE  Phases' = [Phases EXCEPT ![l] = r] /\ Phases[l] = "served"
    BY <2>r DEF Return, Phases, CallPhase, TypeOK
  <2>1. CASE ReuseConn(l) \/ ReuseStream(l) \/ OpenStream(l) \/ WaitRetry(l)
    BY <2>1, <2>s DEF ReuseConn, ReuseStream, OpenStream, WaitRetry, AfterEnsure, Phases
  <2>2. ASSUME NEW c \in Conns, Dial(l, c) PROVE AbstractSink!Connect(l)
    BY <2>2, <2>s, NilAssumption DEF Dial, AfterEnsure, AbstractSink!Connect, Phases
  <2>3. CASE AttemptFails(l)
    <3>1. UNCHANGED Phases /\ Phases[l] = "served"
      BY <2>3, <2>s DEF AttemptFails
    <3>2. conn' = Nil /\ UNCHANGED <<net, result, ctxDone, closed>>
      BY <2>3 DEF AttemptFails, ResetConn
    <3>3. CASE conn = Nil
      BY <3>1, <3>2, <3>3 DEF Phases
    <3>4. CASE conn # Nil
      <4>1. AbstractSink!Lose(l)
        BY <3>1, <3>2, <3>4 DEF AbstractSink!Lose, Phases
      <4>2. QED BY <4>1 DEF AbstractSink!Next
    <3>5. QED BY <3>3, <3>4
  <2>4. CASE SendMsgReturns(l) \/ Invoke(l)
    <3>1. conn # Nil /\ conn' = conn /\ pc[l] \notin {"idle", "lock"} /\ Return(l, "ok")
      BY <2>4 DEF SendMsgReturns, Invoke, Connected
    <3>2. AbstractSink!Succeed(l)
      BY <2>4, <2>r, <3>1
      DEF SendMsgReturns, Invoke, Return, AbstractSink!Succeed, AbstractSink!Answer, Phases
    <3>3. QED BY <3>2 DEF AbstractSink!Next
  <2>5. CASE GiveUp(l)
    <3>1. conn = Nil /\ conn' = conn /\ pc[l] \notin {"idle", "lock"} /\ Return(l, "error")
      BY <2>5 DEF GiveUp, Reset
    <3>2. AbstractSink!GiveUp(l)
      BY <2>5, <2>r, <3>1
      DEF GiveUp, Return, AbstractSink!GiveUp, AbstractSink!Answer, Phases
    <3>3. QED BY <3>2 DEF AbstractSink!Next
  <2>6. QED
    BY <1>6, <2>1, <2>2, <2>3, <2>4, <2>5
    DEF Attempt, SendMsg, SendMsgBuffered, AbstractSink!Next
<1>7. CASE Cancel
  <2>1. AbstractSink!Cancel
    BY <1>7, <1>p DEF Cancel, AbstractSink!Cancel, Phases
  <2>2. QED BY <2>1 DEF AbstractSink!Next
<1>8. CASE Close
  <2>1. AbstractSink!Close
    BY <1>8, <1>p, FreeMutex DEF Close, AbstractSink!Close, Phases
  <2>2. QED BY <2>1 DEF AbstractSink!Next
<1>9. QED
  BY <1>1, <1>2, <1>3, <1>4, <1>5, <1>6, <1>7, <1>8 DEF Next

\* The client with its mutex, streams, resets and retries is a sink for any
\* number of loops: what the agent's composition assumes of a sink, it keeps.
THEOREM Refinement == Spec => ImplementsSink
<1>1. Init => AbstractSink!Init
  BY InitRefines
<1>2. IInv /\ [Next]_vars => [AbstractSink!Next]_AbstractSink!vars
  BY NextRefines
<1>3. QED
  BY <1>1, <1>2, Invariance, PTL DEF ImplementsSink, AbstractSink!Spec, Spec

-----------------------------------------------------------------------------
(* One retry heals: the safety part of Recovers *)

\* A loop that opens or uses a stream was called for a streamed frame, and
\* the stream it sends on is open.
StreamOpen ==
    \A l \in Loops :
        /\ pc[l] \in {"open", "sendmsg"} => kind[l] \in StreamKinds
        /\ pc[l] = "sendmsg" => stream[kind[l]] # Nil

\* Every step keeps the streams of the loop that holds the mutex.
LEMMA NextStreamOpen == IInv /\ StreamOpen /\ [Next]_vars => StreamOpen'
<1> SUFFICES ASSUME IInv, StreamOpen, [Next]_vars PROVE StreamOpen'
  OBVIOUS
<1> USE DEF StreamOpen, IInv, TypeOK, connVars, callVars
<1>1. CASE \/ BackendFails("down") \/ BackendFails("hung") \/ BackendUp
           \/ \E k \in StreamKinds : StreamEnds(k)
  BY <1>1 DEF BackendFails, BackendUp, StreamEnds
<1>2. ASSUME NEW l \in Loops, Lock(l) \/ \E k \in Kinds : Call(l, k)
      PROVE  StreamOpen'
  BY <1>2 DEF Lock, Call
<1>3. ASSUME NEW l \in Loops, ReuseConn(l) \/ \E c \in Conns : Dial(l, c)
      PROVE  StreamOpen'
  BY <1>3 DEF ReuseConn, Dial, AfterEnsure
<1>4. ASSUME NEW l \in Loops, ReuseStream(l) \/ OpenStream(l)
      PROVE  StreamOpen'
  <2>1. conn # Nil /\ kind[l] \in StreamKinds
    BY <1>4 DEF ReuseStream, OpenStream, Connected
  <2>2. QED BY <1>4, <2>1 DEF ReuseStream, OpenStream
<1>5. ASSUME NEW l \in Loops, SendMsgReturns(l) \/ Invoke(l) \/ WaitRetry(l) \/ GiveUp(l)
      PROVE  StreamOpen'
  BY <1>5 DEF SendMsgReturns, Invoke, WaitRetry, GiveUp, Return
<1>6. ASSUME NEW l \in Loops, AttemptFails(l)
      PROVE  StreamOpen'
  <2>1. mu = l /\ pc' = [pc EXCEPT ![l] = "wait"] /\ kind' = kind
    BY <1>6 DEF AttemptFails
  <2>2. \A m \in Loops : pc'[m] \notin {"open", "sendmsg"}
    BY <2>1
  <2>3. QED BY <2>2
<1>7. CASE Cancel \/ UNCHANGED vars
  BY <1>7 DEF Cancel, vars
<1>8. CASE Close
  <2>1. \A m \in Loops : pc'[m] \notin {"open", "sendmsg"}
    BY <1>8, NilAssumption DEF Close
  <2>2. QED BY <2>1
<1>9. QED
  BY <1>1, <1>2, <1>3, <1>4, <1>5, <1>6, <1>7, <1>8
  DEF Next, Attempt, SendMsg, SendMsgBuffered

\* While the backend answers, a call has failed at most once: only a stream
\* that broke earlier makes an attempt fail, and the reset after it leaves
\* none behind.
Healing ==
    /\ net = "up" /\ ~ctxDone
    /\ \A l \in Loops :
          /\ pc[l] = "wait" => attempt[l] = 1 /\ broken = {}
          /\ pc[l] \notin {"idle", "lock"} /\ attempt[l] > 1 => broken = {}

\* No error comes out of a step in which the backend answers and no call fails
\* of itself.
LEMMA NextHealing ==
    ASSUME MaxRetries > 1, IInv, StreamOpen, Healing, [Next]_vars,
           net' = "up", ~ctxDone', faults' = faults
    PROVE  /\ Healing'
           /\ \A l \in Loops : result'[l] = "error" => result[l] = "error"
<1> DEFINE NoNewError == \A l \in Loops : result'[l] = "error" => result[l] = "error"
<1> SUFFICES Healing' /\ NoNewError
  OBVIOUS
<1> USE DEF Healing, IInv, TypeOK, connVars, callVars
<1>1. CASE \/ BackendFails("down") \/ BackendFails("hung") \/ BackendUp
           \/ \E k \in StreamKinds : StreamEnds(k)
  <2>1. FALSE
    BY <1>1 DEF BackendFails, BackendUp, StreamEnds
  <2>2. QED BY <2>1
<1>2. ASSUME NEW l \in Loops, Lock(l) \/ \E k \in Kinds : Call(l, k)
      PROVE  Healing' /\ NoNewError
  BY <1>2 DEF Lock, Call
<1>3. ASSUME NEW l \in Loops, ReuseConn(l) \/ \E c \in Conns : Dial(l, c)
      PROVE  Healing' /\ NoNewError
  <2>1. AfterEnsure(l) \in {"open", "invoke"}
    BY DEF AfterEnsure
  <2>2. QED BY <1>3, <2>1 DEF ReuseConn, Dial
<1>4. ASSUME NEW l \in Loops, ReuseStream(l) \/ OpenStream(l)
      PROVE  Healing' /\ NoNewError
  BY <1>4 DEF ReuseStream, OpenStream
<1>5. ASSUME NEW l \in Loops, SendMsgReturns(l) \/ Invoke(l)
      PROVE  Healing' /\ NoNewError
  BY <1>5 DEF SendMsgReturns, Invoke, Return
<1>6. ASSUME NEW l \in Loops, AttemptFails(l)
      PROVE  Healing' /\ NoNewError
  <2>1. CannotProceed(l) /\ mu = l
    BY <1>6 DEF AttemptFails
  <2>2. pc[l] = "sendmsg" => stream[kind[l]] \in live
    BY NilAssumption DEF StreamOpen, StreamsOnConn, OneConnection
  <2>3. broken # {} /\ pc[l] = "sendmsg"
    BY <2>1, <2>2 DEF CannotProceed
  <2>4. attempt[l] = 1
    BY <2>3
  <2>5. /\ broken' = {} /\ pc' = [pc EXCEPT ![l] = "wait"]
        /\ UNCHANGED <<net, attempt, result, ctxDone>>
    BY <1>6 DEF AttemptFails, ResetConn
  <2>6. \A m \in Loops \ {l} : pc[m] \in {"idle", "lock"}
    BY <2>1
  <2>7. QED BY <2>4, <2>5, <2>6
<1>7. ASSUME NEW l \in Loops, WaitRetry(l)
      PROVE  Healing' /\ NoNewError
  BY <1>7 DEF WaitRetry
<1>8. ASSUME NEW l \in Loops
      PROVE  ~GiveUp(l)
  BY RetriesAssumption DEF GiveUp
<1>9. CASE Cancel \/ Close
  <2>1. FALSE
    BY <1>9 DEF Cancel, Close
  <2>2. QED BY <2>1
<1>10. CASE UNCHANGED vars
  BY <1>10 DEF vars
<1>11. QED
  BY <1>1, <1>2, <1>3, <1>4, <1>5, <1>6, <1>7, <1>8, <1>9, <1>10
  DEF Next, Attempt, SendMsg, SendMsgBuffered

\* For any number of loops and kinds of frames, with at least two attempts per
\* call (NewGRPCClient allows five): while the backend answers and no further
\* call or stream fails, no call reports an error, although the streams broke
\* in an outage before and every loop has to find that out.
THEOREM OneRetryHeals ==
    MaxRetries > 1 /\ Spec =>
        [][Healing /\ net' = "up" /\ ~ctxDone' /\ faults' = faults =>
              /\ Healing'
              /\ \A l \in Loops : result'[l] = "error" => result[l] = "error"]_vars
<1> SUFFICES ASSUME MaxRetries > 1
             PROVE  Spec =>
        [][Healing /\ net' = "up" /\ ~ctxDone' /\ faults' = faults =>
              /\ Healing'
              /\ \A l \in Loops : result'[l] = "error" => result[l] = "error"]_vars
  OBVIOUS
<1>1. Init => StreamOpen
  BY DEF Init, StreamOpen
<1>2. IInv /\ StreamOpen /\ [Next]_vars =>
        [Healing /\ net' = "up" /\ ~ctxDone' /\ faults' = faults =>
              /\ Healing'
              /\ \A l \in Loops : result'[l] = "error" => result[l] = "error"]_vars
  BY NextHealing
<1>3. QED BY <1>1, <1>2, Invariance, NextStreamOpen, PTL DEF Spec
=============================================================================
