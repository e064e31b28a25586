------------------------ MODULE AgentLifecycleProofs ------------------------
(***************************************************************************)
(* Proofs about AgentLifecycle, for any number of loops and any number of  *)
(* failures: types and one call of the sink per loop, and the completeness *)
(* of a shutdown that was not forced.                                      *)
(***************************************************************************)
EXTENDS AgentLifecycle, TLAPS

\* The stages of a process: before the group starts and after it has ended its
\* loops do nothing, shutdown without force waits for that end, and only
\* shutdown closes the sink.
Stages ==
    /\ run = "connect" => \A l \in Senders : pc[l] = "off"
    /\ run = "returned" => \A l \in Senders : pc[l] \in {"off", "done"}
    /\ ~forced /\ main \in {"closeSink", "closeConn", "exit"} => run = "returned"
    /\ closed => main \in {"closeConn", "exit"}

\* What shutdown has undone stays undone.
Undone ==
    /\ ~forced /\ main \in {"closeConn", "exit"} => ~streamConnected /\ ~session
    /\ main = "exit" => client = "nil"

IInv == TypeOK /\ Stages /\ Undone

\* The initial states satisfy the invariant.
LEMMA InitIInv == Init => IInv
  <1> SUFFICES ASSUME Init PROVE IInv
    OBVIOUS
  <1> USE DEF Init, S!Init
  <1>1. /\ session \in BOOLEAN /\ cancelled \in BOOLEAN /\ closed \in BOOLEAN
        /\ forced \in BOOLEAN /\ stopped \in BOOLEAN /\ streamConnected \in BOOLEAN
        /\ ~streamConnected /\ ~session /\ ~closed
    BY Zenon
  <1>2. TypeOK
    BY <1>1, BoundsAssumption, SMT DEF TypeOK
  <1>3. Stages /\ Undone
    BY <1>1 DEF Stages, Undone
  <1> QED
    BY <1>2, <1>3 DEF IInv

\* The number of faults stays within its bound.
LEMMA FaultBound == ASSUME TypeOK, Fault PROVE faults' \in 0..MaxFaults
  BY BoundsAssumption DEF TypeOK, Fault

\* Backend, libvirtd and the sender of signals touch no stage of the process.
LEMMA WorldIInv ==
    ASSUME IInv,
           \/ BackendFails("down") \/ BackendFails("hung") \/ BackendUp
           \/ LibvirtFails("down") \/ LibvirtFails("hung") \/ LibvirtUp \/ Signal
    PROVE  IInv'
  <1> USE DEF IInv, TypeOK, Stages, Undone
  <1>1. CASE BackendFails("down") \/ BackendFails("hung")
    BY <1>1, FaultBound DEF BackendFails, S!BackendChanges, mainVars, healthVars
  <1>2. CASE BackendUp
    BY <1>2 DEF BackendUp, S!BackendChanges, mainVars, healthVars
  <1>3. CASE LibvirtFails("down") \/ LibvirtFails("hung")
    BY <1>3, FaultBound DEF LibvirtFails, sinkVars, mainVars
  <1>4. CASE LibvirtUp
    BY <1>4 DEF LibvirtUp, sinkVars, mainVars
  <1>5. CASE Signal
    BY <1>5 DEF Signal, sinkVars, healthVars
  <1> QED
    BY <1>1, <1>2, <1>3, <1>4, <1>5

\* The health loop runs while the process does, and touches only the client.
LEMMA HealthIInv == ASSUME IInv, HealthTick \/ HealthStep \/ HealthEnds PROVE IInv'
  <1> USE DEF IInv, TypeOK, Stages, Undone, healthUnchanged, sinkVars, mainVars, Alive
  <1>1. CASE HealthTick
    BY <1>1 DEF HealthTick
  <1>2. CASE HealthStep
    BY <1>2 DEF HealthStep, HealthyOk, HealthyFails, Reconnects, ReconnectCancelled
  <1>3. CASE HealthEnds
    BY <1>3 DEF HealthEnds
  <1> QED
    BY <1>1, <1>2, <1>3

\* The listener may cancel the group, and touches nothing else.
LEMMA ProbeIInv == ASSUME IInv, ProbeFails \/ ProbeEnds PROVE IInv'
  <1> USE DEF IInv, TypeOK, Stages, Undone, probeUnchanged, mainVars, healthVars
  <1>1. CASE ProbeFails
    <2>1. cancelled' \in BOOLEAN /\ faults' \in 0..MaxFaults
      BY <1>1, FaultBound DEF ProbeFails, S!Cancel
    <2> QED
      BY <1>1, <2>1 DEF ProbeFails, S!Cancel
  <1>2. CASE ProbeEnds
    BY <1>2 DEF ProbeEnds, sinkVars
  <1> QED
    BY <1>1, <1>2

\* Agent.run: the group starts with every loop off, and ends with every loop done.
LEMMA GroupIInv == ASSUME IInv, Group PROVE IInv'
  <1> USE DEF IInv, TypeOK, Stages, Undone, mainVars, healthVars, sinkVars, Alive
  <1>1. CASE RunConnects
    <2>1. streamConnected' \in BOOLEAN
      BY <1>1 DEF RunConnects
    <2> QED
      BY <1>1, <2>1 DEF RunConnects
  <1>2. CASE RunCancelled
    BY <1>2 DEF RunCancelled
  <1>3. CASE GroupDone
    BY <1>3 DEF GroupDone
  <1> QED
    BY <1>1, <1>2, <1>3 DEF Group

\* A step of a loop: the loop is in the middle of its cycle, so the group has
\* neither not started nor ended, and an unforced shutdown has not begun.
LEMMA LoopRuns ==
    ASSUME IInv, NEW l \in Senders, pc[l] \notin {"off", "done"}
    PROVE  run = "group" /\ (forced \/ main \notin {"closeSink", "closeConn", "exit"})
  BY DEF IInv, TypeOK, Stages

\* The steps of a loop outside the sink.
LEMMA CycleIInv ==
    ASSUME IInv, NEW l \in Senders,
           CollectNothing(l) \/ CollectFails(l) \/ SetFlag(l) \/ Tick(l) \/ LoopEnds(l)
    PROVE  IInv'
  <1> USE DEF IInv, GoTo, senderUnchanged, mainVars, healthVars, sinkVars, Alive
  <1>1. pc[l] \notin {"off", "send", "done"}
    BY DEF CollectNothing, CollectFails, SetFlag, Tick, LoopEnds
  <1>2. run = "group" /\ (forced \/ main \notin {"closeSink", "closeConn", "exit"})
    BY <1>1, LoopRuns
  <1>3. PICK step \in {"collect", "pause", "done"} : pc' = [pc EXCEPT ![l] = step]
    BY DEF CollectNothing, CollectFails, SetFlag, Tick, LoopEnds
  <1>4. streamConnected' \in BOOLEAN
    BY DEF CollectNothing, CollectFails, SetFlag, Tick, LoopEnds, TypeOK
  <1>5. UNCHANGED <<senderUnchanged, sinkVars, faults>>
    BY DEF CollectNothing, CollectFails, SetFlag, Tick, LoopEnds
  <1>6. TypeOK'
    BY <1>1, <1>3, <1>4, <1>5 DEF TypeOK
  <1>7. Stages' /\ Undone'
    BY <1>2, <1>5 DEF Stages, Undone, TypeOK
  <1> QED
    BY <1>6, <1>7

\* The steps of a loop at and inside the sink: it is served, connects, loses the
\* session or gets its answer.
LEMMA SinkIInv ==
    ASSUME IInv, NEW l \in Senders,
           \/ CollectSends(l) \/ SinkServes(l) \/ SinkLoses(l)
           \/ SinkFails(l) \/ SinkSends(l)
    PROVE  IInv'
  <1> USE DEF IInv, GoTo, senderUnchanged, mainVars, healthVars, Alive
  <1>1. CASE CollectSends(l)
    <2>1. run = "group" /\ (forced \/ main \notin {"closeSink", "closeConn", "exit"})
      BY <1>1, LoopRuns DEF CollectSends
    <2>2. TypeOK'
      BY <1>1 DEF CollectSends, S!Call, S!Idle, TypeOK
    <2>3. Stages' /\ Undone'
      BY <1>1, <2>1 DEF CollectSends, S!Call, Stages, Undone, TypeOK
    <2> QED
      BY <2>2, <2>3
  <1>2. CASE SinkServes(l) \/ SinkLoses(l) \/ SinkFails(l) \/ SinkSends(l)
    <2>1. phase[l] \in {"waiting", "served"}
      BY <1>2 DEF SinkServes, SinkLoses, SinkFails, SinkSends, S!Serve, S!Connect, S!Lose,
                  S!GiveUp, S!Succeed
    <2>2. pc[l] = "send"
      BY <2>1 DEF TypeOK
    <2>3. run = "group" /\ (forced \/ main \notin {"closeSink", "closeConn", "exit"})
      BY <2>2, LoopRuns
    <2>4. /\ session' \in BOOLEAN
          /\ UNCHANGED <<senderUnchanged, backend, cancelled, closed, streamConnected>>
      BY <1>2 DEF SinkServes, SinkLoses, SinkFails, SinkSends, S!Serve, S!Connect, S!Lose,
                  S!GiveUp, S!Succeed, S!Answer, TypeOK
    <2>5. faults' \in 0..MaxFaults
      BY <1>2, FaultBound DEF SinkServes, SinkLoses, SinkFails, SinkSends, TypeOK
    <2>6. \/ phase' = phase /\ pc' = pc
          \/ phase' = [phase EXCEPT ![l] = "served"] /\ pc' = pc
          \/ \E r \in {"ok", "error"} : /\ phase' = [phase EXCEPT ![l] = r]
                                        /\ pc' = [pc EXCEPT ![l] = "flag"]
      BY <1>2 DEF SinkServes, SinkLoses, SinkFails, SinkSends, S!Serve, S!Connect, S!Lose,
                  S!GiveUp, S!Succeed, S!Answer
    <2>7. TypeOK'
      BY <2>2, <2>4, <2>5, <2>6 DEF TypeOK
    <2>8. Stages' /\ Undone'
      BY <2>3, <2>4 DEF Stages, Undone, TypeOK
    <2> QED
      BY <2>7, <2>8
  <1> QED
    BY <1>1, <1>2

\* Agent.Run: shutdown begins when run has returned, or is forced; it closes the
\* sink and then the connection; and a restarted process starts anew.
LEMMA MainIInv == ASSUME IInv, MainStep \/ CloseSink \/ CloseConn \/ Restart PROVE IInv'
  <1> USE DEF IInv, mainUnchanged
  <1>1. CASE RunReturned
    BY <1>1 DEF RunReturned, TypeOK, Stages, Undone, sinkVars
  <1>2. CASE FirstSignal
    <2>1. /\ cancelled' \in BOOLEAN
          /\ UNCHANGED <<phase, session, backend, closed>>
      BY <1>2 DEF FirstSignal, S!Cancel, sinkVars, TypeOK
    <2> QED
      BY <1>2, <2>1 DEF FirstSignal, TypeOK, Stages, Undone
  <1>3. CASE GraceOver
    <2>1. forced' \in BOOLEAN /\ forced'
      BY <1>3, Zenon DEF GraceOver
    <2> QED
      BY <1>3, <2>1 DEF GraceOver, TypeOK, Stages, Undone, sinkVars
  <1>4. CASE CloseSink
    <2>1. /\ session' \in BOOLEAN /\ ~session' /\ closed' \in BOOLEAN
          /\ streamConnected' \in BOOLEAN /\ ~streamConnected'
      BY <1>4, Zenon DEF CloseSink, S!Close
    <2> QED
      BY <1>4, <2>1 DEF CloseSink, S!Close, TypeOK, Stages, Undone
  <1>5. CASE CloseConn
    BY <1>5 DEF CloseConn, TypeOK, Stages, Undone, sinkVars
  <1>6. CASE Restart
    <2>1. /\ session' \in BOOLEAN /\ cancelled' \in BOOLEAN
          /\ closed' \in BOOLEAN /\ ~closed' /\ streamConnected' \in BOOLEAN
      BY <1>6, Zenon DEF Restart
    <2> QED
      BY <1>6, <2>1 DEF Restart, TypeOK, Stages, Undone
  <1> QED
    BY <1>1, <1>2, <1>3, <1>4, <1>5, <1>6 DEF MainStep

\* The invariant is inductive.
LEMMA NextIInv == IInv /\ [Next]_vars => IInv'
  <1> SUFFICES ASSUME IInv, [Next]_vars PROVE IInv'
    OBVIOUS
  <1>1. CASE UNCHANGED vars
    BY <1>1 DEF IInv, TypeOK, Stages, Undone, vars, sinkVars, mainVars, healthVars
  <1>2. ASSUME NEW l \in Senders, Sender(l) PROVE IInv'
    BY <1>2, CycleIInv, SinkIInv DEF Sender, Collect
  <1> QED
    BY <1>1, <1>2, WorldIInv, GroupIInv, HealthIInv, ProbeIInv, MainIInv DEF Next

\* The invariant implies the property.  That the loops are idle when the sink is
\* closed follows from the stages: run has returned by then.
LEMMA IInvImplies == IInv => TypeOK /\ ShutdownIsFinal
  <1> SUFFICES ASSUME IInv, ~forced PROVE ShutdownIsFinal
    BY DEF IInv, ShutdownIsFinal
  <1>1. ASSUME closed, NEW l \in Senders
        PROVE  phase[l] \in S!Idle /\ pc[l] \in {"off", "done"}
    BY <1>1 DEF IInv, Stages, TypeOK, S!Idle
  <1> QED
    BY <1>1 DEF IInv, Undone, ShutdownIsFinal

\* The invariant holds in every reachable state.
LEMMA Invariance == Spec => []IInv
  BY InitIInv, NextIInv, PTL DEF Spec

\* Types, and no loop of the scheduler is in two calls of the sink.
THEOREM TypeCorrect == Spec => []TypeOK
  BY Invariance, IInvImplies, PTL

\* Agent.Run: when shutdown was not forced, no loop is left that could send or
\* set a health flag, nothing is connected, and both flags say so.
THEOREM ShutdownComplete == Spec => []ShutdownIsFinal
  BY Invariance, IInvImplies, PTL

-----------------------------------------------------------------------------
(* Why the process ends *)

\* Agent.run returns, a loop ends and Agent.Run leaves its select only when the
\* context is cancelled; only a signal or the listener's error cancels it; and
\* the listener does not run before the first connect.
EndsForAReason ==
    /\ main # "select" \/ run = "returned" \/ (\E l \in Senders : pc[l] = "done") => cancelled
    /\ cancelled => stopped \/ probe = "done"
    /\ run = "connect" => probe = "off"

\* What a step of a loop can do to the stages: nothing but end the loop, once
\* the context is cancelled.
LEMMA SenderStages ==
    ASSUME TypeOK, NEW l \in Senders, Sender(l)
    PROVE  /\ UNCHANGED <<main, run, cancelled, stopped, probe>>
           /\ \A m \in Senders : pc'[m] = "done" => pc[m] = "done" \/ cancelled
  <1> USE DEF TypeOK, GoTo, senderUnchanged, mainVars, healthVars, sinkVars
  <1>1. CASE Collect(l) \/ CollectFails(l)
    BY <1>1 DEF Collect, CollectSends, CollectNothing, CollectFails, S!Call
  <1>2. CASE SinkServes(l) \/ SinkLoses(l)
    BY <1>2 DEF SinkServes, SinkLoses, S!Serve, S!Connect, S!Lose
  <1>3. CASE SinkFails(l) \/ SinkSends(l)
    BY <1>3 DEF SinkFails, SinkSends, S!GiveUp, S!Succeed, S!Answer
  <1>4. CASE SetFlag(l) \/ Tick(l) \/ LoopEnds(l)
    BY <1>4 DEF SetFlag, Tick, LoopEnds
  <1> QED
    BY <1>1, <1>2, <1>3, <1>4 DEF Sender

\* Every step keeps the reason.
LEMMA NextReason == TypeOK /\ EndsForAReason /\ [Next]_vars => EndsForAReason'
  <1> SUFFICES ASSUME TypeOK, EndsForAReason, [Next]_vars PROVE EndsForAReason'
    OBVIOUS
  <1> USE DEF EndsForAReason, sinkVars, mainVars, healthVars
  <1>1. CASE \/ BackendFails("down") \/ BackendFails("hung") \/ BackendUp
             \/ LibvirtFails("down") \/ LibvirtFails("hung") \/ LibvirtUp \/ Signal
    BY <1>1 DEF BackendFails, BackendUp, S!BackendChanges, LibvirtFails, LibvirtUp, Signal
  <1>2. CASE Group
    <2>1. CASE RunConnects
      BY <2>1 DEF RunConnects
    <2>2. CASE RunCancelled
      BY <2>2 DEF RunCancelled
    <2>3. CASE GroupDone
      <3>1. cancelled
        BY <2>3, SendersAssumption DEF GroupDone
      <3> QED
        BY <2>3, <3>1 DEF GroupDone
    <2> QED
      BY <1>2, <2>1, <2>2, <2>3 DEF Group
  <1>3. ASSUME NEW l \in Senders, Sender(l) PROVE EndsForAReason'
    BY <1>3, SenderStages
  <1>4. CASE HealthTick \/ HealthStep \/ HealthEnds
    BY <1>4 DEF HealthTick, HealthStep, HealthyOk, HealthyFails, Reconnects,
                ReconnectCancelled, HealthEnds, healthUnchanged
  <1>5. CASE ProbeFails \/ ProbeEnds
    BY <1>5 DEF ProbeFails, ProbeEnds, S!Cancel, probeUnchanged
  <1>6. CASE MainStep \/ CloseSink \/ CloseConn
    <2>1. CASE RunReturned \/ GraceOver \/ CloseConn
      BY <2>1 DEF RunReturned, GraceOver, CloseConn, mainUnchanged
    <2>2. CASE FirstSignal
      <3>1. cancelled' /\ stopped' /\ UNCHANGED <<run, probe>>
        BY <2>2 DEF FirstSignal, S!Cancel, mainUnchanged
      <3> QED
        BY <3>1
    <2>3. CASE CloseSink
      BY <2>3 DEF CloseSink, S!Close, mainUnchanged
    <2> QED
      BY <1>6, <2>1, <2>2, <2>3 DEF MainStep
  <1>7. CASE Restart
    <2>1. /\ main' = "select" /\ run' = "connect" /\ probe' = "off" /\ ~cancelled'
          /\ \A l \in Senders : pc'[l] # "done"
      BY <1>7 DEF Restart
    <2> QED
      BY <2>1
  <1>8. CASE UNCHANGED vars
    BY <1>8 DEF vars
  <1> QED
    BY <1>1, <1>2, <1>3, <1>4, <1>5, <1>6, <1>7, <1>8 DEF Next

\* Whatever libvirtd, the backend and the loops do, and for any number of
\* loops: Agent.run only returns, and the process only shuts down, after a
\* signal or an error of the probe listener.
THEOREM OnlyTwoWaysDown == Spec => []EndsForAReason
  <1>1. Init => EndsForAReason
    BY DEF Init, S!Init, EndsForAReason
  <1> QED
    BY <1>1, TypeCorrect, NextReason, PTL DEF Spec

-----------------------------------------------------------------------------
(* The stream flag stays true to the backend: the safety part of           *)
(* StreamFlagSettles                                                       *)

\* The group runs, the flag tells the state of the backend, so will every loop
\* that has left the sink and not yet written the flag, and no session is left
\* that could still take a frame for a backend that is gone.
FlagSettled ==
    /\ run = "group" /\ ~cancelled
    /\ backend \in {"up", "down"}
    /\ streamConnected <=> backend = "up"
    /\ \A l \in Senders : pc[l] = "flag" => (phase[l] = "ok" <=> backend = "up")
    /\ backend = "down" => ~session

\* A step of a loop writes what the flag says already.
LEMMA SenderSettled ==
    ASSUME TypeOK, FlagSettled, NEW l \in Senders, Sender(l), faults' = faults
    PROVE  FlagSettled'
  <1> USE DEF TypeOK, FlagSettled, GoTo, senderUnchanged, mainVars, healthVars, sinkVars
  <1>1. CASE Collect(l) \/ CollectFails(l)
    BY <1>1 DEF Collect, CollectSends, CollectNothing, CollectFails, S!Call
  <1>2. CASE SinkServes(l) \/ SinkLoses(l)
    <2>1. /\ UNCHANGED <<run, cancelled, backend, streamConnected, pc>>
          /\ phase' = phase \/ phase' = [phase EXCEPT ![l] = "served"]
          /\ backend = "down" => ~session'
          /\ pc[l] = "send"
      BY <1>2 DEF SinkServes, SinkLoses, S!Serve, S!Connect, S!Lose
    <2> QED
      BY <2>1
  <1>3. CASE SinkFails(l)
    <2>1. backend = "down"
      BY <1>3 DEF SinkFails, Fault
    <2> QED
      BY <1>3, <2>1 DEF SinkFails, S!GiveUp, S!Answer
  <1>4. CASE SinkSends(l)
    <2>1. backend = "up"
      BY <1>4 DEF SinkSends, S!Succeed
    <2> QED
      BY <1>4, <2>1 DEF SinkSends, S!Succeed, S!Answer
  <1>5. CASE SetFlag(l)
    <2>1. streamConnected' <=> backend = "up"
      BY <1>5, Zenon DEF SetFlag
    <2> QED
      BY <1>5, <2>1 DEF SetFlag
  <1>6. CASE Tick(l) \/ LoopEnds(l)
    BY <1>6 DEF Tick, LoopEnds
  <1> QED
    BY <1>1, <1>2, <1>3, <1>4, <1>5, <1>6 DEF Sender

\* Every step that leaves the backend, the context and the calls alone keeps
\* the flag settled.
LEMMA NextSettled ==
    ASSUME TypeOK, EndsForAReason, FlagSettled, [Next]_vars,
           backend' = backend, ~cancelled', faults' = faults
    PROVE  FlagSettled'
  <1> USE DEF FlagSettled, sinkVars, mainVars, healthVars
  <1>1. main = "select" /\ run # "returned"
    BY DEF EndsForAReason
  <1>2. CASE \/ BackendFails("down") \/ BackendFails("hung") \/ BackendUp
             \/ LibvirtFails("down") \/ LibvirtFails("hung")
    <2>1. FALSE
      BY <1>2 DEF BackendFails, BackendUp, S!BackendChanges, LibvirtFails, Fault, TypeOK
    <2> QED
      BY <2>1
  <1>3. CASE LibvirtUp \/ Signal
    BY <1>3 DEF LibvirtUp, Signal
  <1>4. CASE Group
    <2>1. FALSE
      BY <1>4, SendersAssumption DEF Group, RunConnects, RunCancelled, GroupDone, EndsForAReason
    <2> QED
      BY <2>1
  <1>5. ASSUME NEW l \in Senders, Sender(l) PROVE FlagSettled'
    BY <1>5, SenderSettled
  <1>6. CASE HealthTick \/ HealthStep \/ HealthEnds
    BY <1>6 DEF HealthTick, HealthStep, HealthyOk, HealthyFails, Reconnects,
                ReconnectCancelled, HealthEnds, healthUnchanged
  <1>7. CASE ProbeFails \/ ProbeEnds
    BY <1>7 DEF ProbeFails, ProbeEnds, S!Cancel, probeUnchanged
  <1>8. CASE MainStep \/ CloseSink \/ CloseConn \/ Restart
    <2>1. FALSE
      BY <1>1, <1>8 DEF MainStep, RunReturned, FirstSignal, S!Cancel, GraceOver, CloseSink,
                        CloseConn, Restart
    <2> QED
      BY <2>1
  <1>9. CASE UNCHANGED vars
    BY <1>9 DEF vars
  <1> QED
    BY <1>2, <1>3, <1>4, <1>5, <1>6, <1>7, <1>8, <1>9 DEF Next

\* For any number of loops, in whatever order they write the flag: once it
\* tells the state of the backend it goes on to do so, until the backend's
\* state changes, a call fails of itself or the context is cancelled.
THEOREM StreamFlagIsFinal ==
    Spec => [][FlagSettled /\ backend' = backend /\ ~cancelled' /\ faults' = faults
                  => FlagSettled']_vars
  <1>1. TypeOK /\ EndsForAReason /\ [Next]_vars =>
          [FlagSettled /\ backend' = backend /\ ~cancelled' /\ faults' = faults
              => FlagSettled']_vars
    BY NextSettled
  <1> QED
    BY <1>1, TypeCorrect, OnlyTwoWaysDown, PTL DEF Spec

-----------------------------------------------------------------------------
(* The agent keeps to the interface of the sink *)

\* A step of a process is a step of its sink or leaves the sink alone, and a
\* process that is restarted has a new one.
LEMMA NextUsesSink ==
    TypeOK /\ [Next]_vars => [S!Next \/ (main = "exit" /\ S!Init')]_(S!vars)
  <1> SUFFICES ASSUME TypeOK, [Next]_vars
               PROVE  \/ S!Next \/ (main = "exit" /\ S!Init')
                      \/ UNCHANGED <<phase, session, backend, cancelled, closed>>
    BY DEF S!vars
  <1> USE DEF sinkVars, mainVars, healthVars
  <1>1. CASE BackendFails("down") \/ BackendFails("hung") \/ BackendUp
    BY <1>1 DEF BackendFails, BackendUp, S!Next
  <1>2. CASE LibvirtFails("down") \/ LibvirtFails("hung") \/ LibvirtUp \/ Signal \/ Group
    BY <1>2 DEF LibvirtFails, LibvirtUp, Signal, Group, RunConnects, RunCancelled, GroupDone
  <1>3. ASSUME NEW l \in Senders, Sender(l)
        PROVE  S!Next \/ UNCHANGED sinkVars
    <2>1. CASE CollectSends(l) \/ SinkServes(l) \/ SinkLoses(l) \/ SinkFails(l) \/ SinkSends(l)
      BY <2>1 DEF CollectSends, SinkServes, SinkLoses, SinkFails, SinkSends, S!Next
    <2>2. CASE \/ CollectNothing(l) \/ CollectFails(l) \/ SetFlag(l) \/ Tick(l) \/ LoopEnds(l)
      BY <2>2 DEF CollectNothing, CollectFails, SetFlag, Tick, LoopEnds
    <2> QED
      BY <1>3, <2>1, <2>2 DEF Sender, Collect
  <1>4. CASE HealthTick \/ HealthStep \/ HealthEnds
    BY <1>4 DEF HealthTick, HealthStep, HealthyOk, HealthyFails, Reconnects,
                ReconnectCancelled, HealthEnds, healthUnchanged
  <1>5. CASE ProbeFails \/ ProbeEnds
    BY <1>5 DEF ProbeFails, ProbeEnds, S!Next
  <1>6. CASE MainStep \/ CloseSink \/ CloseConn
    BY <1>6 DEF MainStep, RunReturned, FirstSignal, GraceOver, CloseSink, CloseConn, S!Next
  <1>7. CASE Restart
    <2>1. S!Init'
      BY <1>7 DEF Restart, S!Init, TypeOK
    <2> QED
      BY <1>7, <2>1 DEF Restart
  <1>8. CASE UNCHANGED vars
    BY <1>8 DEF vars
  <1> QED
    BY <1>1, <1>2, <1>3, <1>4, <1>5, <1>6, <1>7, <1>8 DEF Next

\* The agent uses the sink as the interface allows: every process behaves, on
\* the sink's variables, like a behaviour of module Sink, which GRPCClient has
\* been shown to implement; only systemd's restart begins a new one.
THEOREM AgentKeepsToSink ==
    Spec => S!Init /\ [][S!Next \/ (main = "exit" /\ S!Init')]_(S!vars)
  <1>1. Init => S!Init
    BY DEF Init
  <1> QED
    BY <1>1, NextUsesSink, TypeCorrect, PTL DEF Spec
=============================================================================
