-------------------------- MODULE ConnManagerProofs --------------------------
(***************************************************************************)
(* Safety of the libvirt connection for any number of loops, handlers and  *)
(* faults: the write lock is exclusive and the manager owns one            *)
(* connection.                                                             *)
(***************************************************************************)
EXTENDS ConnManager, TLAPS

\* connectLocked dials only after the old client has been dropped.
DroppedBeforeDial ==
    \A p \in Procs : pc[p] \in {"select", "dial", "wait"} => client = Nil

IInv == TypeOK /\ SingleConnection /\ DroppedBeforeDial

\* A new manager has no client and no connection.
LEMMA InitInv == Init => IInv
<1> SUFFICES ASSUME Init PROVE IInv
  OBVIOUS
<1>1. 0 \in 0..MaxFaults
  BY BoundAssumption
<1>2. TypeOK
  BY <1>1, NilAssumption DEF Init, TypeOK, Procs
<1>3. SingleConnection /\ DroppedBeforeDial
  BY DEF Init, SingleConnection, DroppedBeforeDial
<1>4. QED BY <1>2, <1>3 DEF IInv

\* libvirtd and cancellation touch no pointer and no lock.
LEMMA EnvironmentInv ==
    ASSUME IInv,
           \/ LibvirtDown \/ LibvirtUp \/ \E c \in Conns : ConnDrops(c)
           \/ \E p \in Handlers : RPCCancelled(p)
           \/ Cancel \/ StopServer
    PROVE  IInv'
<1> USE DEF IInv, SingleConnection, DroppedBeforeDial, connVars, stopVars
<1>1. CASE LibvirtDown \/ LibvirtUp \/ \E c \in Conns : ConnDrops(c)
  <2>1. faults' \in 0..MaxFaults
    BY <1>1, BoundAssumption DEF LibvirtDown, LibvirtUp, ConnDrops, TypeOK
  <2>2. QED BY <1>1, <2>1 DEF LibvirtDown, LibvirtUp, ConnDrops, TypeOK
<1>2. CASE (\E p \in Handlers : RPCCancelled(p)) \/ Cancel \/ StopServer
  <2>1. cancelled' \in SUBSET Procs
    BY <1>2 DEF RPCCancelled, Cancel, StopServer, TypeOK, Procs, Callers
  <2>2. QED BY <1>2, <2>1 DEF RPCCancelled, Cancel, StopServer, TypeOK
<1>3. QED BY <1>1, <1>2

\* Readers leave the pointer alone.
LEMMA ReaderInv ==
    ASSUME IInv, NEW p \in Procs, ReadClient(p) \/ RereadClient(p) \/ UseClient(p)
    PROVE  IInv'
<1> USE DEF IInv, SingleConnection, DroppedBeforeDial, connVars, stopVars
<1>1. CASE ReadClient(p)
  <2>1. TypeOK'
    BY <1>1, NilAssumption DEF ReadClient, GoTo, TypeOK
  <2>2. QED BY <1>1, <2>1 DEF ReadClient, GoTo, TypeOK
<1>2. CASE RereadClient(p)
  <2>1. TypeOK'
    BY <1>2, NilAssumption DEF RereadClient, GoTo, TypeOK
  <2>2. QED BY <1>2, <2>1 DEF RereadClient, GoTo, TypeOK
<1>3. CASE UseClient(p)
  <2>1. TypeOK'
    BY <1>3, NilAssumption DEF UseClient, GoTo, TypeOK
  <2>2. QED BY <1>3, <2>1 DEF UseClient, GoTo, TypeOK
<1>4. QED BY <1>1, <1>2, <1>3

\* Writing the flag touches neither the pointer nor the lock.
LEMMA FlagInv ==
    ASSUME IInv, NEW p \in Procs, SetConnected(p) \/ ClearConnected(p)
    PROVE  IInv'
<1> USE DEF IInv, SingleConnection, DroppedBeforeDial, connVars, stopVars
<1>1. TypeOK'
  BY DEF SetConnected, ClearConnected, GoTo, TypeOK
<1>2. QED BY <1>1 DEF SetConnected, ClearConnected, GoTo, TypeOK

\* The writer drops the old client before it dials.
LEMMA LockInv ==
    ASSUME IInv, NEW p \in Procs, LockConnect(p) \/ LockReconnect(p) \/ CheckClient(p)
    PROVE  IInv'
<1> USE DEF IInv, SingleConnection, DroppedBeforeDial, connVars, stopVars
<1>1. CASE LockConnect(p)
  <2>1. TypeOK'
    BY <1>1, NilAssumption DEF LockConnect, GoTo, TypeOK
  <2>2. QED BY <1>1, <2>1 DEF LockConnect, GoTo, TypeOK
<1>2. CASE LockReconnect(p)
  <2>1. client' = Nil /\ live' = {}
    BY <1>2 DEF LockReconnect
  <2>2. TypeOK'
    BY <1>2, <2>1, NilAssumption DEF LockReconnect, GoTo, TypeOK
  <2>3. QED BY <2>1, <2>2
<1>3. CASE CheckClient(p) /\ client \in good
  <2>1. TypeOK'
    BY <1>3, NilAssumption DEF CheckClient, Connected, GoTo, TypeOK
  <2>2. QED BY <1>3, <2>1 DEF CheckClient, Connected, GoTo, TypeOK
<1>4. CASE CheckClient(p) /\ client \notin good
  <2>1. client' = Nil /\ live' = {}
    BY <1>4 DEF CheckClient
  <2>2. TypeOK'
    BY <1>4, <2>1, NilAssumption DEF CheckClient, GoTo, TypeOK
  <2>3. QED BY <2>1, <2>2
<1>5. QED BY <1>1, <1>2, <1>3, <1>4

\* The dial loop: only its owner is in it, and it starts without a client.
LEMMA DialInv ==
    ASSUME IInv, NEW p \in Procs,
           \/ CheckContext(p) \/ ConnectCancelled(p)
           \/ (\E c \in Conns : Dial(p, c)) \/ DialFails(p) \/ WaitEnds(p)
    PROVE  IInv'
<1> USE DEF IInv, SingleConnection, DroppedBeforeDial, connVars, stopVars
<1>1. CASE CheckContext(p) \/ DialFails(p) \/ WaitEnds(p)
  <2>1. /\ pc[p] \in {"select", "dial", "wait"}
        /\ \E s \in {"select", "dial", "wait"} : pc' = [pc EXCEPT ![p] = s]
        /\ UNCHANGED <<mu, via, connVars, up, held, libvirtConnected, started, stopVars, faults>>
    BY <1>1 DEF CheckContext, DialFails, WaitEnds, GoTo
  <2>2. TypeOK'
    BY <2>1 DEF TypeOK
  <2>3. QED BY <2>1, <2>2 DEF TypeOK
<1>2. CASE ConnectCancelled(p)
  <2>1. /\ pc[p] \in {"select", "wait"} /\ mu' = Nil
        /\ \E s \in {"idle", "clear"} : pc' = [pc EXCEPT ![p] = s]
        /\ UNCHANGED <<via, connVars, up, held, libvirtConnected, started, stopVars, faults>>
    BY <1>2 DEF ConnectCancelled, GoTo
  <2>2. TypeOK'
    BY <2>1, NilAssumption DEF TypeOK
  <2>3. QED BY <2>1, <2>2 DEF TypeOK
<1>3. ASSUME NEW c \in Conns, Dial(p, c) PROVE IInv'
  <2>1. client = Nil /\ live = {} /\ client' = c /\ live' = {c} /\ c # Nil /\ mu = p
    BY <1>3, NilAssumption DEF Dial, TypeOK
  <2>2. /\ pc[p] = "dial" /\ mu' = Nil
        /\ \E s \in {"flag", "reread"} : pc' = [pc EXCEPT ![p] = s]
        /\ good' = good \cup {c}
        /\ UNCHANGED <<via, up, held, libvirtConnected, started, stopVars, faults>>
    BY <1>3 DEF Dial, Connected, GoTo
  <2>3. TypeOK'
    BY <2>1, <2>2, NilAssumption DEF TypeOK
  <2>4. \A q \in Procs : pc'[q] \notin {"select", "dial", "wait"}
    BY <2>1, <2>2 DEF TypeOK
  <2>5. QED BY <2>1, <2>3, <2>4
<1>4. QED BY <1>1, <1>2, <1>3

\* Close finds the lock free, so nobody is dialling.
LEMMA CloseInv ==
    ASSUME IInv, Close
    PROVE  IInv'
BY DEF IInv, TypeOK, SingleConnection, DroppedBeforeDial, Close, connVars, stopVars

\* The invariant is inductive.
LEMMA NextInv == IInv /\ [Next]_vars => IInv'
<1> SUFFICES ASSUME IInv, [Next]_vars PROVE IInv'
  OBVIOUS
<1>1. CASE UNCHANGED vars
  BY <1>1 DEF vars, IInv, TypeOK, SingleConnection, DroppedBeforeDial
<1>2. ASSUME NEW p \in Procs, ReadClient(p) \/ Locks(p) \/ Works(p) PROVE IInv'
  BY <1>2, ReaderInv, LockInv, DialInv, FlagInv DEF Locks, Works
<1>3. QED
  BY <1>1, <1>2, EnvironmentInv, CloseInv DEF Next

\* The whole invariant holds in every reachable state.
LEMMA Invariance == Spec => []IInv
BY InitInv, NextInv, PTL DEF Spec

\* connectLocked is only ever executed by the holder of the write lock, and a
\* goroutine only uses a client it has read.
THEOREM TypeCorrect == Spec => []TypeOK
BY Invariance, PTL DEF IInv

\* The manager owns a single connection: no race of connects, reconnects,
\* cancellations and Close leaves another one open.
THEOREM OwnsSingleConnection == Spec => []SingleConnection
BY Invariance, PTL DEF IInv

-----------------------------------------------------------------------------
(* Recovery and outage last: the safety part of Recovers and OutageShows *)

\* The agent has recovered: the client works, the health flag says so, nobody
\* is on the way to clear the flag or to drop the client, and the health loop
\* is not about to judge an older one.
Recovered ==
    /\ started /\ ~ctxDone
    /\ client \in good /\ libvirtConnected
    /\ \A p \in Procs : pc[p] \notin {"clear", "relock"}
    /\ held[Health] \in {Nil, client}

\* A step that neither cancels the context nor loses the client keeps the
\* agent recovered: the write lock is only taken to find the client in order.
LEMMA NextRecovered ==
    ASSUME IInv, Recovered, [Next]_vars, ~ctxDone', client \in good'
    PROVE  Recovered'
<1> USE DEF Recovered, connVars, stopVars
<1>1. client # Nil /\ client \in live
  BY NilAssumption DEF IInv, TypeOK, SingleConnection
<1>2. Health \in Procs
  BY DEF Procs
<1>3. \A p \in Procs : pc[p] \notin {"select", "dial", "wait", "clear", "relock"}
  BY <1>1 DEF IInv, DroppedBeforeDial
<1>4. ASSUME NEW p \in Procs, ReadClient(p) \/ RereadClient(p)
      PROVE  Recovered'
  BY <1>1, <1>2, <1>4 DEF ReadClient, RereadClient, GoTo, IInv, TypeOK
<1>5. ASSUME NEW p \in Procs, LockConnect(p)
      PROVE  Recovered'
  BY <1>2, <1>5 DEF LockConnect, GoTo, IInv, TypeOK
<1>6. ASSUME NEW p \in Procs, CheckClient(p)
      PROVE  Recovered'
  BY <1>2, <1>6 DEF CheckClient, Connected, GoTo, IInv, TypeOK
<1>7. ASSUME NEW p \in Procs, UseClient(p) \/ SetConnected(p)
      PROVE  Recovered'
  <2>0. CASE SetConnected(p)
    BY <1>2, <2>0 DEF SetConnected, GoTo, IInv, TypeOK
  <2> SUFFICES ASSUME UseClient(p) PROVE Recovered'
    BY <1>7, <2>0
  <2>1. p = Health => held[p] \in good \cap live
    BY <1>1 DEF UseClient, IInv, TypeOK
  <2>2. QED BY <1>2, <2>1 DEF UseClient, GoTo, IInv, TypeOK
<1>8. ASSUME NEW p \in Procs, ReadClient(p) \/ Locks(p) \/ Works(p)
      PROVE  Recovered'
  <2>1. ~ \/ LockReconnect(p) \/ CheckContext(p) \/ ConnectCancelled(p)
          \/ (\E c \in Conns : Dial(p, c)) \/ DialFails(p) \/ WaitEnds(p)
          \/ ClearConnected(p)
    BY <1>3 DEF LockReconnect, CheckContext, ConnectCancelled, Dial, DialFails, WaitEnds,
                ClearConnected
  <2>2. QED BY <1>4, <1>5, <1>6, <1>7, <1>8, <2>1 DEF Locks, Works
<1>9. CASE \/ LibvirtDown \/ LibvirtUp \/ \E c \in Conns : ConnDrops(c)
           \/ \E p \in Handlers : RPCCancelled(p)
  BY <1>9 DEF LibvirtDown, LibvirtUp, ConnDrops, RPCCancelled
<1>10. CASE Cancel \/ StopServer \/ Close \/ UNCHANGED vars
  BY <1>10 DEF Cancel, StopServer, Close, vars
<1>11. QED BY <1>8, <1>9, <1>10 DEF Next

\* For any number of loops and handlers: once the agent has recovered it stays
\* so, whatever the goroutines do and however RPCs are cancelled, until the
\* connection is lost or the agent is told to stop.
THEOREM RecoveryIsFinal ==
    Spec => [][Recovered /\ ~ctxDone' /\ client \in good' => Recovered']_vars
<1>1. IInv /\ [Next]_vars => [Recovered /\ ~ctxDone' /\ client \in good' => Recovered']_vars
  BY NextRecovered
<1>2. QED BY <1>1, Invariance, PTL DEF Spec

\* libvirtd serves no connection while it is down.
NoneServed == ~up => good = {}

\* A connection is only opened by a libvirtd that is up.
LEMMA NextNoneServed == IInv /\ NoneServed /\ [Next]_vars => NoneServed'
<1> SUFFICES ASSUME IInv, NoneServed, [Next]_vars PROVE NoneServed'
  OBVIOUS
<1> USE DEF NoneServed, connVars, stopVars
<1>1. ASSUME NEW p \in Procs, ReadClient(p) \/ Locks(p)
      PROVE  UNCHANGED <<good, up>>
  BY <1>1 DEF ReadClient, Locks, LockConnect, LockReconnect, RereadClient
<1>2. ASSUME NEW p \in Procs, Works(p)
      PROVE  up' = up /\ (good' = good \/ up)
  <2>1. CASE CheckClient(p) \/ UseClient(p) \/ SetConnected(p) \/ ClearConnected(p)
    BY <2>1 DEF CheckClient, UseClient, SetConnected, ClearConnected
  <2>2. CASE CheckContext(p) \/ ConnectCancelled(p) \/ DialFails(p) \/ WaitEnds(p)
    BY <2>2 DEF CheckContext, ConnectCancelled, DialFails, WaitEnds
  <2>3. CASE \E c \in Conns : Dial(p, c)
    BY <2>3 DEF Dial
  <2>4. QED BY <1>2, <2>1, <2>2, <2>3 DEF Works
<1>3. CASE \/ LibvirtDown \/ LibvirtUp \/ \E c \in Conns : ConnDrops(c)
           \/ \E p \in Handlers : RPCCancelled(p)
  BY <1>3 DEF LibvirtDown, LibvirtUp, ConnDrops, RPCCancelled
<1>4. CASE Cancel \/ StopServer \/ Close \/ UNCHANGED vars
  BY <1>4 DEF Cancel, StopServer, Close, vars
<1>5. QED BY <1>1, <1>2, <1>3, <1>4 DEF Next

\* The outage shows: libvirtd is down, the flag is cleared, and no verdict
\* from before the outage is still to be written to it.
OutageVisible ==
    ~up /\ ~libvirtConnected /\ \A p \in Procs : pc[p] # "flag"

\* During an outage nobody comes to set the flag: a connect needs an answer of
\* libvirtd, and a client that is still there fails the version check.
LEMMA NextOutage ==
    ASSUME IInv, NoneServed, [Next]_vars, OutageVisible, ~up'
    PROVE  OutageVisible'
<1> USE DEF OutageVisible, connVars, stopVars
<1>1. good = {}
  BY DEF NoneServed
<1>2. ASSUME NEW p \in Procs, ReadClient(p) \/ Locks(p)
      PROVE  OutageVisible'
  BY <1>2 DEF ReadClient, Locks, LockConnect, LockReconnect, RereadClient, GoTo, IInv, TypeOK
<1>3. ASSUME NEW p \in Procs, Works(p)
      PROVE  OutageVisible'
  <2>1. CASE CheckClient(p) \/ UseClient(p)
    BY <1>1, <2>1 DEF CheckClient, UseClient, GoTo, IInv, TypeOK
  <2>2. CASE CheckContext(p) \/ ConnectCancelled(p) \/ DialFails(p) \/ WaitEnds(p)
    BY <2>2 DEF CheckContext, ConnectCancelled, DialFails, WaitEnds, GoTo, IInv, TypeOK
  <2>3. CASE SetConnected(p) \/ ClearConnected(p)
    BY <2>3 DEF SetConnected, ClearConnected, GoTo, IInv, TypeOK
  <2>4. ~ \E c \in Conns : Dial(p, c)
    BY DEF Dial
  <2>5. QED BY <1>3, <2>1, <2>2, <2>3, <2>4 DEF Works
<1>4. CASE \/ LibvirtDown \/ LibvirtUp \/ \E c \in Conns : ConnDrops(c)
           \/ \E p \in Handlers : RPCCancelled(p)
  BY <1>4 DEF LibvirtDown, LibvirtUp, ConnDrops, RPCCancelled
<1>5. CASE Cancel \/ StopServer \/ Close \/ UNCHANGED vars
  BY <1>5 DEF Cancel, StopServer, Close, vars
<1>6. QED BY <1>2, <1>3, <1>4, <1>5 DEF Next

\* For any number of loops and handlers: once an outage shows in the health
\* flag and no earlier verdict is about to overwrite it, it shows for as long
\* as libvirtd is down.  (A verdict reached before the outage may still raise
\* the flag once: SetLibvirtConnected is called after the lock is released.)
THEOREM OutageStaysVisible ==
    Spec => [][OutageVisible /\ ~up' => OutageVisible']_vars
<1>1. Init => NoneServed
  BY DEF Init, NoneServed
<1>2. IInv /\ NoneServed /\ [Next]_vars => [OutageVisible /\ ~up' => OutageVisible']_vars
  BY NextOutage
<1>3. QED BY <1>1, <1>2, Invariance, NextNoneServed, PTL DEF Spec
=============================================================================
