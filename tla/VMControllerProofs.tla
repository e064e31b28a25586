------------------------- MODULE VMControllerProofs -------------------------
(***************************************************************************)
(* Proofs about VMController, for any handlers, VMs, images, requests and  *)
(* failures: only the holder of controlMu is inside an operation, a        *)
(* defined domain has an image of its own, delete takes no image away from *)
(* a domain that runs, and the node is never overcommitted.                *)
(***************************************************************************)
EXTENDS VMController, FoldLemmas

\* The steps of each operation.
HasStep(op, step) ==
    \/ op = "create" /\ step \in {"lookup", "admit", "image", "define", "autostart", "start"}
    \/ op = "update" /\ step \in {"lookup", "config", "admit", "setVcpu", "setRam",
                                   "autostart"}
    \/ op = "delete" /\ step \in {"lookup", "config", "info", "wait", "select", "destroy",
                                   "undefine", "remove"}
    \/ op = "migrate" /\ step \in {"lookup", "state", "virshFallback", "fallback", "wait",
                                    "select", "virsh2"}

\* A handler is at a step of its operation.
Roles == \A h \in Handlers : pc[h] # "idle" => HasStep(req[h].op, pc[h])

\* Between its definition and its start a domain stays defined.
NeedsDomain(op, step) == op = "create" /\ step \in {"autostart", "start"}
Created ==
    \A h \in Handlers : NeedsDomain(req[h].op, pc[h]) => Persistent(req[h].name)

TInv == TypeOK /\ Roles /\ Created

\* What a request of each operation consists of.
LEMMA RequestTypes ==
    ASSUME NEW q \in Requests
    PROVE  /\ q # Nil /\ q.name \in Names /\ q.op \in {"create", "update", "delete", "migrate"}
           /\ q.op = "create" => q.file \in Files /\ q.alloc \in Alloc
           /\ q.op = "update" => q.alloc \in Alloc
  <1>1. CASE q \in Creates
    BY <1>1, RequestsAssumption, NilAssumption DEF Alloc
  <1>2. CASE q \in Updates
    BY <1>2, RequestsAssumption, NilAssumption
  <1>3. CASE q \in Deletes
    BY <1>3, RequestsAssumption, NilAssumption
  <1>4. CASE q \in Migrates
    BY <1>4, RequestsAssumption, NilAssumption
  <1> QED
    BY <1>1, <1>2, <1>3, <1>4 DEF Requests

\* What libvirt is given is an allocation.
LEMMA InKiBType == ASSUME NEW alloc \in Alloc PROVE InKiB(alloc) \in Alloc
  <1>1. ASSUME NEW m \in Nat PROVE (m * Unit) % Width \in Nat
    <2>1. m * Unit \in Nat /\ Width \in Nat /\ Width > 0
      BY WidthAssumption, TotalAssumption
    <2> QED
      BY <2>1
  <1> QED
    BY <1>1 DEF InKiB, Alloc

\* A handler inside an operation has a request, and no other handler is inside one.
LEMMA Inside ==
    ASSUME TInv, NEW h \in Handlers, pc[h] # "idle"
    PROVE  /\ req[h] \in Requests /\ req[h].name \in Names
           /\ \A k \in Handlers : k # h => pc[k] = "idle"
  BY RequestTypes DEF TInv, TypeOK

\* The initial state has the types.
LEMMA InitTInv == Init => TInv
  <1> SUFFICES ASSUME Init PROVE TInv
    OBVIOUS
  <1>1. NoConfig \in [alloc : Alloc, file : Files \cup {Nil}]
    BY DEF NoConfig, Alloc
  <1>2. TypeOK
    BY <1>1, BoundsAssumption, NilAssumption DEF Init, TypeOK
  <1>3. Roles /\ Created
    BY DEF Init, Roles, Created, NeedsDomain
  <1> QED
    BY <1>2, <1>3 DEF TInv

\* Returning gives the mutex back and forgets the request.
LEMMA ReturnTInv ==
    ASSUME TInv, NEW h \in Handlers, pc[h] # "idle", Return(h),
           dom' \in [Names -> Domains \cup {Nil}], disk' \in SUBSET Files,
           faults' \in 0..MaxFaults, restarts' = restarts,
           causes' \in SUBSET {"unreadable", "stateUnknown"}
    PROVE  TInv'
  <1>1. NoConfig \in [alloc : Alloc, file : Files \cup {Nil}]
    BY DEF NoConfig, Alloc
  <1>2. TypeOK'
    BY <1>1, NilAssumption DEF TInv, TypeOK, Return
  <1>3. \A k \in Handlers : pc'[k] = "idle"
    BY Inside DEF TInv, TypeOK, Return
  <1>4. Roles' /\ Created'
    BY <1>3 DEF Roles, Created, NeedsDomain
  <1> QED
    BY <1>2, <1>4 DEF TInv

\* Going on to a step of the same operation keeps the types.
LEMMA GoToTInv ==
    ASSUME TInv, NEW h \in Handlers, pc[h] # "idle",
           NEW step, HasStep(req[h].op, step), GoTo(h, step),
           NeedsDomain(req[h].op, step) => Persistent(req[h].name)',
           dom' \in [Names -> Domains \cup {Nil}], disk' \in SUBSET Files,
           cfg' \in [Handlers -> [alloc : Alloc, file : Files \cup {Nil}]],
           faults' \in 0..MaxFaults, restarts' = restarts,
           causes' \in SUBSET {"unreadable", "stateUnknown"}
    PROVE  TInv'
  <1>1. step # "idle" /\ step \in {"lookup", "config", "admit", "image", "define", "autostart",
                            "start", "setVcpu", "setRam", "info", "wait", "select", "destroy",
                            "undefine", "remove", "state", "virshFallback", "fallback",
                            "virsh2"}
    BY DEF HasStep
  <1>2. TypeOK'
    BY <1>1 DEF TInv, TypeOK, GoTo
  <1>3. Roles'
    BY DEF TInv, TypeOK, Roles, GoTo
  <1>4. /\ req' = req /\ pc'[h] = step
        /\ \A k \in Handlers \ {h} : pc'[k] = "idle"
    BY Inside DEF TInv, TypeOK, GoTo
  <1>5. Created'
    BY <1>4 DEF Created, NeedsDomain, Persistent, Exists
  <1> QED
    BY <1>2, <1>3, <1>5 DEF TInv

\* The number of faults stays within its bound.
LEMMA FaultBound == ASSUME TypeOK, Fault PROVE faults' \in 0..MaxFaults
  BY BoundsAssumption DEF TypeOK, Fault

\* The failure of a call is a return.
LEMMA FailsTInv ==
    ASSUME TInv, NEW h \in Handlers, pc[h] # "idle", Fails(h)
    PROVE  TInv'
  BY ReturnTInv, FaultBound DEF Fails, TInv, TypeOK

\* The steps of the world outside the handlers.
World ==
    \/ Restart
    \/ \E n \in Names : GuestShutsDown(n) \/ GuestStops(n)
    \/ \E s \in Services : Hangs(s) \/ Recovers(s)

\* Guests change states of domains, a restart frees everything, and a service
\* that hangs or recovers changes nothing else.
LEMMA WorldTInv ==
    ASSUME TInv, World
    PROVE  TInv'
  <1>1. CASE Restart
    <2>1. NoConfig \in [alloc : Alloc, file : Files \cup {Nil}]
      BY DEF NoConfig, Alloc
    <2>2. TypeOK'
      BY <1>1, <2>1, BoundsAssumption, NilAssumption DEF Restart, TInv, TypeOK
    <2>3. Roles' /\ Created'
      BY <1>1 DEF Restart, Roles, Created, NeedsDomain
    <2> QED
      BY <2>2, <2>3 DEF TInv
  <1>2. ASSUME NEW n \in Names, GuestShutsDown(n) \/ GuestStops(n)
        PROVE  TInv'
    <2>1. dom[n] \in Domains
      BY <1>2 DEF GuestShutsDown, GuestStops, IsDomainRunning, Exists, TInv, TypeOK
    <2>2. [dom[n] EXCEPT !.state = "shutdown"] \in Domains
          /\ Stopped(dom[n]) \in Domains \cup {Nil}
      BY <2>1 DEF Domains, Stopped
    <2>3. dom' \in [Names -> Domains \cup {Nil}]
      BY <1>2, <2>2 DEF GuestShutsDown, GuestStops, TInv, TypeOK
    <2>4. UNCHANGED <<disk, hung, mu, pc, req, cfg, faults, restarts, causes>>
      BY <1>2 DEF GuestShutsDown, GuestStops, handlerVars
    <2>5. \A m \in Names : Persistent(m) => Persistent(m)'
      BY <1>2, <2>1, NilAssumption
      DEF GuestShutsDown, GuestStops, Persistent, Exists, Stopped, TInv, TypeOK, Domains
    <2>6. Created'
      <3> SUFFICES ASSUME NEW h \in Handlers, NeedsDomain(req[h].op, pc[h])
                   PROVE  Persistent(req[h].name)'
        BY <2>4 DEF Created
      <3>1. req[h].name \in Names /\ Persistent(req[h].name)
        BY Inside DEF NeedsDomain, TInv, Created
      <3> QED
        BY <2>4, <2>5, <3>1 DEF Persistent, Exists
    <2> QED
      BY <2>3, <2>4, <2>6 DEF TInv, TypeOK, Roles
  <1>3. ASSUME NEW s \in Services, Hangs(s) \/ Recovers(s)
        PROVE  TInv'
    <2>1. /\ hung' \in SUBSET Services /\ faults' \in 0..MaxFaults
          /\ UNCHANGED <<dom, disk, mu, pc, req, cfg, restarts, causes>>
      BY <1>3, FaultBound DEF Hangs, Recovers, handlerVars, TInv, TypeOK
    <2> QED
      BY <2>1 DEF TInv, TypeOK, Roles, Created, Persistent, Exists
  <1> QED
    BY <1>1, <1>2, <1>3 DEF World

\* An operation begins with the lookup.
LEMMA BeginTInv ==
    ASSUME TInv, NEW h \in Handlers, NEW q \in Requests, Begin(h, q)
    PROVE  TInv'
  <1>1. HasStep(q.op, "lookup")
    BY RequestTypes DEF HasStep
  <1>2. /\ pc' = [pc EXCEPT ![h] = "lookup"] /\ req' = [req EXCEPT ![h] = q]
        /\ mu = Nil /\ mu' = h /\ q # Nil
        /\ UNCHANGED <<dom, disk, hung, cfg, faults, restarts, causes>>
    BY RequestTypes DEF Begin
  <1>3. TypeOK'
    BY <1>1, <1>2, NilAssumption DEF TInv, TypeOK
  <1>4. Roles'
    BY <1>1, <1>2 DEF TInv, TypeOK, Roles
  <1>5. Created'
    BY <1>1, <1>2 DEF TInv, TypeOK, Created, NeedsDomain, Persistent, Exists
  <1> QED
    BY <1>3, <1>4, <1>5 DEF TInv

\* A step that goes on or returns, with the domains and images given.
LEMMA StepTInv ==
    ASSUME TInv, NEW h \in Handlers, pc[h] # "idle",
           \/ Return(h)
           \/ /\ UNCHANGED cfg
              /\ \E step :
                     /\ HasStep(req[h].op, step) /\ GoTo(h, step)
                     /\ NeedsDomain(req[h].op, step) => Persistent(req[h].name)',
           dom' \in [Names -> Domains \cup {Nil}], disk' \in SUBSET Files,
           faults' = faults \/ Fault, UNCHANGED restarts,
           causes' \in SUBSET {"unreadable", "stateUnknown"}
    PROVE  TInv'
  <1>1. faults' \in 0..MaxFaults
    BY FaultBound DEF TInv, TypeOK
  <1>2. CASE Return(h)
    BY <1>1, <1>2, ReturnTInv
  <1>3. ASSUME NEW step, UNCHANGED cfg, HasStep(req[h].op, step), GoTo(h, step),
               NeedsDomain(req[h].op, step) => Persistent(req[h].name)'
        PROVE  TInv'
    <2>1. cfg' \in [Handlers -> [alloc : Alloc, file : Files \cup {Nil}]]
      BY <1>3 DEF TInv, TypeOK
    <2> QED
      BY <1>1, <1>3, <2>1, GoToTInv
  <1> QED
    BY <1>2, <1>3

\* The lookup goes on to a step of the operation.
LEMMA LookupTInv ==
    ASSUME TInv, NEW h \in Handlers, Lookup(h)
    PROVE  TInv'
  <1>1. pc[h] # "idle" /\ req[h] \in Requests
    BY Inside DEF Lookup, At
  <1>2. CASE Fails(h)
    BY <1>1, <1>2, FailsTInv
  <1>3. CASE Return(h) /\ UNCHANGED <<dom, disk, faults, restarts, causes>>
    BY <1>1, <1>3, StepTInv DEF TInv, TypeOK
  <1>4. CASE /\ FirstStep(req[h]) # "idle" /\ GoTo(h, FirstStep(req[h]))
             /\ UNCHANGED <<dom, disk, cfg, faults, restarts, causes>>
    <2>1. /\ HasStep(req[h].op, FirstStep(req[h]))
          /\ ~NeedsDomain(req[h].op, FirstStep(req[h]))
      BY <1>1, <1>4, RequestTypes DEF FirstStep, HasStep, NeedsDomain
    <2> QED
      BY <1>1, <1>4, <2>1, StepTInv DEF TInv, TypeOK
  <1> QED
    BY <1>2, <1>3, <1>4 DEF Lookup

\* The configuration is read, and admission decided.
LEMMA ReadTInv ==
    ASSUME TInv, NEW h \in Handlers, ReadConfig(h) \/ CheckAdmission(h)
    PROVE  TInv'
  <1>1. CASE ReadConfig(h)
    <2> DEFINE n == req[h].name
    <2>1. pc[h] = "config" /\ pc[h] # "idle" /\ n \in Names
      BY <1>1, Inside DEF ReadConfig, At
    <2>2. CASE Fails(h)
      BY <2>1, <2>2, FailsTInv
    <2>3. CASE Return(h) /\ UNCHANGED <<dom, disk, faults, restarts, causes>>
      BY <2>1, <2>3, StepTInv DEF TInv, TypeOK
    <2>4. CASE /\ Exists(n) /\ cfg' = [cfg EXCEPT ![h] = Config(n)]
               /\ GoTo(h, IF req[h].op = "update" THEN "admit" ELSE "info")
               /\ UNCHANGED <<dom, disk, faults, restarts, causes>>
      <3>1. Config(n) \in [alloc : Alloc, file : Files \cup {Nil}]
        BY <2>1, <2>4 DEF Exists, Config, TInv, TypeOK, Domains
      <3>2. cfg' \in [Handlers -> [alloc : Alloc, file : Files \cup {Nil}]]
        BY <2>4, <3>1 DEF TInv, TypeOK
      <3>3. /\ HasStep(req[h].op, IF req[h].op = "update" THEN "admit" ELSE "info")
            /\ ~NeedsDomain(req[h].op, IF req[h].op = "update" THEN "admit" ELSE "info")
        BY <2>1 DEF TInv, Roles, HasStep, NeedsDomain
      <3> QED
        BY <2>1, <2>4, <3>2, <3>3, GoToTInv DEF TInv, TypeOK
    <2> QED
      BY <1>1, <2>2, <2>3, <2>4 DEF ReadConfig
  <1>2. CASE CheckAdmission(h)
    <2>1. pc[h] = "admit" /\ pc[h] # "idle"
      BY <1>2 DEF CheckAdmission, At
    <2>2. /\ HasStep(req[h].op, IF req[h].op = "create" THEN "image" ELSE "setVcpu")
          /\ ~NeedsDomain(req[h].op, IF req[h].op = "create" THEN "image" ELSE "setVcpu")
      BY <2>1 DEF TInv, Roles, HasStep, NeedsDomain
    <2>3. \/ Fails(h)
          \/ /\ \/ Return(h)
                \/ /\ UNCHANGED cfg
                   /\ GoTo(h, IF req[h].op = "create" THEN "image" ELSE "setVcpu")
             /\ faults' = faults \/ Fault
             /\ causes' = causes \/ causes' = causes \cup {"unreadable"}
             /\ UNCHANGED <<dom, disk, restarts>>
      BY <1>2, Zenon DEF CheckAdmission
    <2>4. CASE Fails(h)
      BY <2>1, <2>4, FailsTInv
    <2> QED
      BY <2>1, <2>2, <2>3, <2>4, StepTInv DEF TInv, TypeOK
  <1> QED
    BY <1>1, <1>2

\* The steps of CreateVM; SetAutostart is also one of UpdateVM.
LEMMA CreateTInv ==
    ASSUME TInv, NEW h \in Handlers,
           EnsureDiskImage(h) \/ DefineXML(h) \/ SetAutostart(h) \/ Start(h)
    PROVE  TInv'
  <1>1. CASE EnsureDiskImage(h)
    <2>1. pc[h] = "image" /\ pc[h] # "idle" /\ req[h] \in Requests /\ req[h].op = "create"
      BY <1>1, Inside DEF EnsureDiskImage, At, TInv, Roles, HasStep
    <2>2. /\ req[h].file \in Files
          /\ HasStep(req[h].op, "define") /\ ~NeedsDomain(req[h].op, "define")
      BY <2>1, RequestTypes DEF HasStep, NeedsDomain
    <2>3. /\ Return(h) \/ (GoTo(h, "define") /\ UNCHANGED cfg)
          /\ disk' \in {disk, disk \cup {req[h].file}}
          /\ faults' = faults \/ Fault
          /\ UNCHANGED <<dom, restarts, causes>>
      BY <1>1 DEF EnsureDiskImage
    <2> QED
      BY <2>1, <2>2, <2>3, StepTInv DEF TInv, TypeOK
  <1>2. CASE DefineXML(h)
    <2> DEFINE d == [max |-> req[h].alloc, cur |-> InKiB(req[h].alloc), state |-> "off",
                     persistent |-> TRUE, file |-> req[h].file]
               step == IF req[h].autostart THEN "autostart" ELSE "start"
    <2>1. pc[h] = "define" /\ pc[h] # "idle" /\ req[h] \in Requests /\ req[h].op = "create"
      BY <1>2, Inside DEF DefineXML, At, TInv, Roles, HasStep
    <2>2. d \in Domains /\ HasStep(req[h].op, step)
      BY <2>1, RequestTypes, InKiBType DEF Domains, HasStep
    <2>3. \/ Fails(h)
          \/ /\ \/ /\ dom' = [dom EXCEPT ![req[h].name] = d]
                   /\ GoTo(h, step) /\ UNCHANGED cfg
                \/ Return(h) /\ dom' = dom
             /\ UNCHANGED <<disk, faults, restarts, causes>>
      BY <1>2 DEF DefineXML
    <2>4. CASE Fails(h)
      BY <2>1, <2>4, FailsTInv
    <2> HIDE DEF d, step
    <2>5. CASE /\ dom' = [dom EXCEPT ![req[h].name] = d]
               /\ GoTo(h, step) /\ UNCHANGED cfg
               /\ UNCHANGED <<disk, faults, restarts, causes>>
      <3>1. dom' \in [Names -> Domains \cup {Nil}]
        BY <2>2, <2>5 DEF TInv, TypeOK
      <3>2. Persistent(req[h].name)'
        <4>1. d.persistent /\ d # Nil
          BY <2>2, NilAssumption DEF d
        <4>2. req'[h].name = req[h].name /\ dom'[req[h].name] = d
          BY <2>1, <2>5, RequestTypes DEF GoTo, TInv, TypeOK
        <4> QED
          BY <4>1, <4>2 DEF Persistent, Exists
      <3> QED
        BY <2>1, <2>2, <2>5, <3>1, <3>2, StepTInv DEF TInv, TypeOK
    <2>6. CASE Return(h) /\ dom' = dom /\ UNCHANGED <<disk, faults, restarts, causes>>
      BY <2>1, <2>6, StepTInv DEF TInv, TypeOK
    <2> QED
      BY <2>3, <2>4, <2>5, <2>6
  <1>3. CASE SetAutostart(h)
    <2>1. pc[h] = "autostart" /\ pc[h] # "idle"
      BY <1>3 DEF SetAutostart, At
    <2>2. \/ Fails(h)
          \/ /\ \/ req[h].op = "create" /\ GoTo(h, "start") /\ UNCHANGED cfg
                \/ Return(h)
             /\ UNCHANGED <<dom, disk, faults, restarts, causes>>
      BY <1>3 DEF SetAutostart
    <2>3. CASE Fails(h)
      BY <2>1, <2>3, FailsTInv
    <2>4. CASE Return(h) /\ UNCHANGED <<dom, disk, faults, restarts, causes>>
      BY <2>1, <2>4, StepTInv DEF TInv, TypeOK
    <2>5. CASE /\ req[h].op = "create" /\ GoTo(h, "start") /\ UNCHANGED cfg
               /\ UNCHANGED <<dom, disk, faults, restarts, causes>>
      <3>1. HasStep(req[h].op, "start")
        BY <2>5 DEF HasStep
      <3>2. Persistent(req[h].name)'
        BY <2>1, <2>5 DEF TInv, Created, NeedsDomain, GoTo, Persistent, Exists
      <3> QED
        BY <2>1, <2>5, <3>1, <3>2, StepTInv DEF TInv, TypeOK
    <2> QED
      BY <2>2, <2>3, <2>4, <2>5
  <1>4. CASE Start(h)
    <2>1. pc[h] = "start" /\ pc[h] # "idle"
      BY <1>4 DEF Start, At
    <2>2. \/ Fails(h)
          \/ /\ \/ dom' = dom
                \/ dom' = [dom EXCEPT ![req[h].name].state = "running"]
             /\ Return(h)
             /\ UNCHANGED <<disk, faults, restarts, causes>>
      BY <1>4 DEF Start
    <2>3. CASE Fails(h)
      BY <2>1, <2>3, FailsTInv
    <2>4. ~Fails(h) => dom' \in [Names -> Domains \cup {Nil}]
      <3>1. req[h].op = "create" /\ req[h].name \in Names
        BY <2>1, Inside DEF TInv, Roles, HasStep
      <3>2. dom[req[h].name] \in Domains
        BY <2>1, <3>1 DEF TInv, TypeOK, Created, NeedsDomain, Persistent, Exists
      <3>3. [dom[req[h].name] EXCEPT !.state = "running"] \in Domains
        BY <3>2 DEF Domains
      <3> QED
        BY <2>2, <3>1, <3>3 DEF TInv, TypeOK
    <2> QED
      BY <2>1, <2>2, <2>3, <2>4, StepTInv DEF TInv, TypeOK
  <1> QED
    BY <1>1, <1>2, <1>3, <1>4

\* Setting one resource of a defined domain.
LEMMA SetResourceTInv ==
    ASSUME TInv, NEW h \in Handlers, pc[h] \in {"setVcpu", "setRam"},
           NEW r \in Resources, SetResource(h, r)
    PROVE  TInv'
  <1> DEFINE n == req[h].name
             given == InKiB(Desired(h))[r]
             next == IF r = "vcpu" THEN "setRam" ELSE "autostart"
  <1>1. pc[h] # "idle" /\ req[h] \in Requests /\ n \in Names /\ req[h].op = "update"
    BY Inside DEF TInv, Roles, HasStep
  <1>2. given \in Nat
    <2>1. req[h].alloc \in Alloc /\ cfg[h].alloc \in Alloc
      BY <1>1, RequestTypes DEF TInv, TypeOK
    <2>2. Desired(h) \in Alloc
      BY <1>1, <2>1 DEF Desired, Alloc, Resources
    <2>3. InKiB(Desired(h)) \in Alloc
      BY <2>2, InKiBType
    <2> QED
      BY <2>3 DEF Alloc, Resources
  <1>3. HasStep(req[h].op, next) /\ ~NeedsDomain(req[h].op, next)
    BY <1>1 DEF HasStep, NeedsDomain
  <1>4. \/ Fails(h)
        \/ /\ \/ dom' = dom
              \/ Persistent(n) /\ dom' = [dom EXCEPT ![n].cur[r] = given]
           /\ Return(h) \/ (GoTo(h, next) /\ UNCHANGED cfg)
           /\ UNCHANGED <<disk, faults, restarts, causes>>
    BY DEF SetResource
  <1> HIDE DEF given, next
  <1>5. CASE Fails(h)
    BY <1>1, <1>5, FailsTInv
  <1>6. ~Fails(h) => dom' \in [Names -> Domains \cup {Nil}]
    <2>1. Persistent(n) => [dom[n] EXCEPT !.cur[r] = given] \in Domains
      <3> SUFFICES ASSUME Persistent(n) PROVE [dom[n] EXCEPT !.cur[r] = given] \in Domains
        OBVIOUS
      <3>1. dom[n] \in Domains
        BY <1>1 DEF Persistent, Exists, TInv, TypeOK
      <3>2. [dom[n].cur EXCEPT ![r] = given] \in Alloc
        BY <1>2, <3>1 DEF Domains, Alloc, Resources
      <3> QED
        BY <3>1, <3>2 DEF Domains
    <2> QED
      BY <1>1, <1>4, <2>1 DEF TInv, TypeOK
  <1> QED
    BY <1>1, <1>3, <1>4, <1>5, <1>6, StepTInv DEF TInv, TypeOK

\* A domain stays one when it loses its definition; its other fields are kept.
LEMMA Transient ==
    ASSUME NEW d \in Domains
    PROVE  /\ [d EXCEPT !.persistent = FALSE] \in Domains
           /\ ~[d EXCEPT !.persistent = FALSE].persistent
           /\ [d EXCEPT !.persistent = FALSE].state = d.state
           /\ [d EXCEPT !.persistent = FALSE].file = d.file
  <1>1. ASSUME NEW b \in BOOLEAN
        PROVE  /\ [d EXCEPT !.persistent = b] \in Domains
               /\ [d EXCEPT !.persistent = b].persistent = b
               /\ [d EXCEPT !.persistent = b].state = d.state
               /\ [d EXCEPT !.persistent = b].file = d.file
    BY <1>1 DEF Domains
  <1>2. FALSE \in BOOLEAN
    OBVIOUS
  <1> QED
    BY <1>1, <1>2, Zenon

\* The steps of DeleteVM, and the wait that MigrateVM shares.
LEMMA DeleteTInv ==
    ASSUME TInv, NEW h \in Handlers,
           \/ ShutdownIfRunning(h) \/ Poll(h) \/ SelectTick(h) \/ SelectDeadline(h)
           \/ Destroy(h) \/ Undefine(h) \/ RemoveDisk(h)
    PROVE  TInv'
  <1>1. /\ pc[h] # "idle" /\ req[h].name \in Names
        /\ req[h].op \in {"delete", "migrate"}
        /\ pc[h] \notin {"wait", "select"} => req[h].op = "delete"
    BY Inside
    DEF ShutdownIfRunning, Poll, SelectTick, SelectDeadline, Destroy, Undefine, RemoveDisk, At,
        TInv, Roles, HasStep
  <1>2. \A step : ~NeedsDomain(req[h].op, step)
    BY <1>1 DEF NeedsDomain
  <1>3. CASE ShutdownIfRunning(h)
    <2>1. /\ \/ Return(h)
             \/ UNCHANGED cfg /\ (GoTo(h, "wait") \/ GoTo(h, "undefine"))
          /\ faults' = faults \/ Fault
          /\ causes' \in {causes, causes \cup {"stateUnknown"}}
          /\ UNCHANGED <<dom, disk, restarts>>
      BY <1>3, Zenon DEF ShutdownIfRunning
    <2>2. HasStep(req[h].op, "wait") /\ HasStep(req[h].op, "undefine")
      BY <1>1, <1>3 DEF ShutdownIfRunning, At, HasStep
    <2> QED
      BY <1>1, <1>2, <2>1, <2>2, StepTInv DEF TInv, TypeOK
  <1>4. CASE Poll(h) \/ SelectTick(h) \/ SelectDeadline(h)
    <2>1. /\ \/ Return(h)
             \/ /\ UNCHANGED cfg
                /\ \E step : HasStep(req[h].op, step) /\ GoTo(h, step)
          /\ faults' = faults \/ Fault
          /\ UNCHANGED <<dom, disk, restarts, causes>>
      BY <1>1, <1>4 DEF Poll, SelectTick, SelectDeadline, HasStep
    <2> QED
      BY <1>1, <1>2, <2>1, StepTInv DEF TInv, TypeOK
  <1>5. CASE Destroy(h)
    <2> DEFINE n == req[h].name
    <2>1. \/ Fails(h)
          \/ /\ \/ /\ Active(dom[n]) /\ dom' = [dom EXCEPT ![n] = Stopped(@)]
                   /\ GoTo(h, "undefine") /\ UNCHANGED cfg
                \/ dom' = dom /\ Return(h)
             /\ UNCHANGED <<disk, faults, restarts, causes>>
      BY <1>5 DEF Destroy
    <2>2. Active(dom[n]) => Stopped(dom[n]) \in Domains \cup {Nil}
      BY <1>1 DEF Active, Stopped, TInv, TypeOK, Domains
    <2>3. ~Fails(h) => dom' \in [Names -> Domains \cup {Nil}]
      BY <1>1, <2>1, <2>2 DEF TInv, TypeOK
    <2>4. HasStep(req[h].op, "undefine")
      BY <1>1, <1>5 DEF Destroy, At, HasStep
    <2> QED
      BY <1>1, <1>2, <2>1, <2>3, <2>4, StepTInv, FailsTInv DEF TInv, TypeOK
  <1>6. CASE Undefine(h)
    <2> DEFINE n == req[h].name
    <2>1. \/ Fails(h)
          \/ /\ \/ /\ Persistent(n)
                   /\ dom' = [dom EXCEPT ![n] = IF @.state = "off" THEN Nil
                                                ELSE [@ EXCEPT !.persistent = FALSE]]
                   /\ GoTo(h, "remove") /\ UNCHANGED cfg
                \/ dom' = dom /\ Return(h)
             /\ UNCHANGED <<disk, faults, restarts, causes>>
      BY <1>6 DEF Undefine
    <2>2. Persistent(n) => [dom[n] EXCEPT !.persistent = FALSE] \in Domains
      <3>1. Persistent(n) => dom[n] \in Domains
        BY <1>1 DEF Persistent, Exists, TInv, TypeOK
      <3> QED
        BY <3>1, Transient
    <2>3. ~Fails(h) => dom' \in [Names -> Domains \cup {Nil}]
      BY <1>1, <2>1, <2>2 DEF TInv, TypeOK
    <2>4. HasStep(req[h].op, "remove")
      BY <1>1, <1>6 DEF Undefine, At, HasStep
    <2> QED
      BY <1>1, <1>2, <2>1, <2>3, <2>4, StepTInv, FailsTInv DEF TInv, TypeOK
  <1>7. CASE RemoveDisk(h)
    <2>1. /\ disk' \subseteq disk /\ Return(h)
          /\ faults' = faults \/ Fault
          /\ UNCHANGED <<dom, restarts, causes>>
      BY <1>7 DEF RemoveDisk
    <2> QED
      BY <1>1, <2>1, StepTInv DEF TInv, TypeOK
  <1> QED
    BY <1>3, <1>4, <1>5, <1>6, <1>7

\* The steps of MigrateVM.
LEMMA MigrateTInv ==
    ASSUME TInv, NEW h \in Handlers,
           ReadState(h) \/ VirshWithFallback(h) \/ FallbackShutdown(h) \/ Virsh(h)
    PROVE  TInv'
  <1> DEFINE n == req[h].name
  <1>1. pc[h] # "idle" /\ n \in Names /\ req[h].op = "migrate"
    BY Inside DEF ReadState, VirshWithFallback, FallbackShutdown, Virsh, At, TInv, Roles, HasStep
  <1>2. \A step \in {"virshFallback", "fallback", "wait", "virsh2"} :
            HasStep(req[h].op, step) /\ ~NeedsDomain(req[h].op, step)
    BY <1>1 DEF HasStep, NeedsDomain
  <1>3. \/ Fails(h)
        \/ /\ \/ Return(h)
              \/ /\ UNCHANGED cfg
                 /\ \E step \in {"virshFallback", "fallback", "wait", "virsh2"} : GoTo(h, step)
           /\ dom' = dom \/ Moved(h)
           /\ faults' = faults \/ Fault
           /\ UNCHANGED <<disk, restarts, causes>>
    BY DEF ReadState, VirshWithFallback, FallbackShutdown, Virsh
  <1>4. Exists(n) => [dom[n] EXCEPT !.state = "off"] \in Domains
    BY <1>1 DEF Exists, TInv, TypeOK, Domains
  <1>5. ~Fails(h) => dom' \in [Names -> Domains \cup {Nil}]
    BY <1>1, <1>3, <1>4 DEF Moved, TInv, TypeOK
  <1> QED
    BY <1>1, <1>2, <1>3, <1>5, StepTInv, FailsTInv DEF TInv, TypeOK

\* Every step keeps the types.
LEMMA NextTInv == TInv /\ [Next]_vars => TInv'
  <1> SUFFICES ASSUME TInv, [Next]_vars PROVE TInv'
    OBVIOUS
  <1>1. CASE UNCHANGED vars
    BY <1>1 DEF vars, TInv, TypeOK, Roles, Created, Persistent, Exists
  <1>2. ASSUME NEW h \in Handlers, Step(h) PROVE TInv'
    <2>1. CASE SetVcpus(h) \/ SetMemory(h)
      BY <2>1, SetResourceTInv DEF SetVcpus, SetMemory, At, Resources
    <2> QED
      BY <1>2, <2>1, LookupTInv, ReadTInv, CreateTInv, DeleteTInv, MigrateTInv DEF Step
  <1> QED
    BY <1>1, <1>2, BeginTInv, WorldTInv DEF Next, World

\* Domains, images and handlers have their types, and only the holder of
\* controlMu is inside an operation, for any handlers, requests and failures.
THEOREM TypeCorrect == Spec => []TypeOK
  <1>1. TInv => TypeOK
    BY DEF TInv
  <1> QED
    BY <1>1, InitTInv, NextTInv, PTL DEF Spec

-----------------------------------------------------------------------------
(* Disk images *)

\* What a handler relies on at a step: before the definition the new image is
\* there and nobody's; a delete knows the domain's image; it undefines a domain
\* that does not run; and it removes an image that no defined domain has.
Claim(h, step) ==
    /\ step = "define" =>
          /\ req[h].file \in disk
          /\ \A n \in Names : Persistent(n) => dom[n].file # req[h].file
    /\ /\ step \in {"info", "wait", "select", "destroy", "undefine"} /\ req[h].op = "delete"
       /\ Exists(req[h].name)
       => dom[req[h].name].file = cfg[h].file
    /\ step = "undefine" /\ "stateUnknown" \notin causes => ~IsDomainRunning(req[h].name)
    /\ step = "remove" => \A n \in Names : Persistent(n) => dom[n].file # cfg[h].file

Claims == \A h \in Handlers : Claim(h, pc[h])

\* A running domain is a defined one.
RunsDefined ==
    "stateUnknown" \notin causes => \A n \in Names : IsDomainRunning(n) => Persistent(n)

IInv == DefinedHasDisk /\ RunsDefined /\ Claims

\* A step that gives domain n no new image and no new definition, and does not
\* start it or, if it runs, undefine it.
Milder(n) ==
    \/ ~Exists(n)'
    \/ /\ Exists(n) /\ dom'[n].file = dom[n].file
       /\ Persistent(n)' => Persistent(n)
       /\ IsDomainRunning(n)' =>
             \/ IsDomainRunning(n) /\ (Persistent(n) => Persistent(n)')
             \/ "stateUnknown" \in causes

\* Such steps take no image away.
LEMMA MilderImages ==
    ASSUME DefinedHasDisk, RunsDefined, disk \subseteq disk', causes \subseteq causes',
           \A n \in Names : Milder(n)
    PROVE  DefinedHasDisk' /\ RunsDefined'
  <1>1. DefinedHasDisk'
    BY DEF DefinedHasDisk, Milder, Persistent, Exists
  <1>2. RunsDefined'
    BY DEF RunsDefined, Milder, IsDomainRunning
  <1> QED
    BY <1>1, <1>2

\* A domain that a step leaves alone is not harmed.
LEMMA SameIsMilder ==
    ASSUME NEW n \in Names, dom'[n] = dom[n]
    PROVE  Milder(n)
  BY DEF Milder, Exists, Persistent, IsDomainRunning

\* After a return no handler relies on anything.
LEMMA ReturnClaims ==
    ASSUME TInv, NEW h \in Handlers, pc[h] # "idle", Return(h)
    PROVE  Claims'
  <1>1. \A k \in Handlers : pc'[k] = "idle"
    BY Inside DEF TInv, TypeOK, Return
  <1> QED
    BY <1>1 DEF Claims, Claim

\* After a step of a handler only that handler relies on anything.
LEMMA GoToClaims ==
    ASSUME TInv, NEW h \in Handlers, pc[h] # "idle", NEW step, GoTo(h, step), Claim(h, step)'
    PROVE  Claims'
  <1>1. pc'[h] = step /\ \A k \in Handlers \ {h} : pc'[k] = "idle"
    BY Inside DEF TInv, TypeOK, GoTo
  <1> QED
    BY <1>1 DEF Claims, Claim

\* Most steps rely on nothing.
LEMMA NoClaim ==
    ASSUME NEW h \in Handlers,
           NEW step \in {"idle", "lookup", "config", "admit", "image", "autostart", "start",
                         "setVcpu", "setRam", "state", "virshFallback", "fallback", "virsh2"}
    PROVE  Claim(h, step)'
  BY DEF Claim

\* Initially there are no domains.
LEMMA InitInv == Init => IInv
  BY DEF Init, IInv, DefinedHasDisk, RunsDefined, Claims, Claim, Persistent, Exists,
         IsDomainRunning

\* A guest that stops and a restart of the agent take nothing away.
LEMMA WorldInv ==
    ASSUME TInv, IInv, World
    PROVE  IInv'
  <1>1. CASE Restart
    <2>1. UNCHANGED <<dom, disk, causes>> /\ \A h \in Handlers : pc'[h] = "idle"
      BY <1>1 DEF Restart
    <2>2. DefinedHasDisk' /\ RunsDefined'
      BY <2>1, MilderImages, SameIsMilder DEF IInv
    <2>3. Claims'
      BY <2>1 DEF Claims, Claim
    <2> QED
      BY <2>2, <2>3 DEF IInv
  <1>2. ASSUME NEW n \in Names, GuestShutsDown(n) \/ GuestStops(n)
        PROVE  IInv'
    <2>1. UNCHANGED <<disk, pc, req, cfg, causes>>
      BY <1>2 DEF GuestShutsDown, GuestStops, handlerVars
    <2>2. dom[n] \in Domains /\ \A m \in Names \ {n} : dom'[m] = dom[m]
      BY <1>2 DEF GuestShutsDown, GuestStops, IsDomainRunning, Exists, TInv, TypeOK
    <2>3. \/ dom'[n] = Nil
          \/ dom'[n] = [dom[n] EXCEPT !.state = "shutdown"]
          \/ dom'[n] = [dom[n] EXCEPT !.state = "off"]
      BY <1>2 DEF GuestShutsDown, GuestStops, Stopped, TInv, TypeOK
    <2>4. Milder(n) /\ ~IsDomainRunning(n)'
      BY <2>2, <2>3, NilAssumption DEF Milder, Exists, Persistent, IsDomainRunning, Domains
    <2>5. \A m \in Names : Milder(m) /\ (IsDomainRunning(m)' => IsDomainRunning(m))
      BY <2>2, <2>4, SameIsMilder DEF IsDomainRunning, Exists
    <2>6. DefinedHasDisk' /\ RunsDefined'
      BY <2>1, <2>5, MilderImages DEF IInv
    <2>7. Claims'
      <3> SUFFICES ASSUME NEW h \in Handlers PROVE Claim(h, pc[h])'
        BY DEF Claims
      <3>1. Claim(h, pc[h])
        BY DEF IInv, Claims
      <3>2. pc[h] # "idle" => req[h].name \in Names
        BY Inside
      <3> QED
        BY <2>1, <2>5, <3>1, <3>2 DEF Claim, Milder, Exists, Persistent, IsDomainRunning
    <2> QED
      BY <2>6, <2>7 DEF IInv
  <1>3. ASSUME NEW s \in Services, Hangs(s) \/ Recovers(s)
        PROVE  IInv'
    <2>1. UNCHANGED <<dom, disk, pc, req, cfg, causes>>
      BY <1>3 DEF Hangs, Recovers, handlerVars
    <2> QED
      BY <2>1 DEF IInv, DefinedHasDisk, RunsDefined, Claims, Claim, Persistent, Exists,
                  IsDomainRunning
  <1> QED
    BY <1>1, <1>2, <1>3 DEF World

\* A step that leaves the domains and removes no image: what is left to show
\* is what its handler relies on next.
LEMMA QuietInv ==
    ASSUME TInv, IInv, NEW h \in Handlers, pc[h] # "idle", dom' = dom,
           disk \subseteq disk', causes \subseteq causes',
           Return(h) \/ \E step : GoTo(h, step) /\ Claim(h, step)'
    PROVE  IInv'
  <1>1. DefinedHasDisk' /\ RunsDefined'
    BY MilderImages, SameIsMilder DEF IInv
  <1>2. Claims'
    BY ReturnClaims, GoToClaims
  <1> QED
    BY <1>1, <1>2 DEF IInv

\* A failing call is a quiet return.
LEMMA FailsInv ==
    ASSUME TInv, IInv, NEW h \in Handlers, pc[h] # "idle", Fails(h)
    PROVE  IInv'
  BY QuietInv DEF Fails

\* A new operation relies on nothing yet.
LEMMA BeginInv ==
    ASSUME TInv, IInv, NEW h \in Handlers, NEW q \in Requests, Begin(h, q)
    PROVE  IInv'
  <1>1. UNCHANGED <<dom, disk, causes, cfg>> /\ pc' = [pc EXCEPT ![h] = "lookup"]
    BY DEF Begin
  <1>2. \A k \in Handlers \ {h} : pc[k] = "idle"
    BY NilAssumption DEF Begin, TInv, TypeOK
  <1>3. \A k \in Handlers : pc'[k] \in {"idle", "lookup"}
    BY <1>1, <1>2 DEF TInv, TypeOK
  <1>4. Claims'
    BY <1>3, NoClaim DEF Claims
  <1>5. DefinedHasDisk' /\ RunsDefined'
    BY <1>1, MilderImages, SameIsMilder DEF IInv
  <1> QED
    BY <1>4, <1>5 DEF IInv

\* Nor does it after the lookup.
LEMMA LookupInv ==
    ASSUME TInv, IInv, NEW h \in Handlers, Lookup(h)
    PROVE  IInv'
  <1>1. pc[h] # "idle"
    BY DEF Lookup, At
  <1>2. FirstStep(req[h]) \in {"idle", "admit", "state", "config"}
    BY DEF FirstStep
  <1>3. \/ Fails(h)
        \/ /\ Return(h) \/ GoTo(h, FirstStep(req[h]))
           /\ UNCHANGED <<dom, disk, causes>>
    BY DEF Lookup
  <1> QED
    BY <1>1, <1>2, <1>3, NoClaim, FailsInv, QuietInv

\* Delete learns the domain's image from its configuration.
LEMMA ReadInv ==
    ASSUME TInv, IInv, NEW h \in Handlers, ReadConfig(h) \/ CheckAdmission(h)
    PROVE  IInv'
  <1>1. CASE ReadConfig(h)
    <2> DEFINE n == req[h].name
    <2>1. pc[h] # "idle" /\ n \in Names
      BY <1>1, Inside DEF ReadConfig, At
    <2>2. CASE Fails(h)
      BY <2>1, <2>2, FailsInv
    <2>3. CASE Return(h) /\ UNCHANGED <<dom, disk, faults, restarts, causes>>
      BY <2>1, <2>3, QuietInv
    <2>4. CASE /\ cfg' = [cfg EXCEPT ![h] = Config(n)]
               /\ GoTo(h, IF req[h].op = "update" THEN "admit" ELSE "info")
               /\ UNCHANGED <<dom, disk, faults, restarts, causes>>
      <3>1. cfg'[h].file = dom[n].file /\ req' = req
        BY <2>4 DEF TInv, TypeOK, Config, GoTo
      <3>2. Claim(h, "admit")' /\ Claim(h, "info")'
        BY <2>4, <3>1 DEF Claim
      <3> QED
        BY <2>1, <2>4, <3>2, QuietInv
    <2> QED
      BY <1>1, <2>2, <2>3, <2>4 DEF ReadConfig
  <1>2. CASE CheckAdmission(h)
    <2>1. pc[h] # "idle"
      BY <1>2 DEF CheckAdmission, At
    <2>2. \/ Fails(h)
          \/ /\ Return(h) \/ GoTo(h, "image") \/ GoTo(h, "setVcpu")
             /\ causes \subseteq causes'
             /\ UNCHANGED <<dom, disk>>
      BY <1>2, Zenon DEF CheckAdmission
    <2>3. Claim(h, "image")' /\ Claim(h, "setVcpu")'
      BY NoClaim
    <2> QED
      BY <2>1, <2>2, <2>3, FailsInv, QuietInv
  <1> QED
    BY <1>1, <1>2

\* A new image is nobody's, because every defined domain's image exists.
LEMMA ImageInv ==
    ASSUME TInv, IInv, NEW h \in Handlers, EnsureDiskImage(h)
    PROVE  IInv'
  <1>1. pc[h] # "idle"
    BY DEF EnsureDiskImage, At
  <1>2. disk \subseteq disk' /\ UNCHANGED <<dom, causes>>
    BY DEF EnsureDiskImage
  <1>3. CASE Return(h)
    BY <1>1, <1>2, <1>3, QuietInv
  <1>4. CASE /\ req[h].file \notin disk /\ disk' = disk \cup {req[h].file}
             /\ GoTo(h, "define")
    <2>1. Claim(h, "define")'
      BY <1>2, <1>4 DEF Claim, GoTo, IInv, DefinedHasDisk, Persistent, Exists
    <2> QED
      BY <1>1, <1>2, <1>4, <2>1, QuietInv
  <1> QED
    BY <1>3, <1>4 DEF EnsureDiskImage

\* The definition takes over the new image.
LEMMA DefineInv ==
    ASSUME TInv, IInv, NEW h \in Handlers, DefineXML(h)
    PROVE  IInv'
  <1> DEFINE n == req[h].name
             d == [max |-> req[h].alloc, cur |-> InKiB(req[h].alloc), state |-> "off",
                   persistent |-> TRUE, file |-> req[h].file]
  <1>1. pc[h] = "define" /\ pc[h] # "idle" /\ n \in Names
    BY Inside DEF DefineXML, At
  <1>2. CASE Fails(h)
    BY <1>1, <1>2, FailsInv
  <1>3. CASE Return(h) /\ UNCHANGED <<dom, disk, faults, restarts, causes>>
    BY <1>1, <1>3, QuietInv
  <1>4. CASE /\ dom' = [dom EXCEPT ![n] = d]
             /\ GoTo(h, "autostart") \/ GoTo(h, "start")
             /\ UNCHANGED <<disk, causes>>
    <2>1. /\ req[h].file \in disk
          /\ \A m \in Names : Persistent(m) => dom[m].file # req[h].file
      BY <1>1 DEF IInv, Claims, Claim
    <2>2. d.file = req[h].file /\ d.state = "off"
      OBVIOUS
    <2>3. dom'[n] = d /\ \A m \in Names \ {n} : dom'[m] = dom[m]
      BY <1>1, <1>4 DEF TInv, TypeOK
    <2> HIDE DEF d
    <2>4. DefinedHasDisk'
      BY <1>4, <2>1, <2>2, <2>3 DEF IInv, DefinedHasDisk, Persistent, Exists
    <2>5. RunsDefined'
      BY <1>4, <2>2, <2>3 DEF IInv, RunsDefined, IsDomainRunning, Persistent, Exists
    <2>6. Claims'
      BY <1>1, <1>4, NoClaim, GoToClaims
    <2> QED
      BY <2>4, <2>5, <2>6 DEF IInv
  <1> QED
    BY <1>2, <1>3, <1>4 DEF DefineXML

\* The domain that is started is a defined one.
LEMMA StartInv ==
    ASSUME TInv, IInv, NEW h \in Handlers, SetAutostart(h) \/ Start(h)
    PROVE  IInv'
  <1>1. pc[h] # "idle" /\ req[h].name \in Names
    BY Inside DEF SetAutostart, Start, At
  <1>2. CASE SetAutostart(h)
    <2>1. \/ Fails(h)
          \/ /\ Return(h) \/ GoTo(h, "start")
             /\ UNCHANGED <<dom, disk, causes>>
      BY <1>2 DEF SetAutostart
    <2> QED
      BY <1>1, <2>1, NoClaim, FailsInv, QuietInv
  <1>3. CASE Start(h)
    <2> DEFINE n == req[h].name
    <2>1. CASE Fails(h)
      BY <1>1, <2>1, FailsInv
    <2>2. CASE Return(h) /\ UNCHANGED <<dom, disk, causes>>
      BY <1>1, <2>2, QuietInv
    <2>3. CASE /\ dom' = [dom EXCEPT ![n].state = "running"]
               /\ Return(h) /\ UNCHANGED <<disk, causes>>
      <3>1. Persistent(n) /\ dom[n] \in Domains
        BY <1>1, <1>3
        DEF Start, At, TInv, TypeOK, Roles, HasStep, Created, NeedsDomain, Persistent, Exists
      <3>2. /\ dom'[n] = [dom[n] EXCEPT !.state = "running"]
            /\ \A m \in Names \ {n} : dom'[m] = dom[m]
        BY <1>1, <2>3 DEF TInv, TypeOK
      <3>3. /\ dom'[n].file = dom[n].file /\ dom'[n].persistent = dom[n].persistent
            /\ dom'[n] \in Domains
        BY <3>1, <3>2 DEF Domains
      <3>4. DefinedHasDisk'
        BY <2>3, <3>1, <3>2, <3>3 DEF IInv, DefinedHasDisk, Persistent, Exists
      <3>5. RunsDefined'
        BY <2>3, <3>1, <3>2, <3>3, NilAssumption
        DEF IInv, RunsDefined, Persistent, Exists, IsDomainRunning
      <3>6. Claims'
        BY <1>1, <2>3, ReturnClaims
      <3> QED
        BY <3>4, <3>5, <3>6 DEF IInv
    <2> QED
      BY <1>3, <2>1, <2>2, <2>3 DEF Start
  <1> QED
    BY <1>2, <1>3

\* A step that changes one domain for the milder.
LEMMA MilderInv ==
    ASSUME TInv, IInv, NEW h \in Handlers, pc[h] # "idle", NEW n \in Names,
           Milder(n), \A m \in Names \ {n} : dom'[m] = dom[m],
           disk' = disk, causes' = causes,
           Return(h) \/ \E step : GoTo(h, step) /\ Claim(h, step)'
    PROVE  IInv'
  <1>1. DefinedHasDisk' /\ RunsDefined'
    BY MilderImages, SameIsMilder DEF IInv
  <1>2. Claims'
    BY ReturnClaims, GoToClaims
  <1> QED
    BY <1>1, <1>2 DEF IInv

\* Update changes sizes only.
LEMMA UpdateInv ==
    ASSUME TInv, IInv, NEW h \in Handlers, SetVcpus(h) \/ SetMemory(h)
    PROVE  IInv'
  <1>1. pc[h] # "idle" /\ req[h].name \in Names
    BY Inside DEF SetVcpus, SetMemory, At
  <1>0. PICK n \in Names : n = req[h].name
    BY <1>1
  <1>2. PICK r \in Resources : SetResource(h, r)
    BY DEF SetVcpus, SetMemory, Resources
  <1>3. \/ Fails(h)
        \/ /\ \/ dom' = dom
              \/ Persistent(n) /\ dom' = [dom EXCEPT ![n].cur[r] = InKiB(Desired(h))[r]]
           /\ Return(h) \/ GoTo(h, "setRam") \/ GoTo(h, "autostart")
           /\ UNCHANGED <<disk, causes>>
    BY <1>0, <1>2 DEF SetResource
  <1>4. \A step \in {"setRam", "autostart"} : Claim(h, step)'
    BY NoClaim
  <1>5. CASE Fails(h)
    BY <1>1, <1>5, FailsInv
  <1>6. CASE Persistent(n) /\ dom' = [dom EXCEPT ![n].cur[r] = InKiB(Desired(h))[r]]
    <2>1. dom[n] \in Domains /\ \A m \in Names \ {n} : dom'[m] = dom[m]
      BY <1>1, <1>0, <1>6 DEF Persistent, Exists, TInv, TypeOK
    <2>2. /\ dom'[n].file = dom[n].file /\ dom'[n].persistent = dom[n].persistent
          /\ dom'[n].state = dom[n].state
      BY <1>1, <1>0, <1>6, <2>1 DEF TInv, TypeOK, Domains
    <2>3. Milder(n)
      BY <1>6, <2>2 DEF Milder, Persistent, Exists, IsDomainRunning
    <2> QED
      BY <1>1, <1>0, <1>3, <1>4, <1>5, <2>1, <2>3, MilderInv
  <1>7. CASE ~Fails(h) /\ dom' = dom
    BY <1>1, <1>3, <1>4, <1>7, QuietInv
  <1> QED
    BY <1>3, <1>5, <1>6, <1>7

\* Delete goes on to undefine a domain when it has seen that it does not run.
LEMMA StopInv ==
    ASSUME TInv, IInv, NEW h \in Handlers,
           \/ ShutdownIfRunning(h) \/ Poll(h) \/ SelectTick(h) \/ SelectDeadline(h)
           \/ Destroy(h)
    PROVE  IInv'
  <1>1. pc[h] # "idle" /\ req[h].name \in Names
    BY Inside DEF ShutdownIfRunning, Poll, SelectTick, SelectDeadline, Destroy, At
  <1>0. PICK n \in Names : n = req[h].name
    BY <1>1
  <1>2. /\ pc[h] \in {"info", "wait", "select", "destroy"}
        /\ pc[h] \notin {"wait", "select"} => req[h].op = "delete"
        /\ req[h].op = "delete" /\ Exists(n) => dom[n].file = cfg[h].file
    BY <1>0 DEF ShutdownIfRunning, Poll, SelectTick, SelectDeadline, Destroy, At, IInv, Claims,
           Claim, TInv, Roles, HasStep
  <1>3. CASE ShutdownIfRunning(h)
    <2>1. CASE Return(h)
      BY <1>1, <1>3, <2>1, QuietInv DEF ShutdownIfRunning
    <2>2. CASE GoTo(h, "wait") /\ UNCHANGED <<dom, disk, cfg, causes>>
      <3>1. Claim(h, "wait")'
        BY <1>0, <1>2, <2>2 DEF Claim, GoTo, Exists
      <3> QED
        BY <1>1, <2>2, <3>1, QuietInv
    <2>3. CASE /\ GoTo(h, "undefine") /\ UNCHANGED <<dom, disk, cfg>>
               /\ \/ ~IsDomainRunning(n) /\ UNCHANGED causes
                  \/ causes' = causes \cup {"stateUnknown"}
      <3>1. Claim(h, "undefine")'
        BY <1>0, <1>2, <2>3 DEF Claim, GoTo, Exists, IsDomainRunning
      <3> QED
        BY <1>1, <2>3, <3>1, QuietInv
    <2> QED
      BY <1>0, <1>3, <2>1, <2>2, <2>3, Zenon DEF ShutdownIfRunning
  <1>4. CASE Poll(h) \/ SelectTick(h) \/ SelectDeadline(h)
    <2>1. UNCHANGED <<dom, disk, causes>>
      BY <1>4 DEF Poll, SelectTick, SelectDeadline
    <2>2. CASE Return(h)
      BY <1>1, <2>1, <2>2, QuietInv
    <2>3. CASE GoTo(h, "virsh2")
      BY <1>1, <2>1, <2>3, NoClaim, QuietInv
    <2>4. ASSUME NEW step \in {"wait", "select", "destroy"}, GoTo(h, step), UNCHANGED cfg
          PROVE  IInv'
      <3>1. Claim(h, step)'
        BY <1>0, <1>2, <2>1, <2>4 DEF Claim, GoTo, Exists
      <3> QED
        BY <1>1, <2>1, <2>4, <3>1, QuietInv
    <2>5. CASE GoTo(h, "undefine") /\ UNCHANGED cfg /\ ~IsDomainRunning(n)
      <3>1. Claim(h, "undefine")'
        BY <1>0, <1>2, <2>1, <2>5 DEF Claim, GoTo, Exists, IsDomainRunning
      <3> QED
        BY <1>1, <2>1, <2>5, <3>1, QuietInv
    <2> QED
      BY <1>0, <1>4, <2>2, <2>3, <2>4, <2>5 DEF Poll, SelectTick, SelectDeadline
  <1>5. CASE Destroy(h)
    <2>1. CASE Fails(h)
      BY <1>1, <2>1, FailsInv
    <2>2. CASE Return(h) /\ UNCHANGED <<dom, disk, causes>>
      BY <1>1, <2>2, QuietInv
    <2>3. CASE /\ Active(dom[n]) /\ dom' = [dom EXCEPT ![n] = Stopped(@)]
               /\ GoTo(h, "undefine") /\ UNCHANGED <<disk, cfg, causes>>
      <3>1. dom[n] \in Domains /\ \A m \in Names \ {n} : dom'[m] = dom[m]
        BY <1>1, <1>0, <2>3 DEF Active, TInv, TypeOK
      <3>2. dom'[n] = Nil \/ dom'[n] = [dom[n] EXCEPT !.state = "off"]
        BY <1>1, <1>0, <2>3 DEF Stopped, TInv, TypeOK
      <3>3. Milder(n) /\ ~IsDomainRunning(n)' /\ (Exists(n)' => dom'[n].file = dom[n].file)
        BY <3>1, <3>2, NilAssumption DEF Milder, Exists, Persistent, IsDomainRunning, Domains
      <3>4. Claim(h, "undefine")'
        BY <1>0, <1>2, <2>3, <3>1, <3>3, NilAssumption, <1>5
        DEF Claim, GoTo, Exists, IsDomainRunning, Destroy, At
      <3> QED
        BY <1>1, <1>0, <2>3, <3>1, <3>3, <3>4, MilderInv
    <2> QED
      BY <1>0, <1>5, <2>1, <2>2, <2>3 DEF Destroy
  <1> QED
    BY <1>3, <1>4, <1>5

\* Undefining the only defined domain of an image leaves it without one.
LEMMA UndefineInv ==
    ASSUME TInv, IInv, NEW h \in Handlers, Undefine(h)
    PROVE  IInv'
  <1>1. pc[h] = "undefine" /\ pc[h] # "idle" /\ req[h].op = "delete" /\ req[h].name \in Names
    BY Inside DEF Undefine, At, TInv, Roles, HasStep
  <1>0. PICK n \in Names : n = req[h].name
    BY <1>1
  <1>2. CASE Fails(h)
    BY <1>1, <1>2, FailsInv
  <1>3. CASE Return(h) /\ UNCHANGED <<dom, disk, causes>>
    BY <1>1, <1>3, QuietInv
  <1>4. CASE /\ Persistent(n)
             /\ dom' = [dom EXCEPT ![n] = IF @.state = "off" THEN Nil
                                          ELSE [@ EXCEPT !.persistent = FALSE]]
             /\ GoTo(h, "remove") /\ UNCHANGED <<disk, cfg, causes>>
    <2>1. dom[n] \in Domains /\ \A m \in Names \ {n} : dom'[m] = dom[m]
      BY <1>1, <1>0, <1>4 DEF Persistent, Exists, TInv, TypeOK
    <2>2. /\ dom[n].file = cfg[h].file
          /\ "stateUnknown" \notin causes => ~IsDomainRunning(n)
      BY <1>1, <1>0, <1>4 DEF IInv, Claims, Claim, Persistent
    <2>3. dom'[n] = Nil \/ dom'[n] = [dom[n] EXCEPT !.persistent = FALSE]
      BY <1>1, <1>0, <1>4 DEF TInv, TypeOK
    <2>4. [dom[n] EXCEPT !.persistent = FALSE].file = dom[n].file
      BY <2>1, Transient
    <2>5. ~Persistent(n)'
      BY <2>1, <2>3, Transient DEF Persistent, Exists
    <2>6. Milder(n)
      <3>1. IsDomainRunning(n)' => IsDomainRunning(n)
        BY <1>4, <2>1, <2>3, Transient DEF IsDomainRunning, Exists, Persistent
      <3> QED
        BY <1>4, <2>2, <2>3, <2>4, <2>5, <3>1 DEF Milder, Exists, Persistent
    <2>7. Claim(h, "remove")'
      BY <1>1, <1>0, <1>4, <2>1, <2>2, <2>5
      DEF Claim, IInv, DefinedHasDisk, Persistent, Exists
    <2> QED
      BY <1>1, <1>0, <1>4, <2>1, <2>6, <2>7, MilderInv
  <1> QED
    BY <1>0, <1>2, <1>3, <1>4 DEF Undefine

\* The image that is removed is no defined domain's.
LEMMA RemoveInv ==
    ASSUME TInv, IInv, NEW h \in Handlers, RemoveDisk(h)
    PROVE  IInv'
  <1>1. pc[h] = "remove" /\ pc[h] # "idle"
    BY DEF RemoveDisk, At
  <1>2. \A n \in Names : Persistent(n) => dom[n].file # cfg[h].file
    BY <1>1 DEF IInv, Claims, Claim
  <1>3. /\ disk' = disk \/ disk' = disk \ {cfg[h].file}
        /\ Return(h) /\ UNCHANGED <<dom, causes>>
    BY DEF RemoveDisk
  <1>4. DefinedHasDisk'
    BY <1>2, <1>3 DEF IInv, DefinedHasDisk, Persistent, Exists
  <1>5. RunsDefined'
    BY <1>3 DEF IInv, RunsDefined, IsDomainRunning, Persistent, Exists
  <1> QED
    BY <1>1, <1>3, <1>4, <1>5, ReturnClaims DEF IInv

\* A migration takes the domain away or leaves it defined and off.
LEMMA MigrateInv ==
    ASSUME TInv, IInv, NEW h \in Handlers,
           ReadState(h) \/ VirshWithFallback(h) \/ FallbackShutdown(h) \/ Virsh(h)
    PROVE  IInv'
  <1>1. pc[h] # "idle" /\ req[h].op = "migrate" /\ req[h].name \in Names
    BY Inside DEF ReadState, VirshWithFallback, FallbackShutdown, Virsh, At, TInv, Roles, HasStep
  <1>0. PICK n \in Names : n = req[h].name
    BY <1>1
  <1>2. \/ Fails(h)
        \/ /\ \/ Return(h)
              \/ \E step \in {"virshFallback", "fallback", "wait", "virsh2"} : GoTo(h, step)
           /\ dom' = dom \/ Moved(h)
           /\ UNCHANGED <<disk, causes>>
    BY <1>0 DEF ReadState, VirshWithFallback, FallbackShutdown, Virsh
  <1>3. CASE Fails(h)
    BY <1>1, <1>3, FailsInv
  <1>4. ASSUME NEW step \in {"virshFallback", "fallback", "wait", "virsh2"}, GoTo(h, step)
        PROVE  Claim(h, step)'
    BY <1>1, <1>0, <1>4 DEF Claim, GoTo
  <1>5. CASE ~Fails(h) /\ dom' = dom
    BY <1>1, <1>2, <1>4, <1>5, QuietInv
  <1>6. CASE ~Fails(h) /\ Moved(h)
    <2>1. dom[n] \in Domains /\ \A m \in Names \ {n} : dom'[m] = dom[m]
      BY <1>1, <1>0, <1>6 DEF Exists, Moved, TInv, TypeOK
    <2>2. dom'[n] = Nil \/ dom'[n] = [dom[n] EXCEPT !.state = "off"]
      BY <1>1, <1>0, <1>6 DEF Moved, TInv, TypeOK
    <2>3. Milder(n)
      BY <2>1, <2>2, NilAssumption DEF Milder, Exists, Persistent, IsDomainRunning, Domains
    <2> QED
      BY <1>1, <1>0, <1>2, <1>4, <1>6, <2>1, <2>3, MilderInv
  <1> QED
    BY <1>2, <1>3, <1>5, <1>6

\* The invariant is inductive.
LEMMA NextInv == TInv /\ IInv /\ [Next]_vars => IInv'
  <1> SUFFICES ASSUME TInv, IInv, [Next]_vars PROVE IInv'
    OBVIOUS
  <1>1. CASE UNCHANGED vars
    BY <1>1 DEF vars, IInv, DefinedHasDisk, RunsDefined, Claims, Claim, Persistent, Exists,
                IsDomainRunning
  <1>2. ASSUME NEW h \in Handlers, Step(h) PROVE IInv'
    BY <1>2, LookupInv, ReadInv, ImageInv, DefineInv, StartInv, UpdateInv, StopInv, UndefineInv,
       RemoveInv, MigrateInv DEF Step
  <1> QED
    BY <1>1, <1>2, BeginInv, WorldInv DEF Next, World

\* However creates, deletes, migrations, failures and restarts follow each
\* other, a defined domain has its image and shares it with no other one.
THEOREM EveryDomainHasDisk == Spec => []DefinedHasDisk
  <1>1. Init => TInv /\ IInv
    BY InitTInv, InitInv
  <1>2. (TInv /\ IInv) /\ [Next]_vars => (TInv /\ IInv)'
    BY NextTInv, NextInv
  <1>3. TInv /\ IInv => DefinedHasDisk
    BY DEF IInv
  <1> QED
    BY <1>1, <1>2, <1>3, PTL DEF Spec

\* No domain that runs loses its image to a delete, unless the delete could
\* not read the domain's state.
THEOREM DeleteSparesRunning == Spec => []RunningKeepsDisk
  <1>1. Init => TInv /\ IInv
    BY InitTInv, InitInv
  <1>2. (TInv /\ IInv) /\ [Next]_vars => (TInv /\ IInv)'
    BY NextTInv, NextInv
  <1>3. TInv /\ IInv => RunningKeepsDisk
    BY DEF IInv, RunsDefined, DefinedHasDisk, RunningKeepsDisk
  <1> QED
    BY <1>1, <1>2, <1>3, PTL DEF Spec

-----------------------------------------------------------------------------
(* Capacity: what is admitted fits, and stays admitted until it is defined *)

\* The domains of a table, and what they are allocated of a resource.
Existing(d) == {n \in Names : d[n] # Nil}
Capacity(d, r, S) == MapThenSumSet(LAMBDA n : d[n].max[r], S)
Used(d, r) == Capacity(d, r, Existing(d))

\* A domain table libvirt may hold: its allocations are numbers.
IsTable(d) == d \in [Names -> Domains \cup {Nil}]

\* A sum below the modulus does not wrap around.
LEMMA NoWrap == ASSUME NEW x \in Nat, NEW m \in Nat, x < m PROVE x % m = x
  OBVIOUS

\* readAllocatedCapacity adds up the domains of the table, in every state.
LEMMA AllocatedIsUsed ==
    ASSUME NEW r
    PROVE  Allocated(r, Names, {}) = Used(dom, r)
  <1>1. {n \in Names \ {} : Exists(n)} = Existing(dom)
    BY DEF Existing, Exists
  <1>2. Allocated(r, Names, {}) = Capacity(dom, r, {n \in Names \ {} : Exists(n)})
    BY Zenon DEF Allocated, Capacity, MapThenSumSet, MapThenFoldSet
  <1> QED
    BY <1>1, <1>2 DEF Used

\* So it does when no domain is unreadable.
LEMMA AllReadable ==
    ASSUME NEW r
    PROVE  Allocated(r, Names \ {}, {}) = Used(dom, r)
  <1>1. {n \in (Names \ {}) \ {} : Exists(n)} = Existing(dom)
    BY DEF Existing, Exists
  <1>2. Allocated(r, Names \ {}, {}) = Capacity(dom, r, {n \in (Names \ {}) \ {} : Exists(n)})
    BY Zenon DEF Allocated, Capacity, MapThenSumSet, MapThenFoldSet
  <1> QED
    BY <1>1, <1>2 DEF Used

\* The capacity is the sum of a function of the names.
LEMMA CapacityIsSum ==
    ASSUME NEW d, NEW r, NEW S, IsFiniteSet(S),
           NEW w, \A n \in S : w[n] = d[n].max[r] /\ w[n] \in Nat
    PROVE  Capacity(d, r, S) = SumOver(w, S)
  <1> DEFINE Body(g) == [s \in SUBSET S |-> IF s = {} THEN 0
                            ELSE d[Pick(s)].max[r] + g[s \ {Pick(s)}]]
             iter == CHOOSE g : g = Body(g)
  <1>1. Capacity(d, r, S) = iter[S]
    BY Zenon DEF Capacity, MapThenSumSet, MapThenFoldSet, Pick
  <1>2. ASSUME NEW g
        PROVE  Body(g) = [s \in SUBSET S |-> IF s = {} THEN 0
                             ELSE w[Pick(s)] + g[s \ {Pick(s)}]]
    BY PickIn
  <1>3. PICK g : IsSum(g, w, S) /\ SumOver(w, S) = g[S]
    BY SumDefined
  <1>4. g = Body(g)
    BY <1>2, <1>3 DEF IsSum
  <1> HIDE DEF Body
  <1>5. iter = Body(iter)
    BY <1>4, Zenon
  <1>6. IsSum(iter, w, S)
    BY <1>2, <1>5 DEF IsSum
  <1> HIDE DEF iter
  <1> QED
    BY <1>1, <1>3, <1>6, SumsAgree

\* What one domain of a table adds to the rest.
Share(d, r, n) == IF d[n] = Nil THEN 0 ELSE d[n].max[r]

\* The allocations of a table of finitely many domains are natural numbers, and
\* one domain's part is added to the sum over the others.
LEMMA UsedSplits ==
    ASSUME NEW d, IsTable(d), IsFiniteSet(Existing(d)), NEW r \in Resources, NEW n \in Names,
           NEW w, \A m \in Existing(d) : w[m] = d[m].max[r]
    PROVE  /\ Share(d, r, n) \in Nat /\ SumOver(w, Existing(d) \ {n}) \in Nat
           /\ Used(d, r) = Share(d, r, n) + SumOver(w, Existing(d) \ {n})
  <1> DEFINE S == Existing(d)
  <1>1. \A m \in S : d[m].max[r] \in Nat /\ w[m] \in Nat
    BY DEF IsTable, Existing, Domains, Alloc, Resources
  <1>2. Used(d, r) = SumOver(w, S)
    BY <1>1, CapacityIsSum DEF Used
  <1>3. SumOver(w, S) \in Nat
    BY <1>1, SumSplit
  <1>4. CASE n \in S
    <2>1. SumOver(w, S) = w[n] + SumOver(w, S \ {n}) /\ SumOver(w, S \ {n}) \in Nat
      BY <1>1, <1>4, SumSplit
    <2> QED
      BY <1>1, <1>2, <1>4, <2>1 DEF Share, Existing
  <1>5. CASE n \notin S
    <2>1. S \ {n} = S /\ Share(d, r, n) = 0
      BY <1>5 DEF Share, Existing
    <2> HIDE DEF S
    <2>2. SumOver(w, S \ {n}) = SumOver(w, S)
      BY <2>1, Zenon
    <2> QED
      BY <1>2, <1>3, <2>1, <2>2 DEF S
  <1> QED
    BY <1>4, <1>5

\* A table that differs from another in one domain.
LEMMA UsedChanges ==
    ASSUME NEW d, IsTable(d), IsFiniteSet(Existing(d)), NEW e, IsTable(e),
           NEW n \in Names, \A m \in Names \ {n} : e[m] = d[m]
    PROVE  /\ IsFiniteSet(Existing(e))
           /\ \A r \in Resources :
                 /\ Used(d, r) \in Nat /\ Used(e, r) \in Nat
                 /\ Share(d, r, n) \in Nat /\ Share(e, r, n) \in Nat
                 /\ Used(e, r) + Share(d, r, n) = Used(d, r) + Share(e, r, n)
  <1>1. Existing(e) \ {n} = Existing(d) \ {n}
    BY DEF Existing
  <1>2. IsFiniteSet(Existing(e))
    <2>1. IsFiniteSet(Existing(d) \cup {n})
      BY FS_AddElement
    <2>2. Existing(e) \subseteq Existing(d) \cup {n}
      BY <1>1
    <2> QED
      BY <2>1, <2>2, FS_Subset
  <1>3. ASSUME NEW r \in Resources
        PROVE  /\ Used(d, r) \in Nat /\ Used(e, r) \in Nat
               /\ Share(d, r, n) \in Nat /\ Share(e, r, n) \in Nat
               /\ Used(e, r) + Share(d, r, n) = Used(d, r) + Share(e, r, n)
    <2> DEFINE v == [m \in Names |-> d[m].max[r]]
               w == [m \in Names |-> e[m].max[r]]
               rest == Existing(d) \ {n}
    <2>1. /\ \A m \in Existing(d) : v[m] = d[m].max[r]
          /\ \A m \in Existing(e) : w[m] = e[m].max[r]
          /\ \A m \in rest : v[m] = w[m] /\ w[m] \in Nat
      BY <1>1 DEF Existing, IsTable, Domains, Alloc, Resources
    <2>2. IsFiniteSet(rest)
      BY FS_Subset
    <2> HIDE DEF v, w
    <2>3. SumOver(v, rest) = SumOver(w, rest)
      BY <2>1, <2>2, SumSame
    <2>4. /\ Share(d, r, n) \in Nat /\ SumOver(v, rest) \in Nat
          /\ Used(d, r) = Share(d, r, n) + SumOver(v, rest)
      BY <2>1, UsedSplits
    <2>5. /\ Share(e, r, n) \in Nat
          /\ Used(e, r) = Share(e, r, n) + SumOver(w, rest)
      BY <1>1, <1>2, <2>1, UsedSplits
    <2> QED
      BY <2>3, <2>4, <2>5
  <1> QED
    BY <1>2, <1>3

\* A create that has passed the check and has not defined its domain yet.
Reserves(h) == req[h].op = "create" /\ pc[h] \in {"image", "define"}

\* There is room for the domains, and for the one a create is about to define
\* unless libvirt will refuse its size.
Fits(h) ==
    Reserves(h) /\ req[h].alloc.ram <= MaxDomainRam =>
        \A r \in Resources : Used(dom, r) + req[h].alloc[r] <= Total[r]
RoomLeft ==
    "unreadable" \notin causes =>
        /\ \A r \in Resources : Used(dom, r) <= Total[r]
        /\ \A h \in Handlers : Fits(h)
OInv == IsFiniteSet(Existing(dom)) /\ RoomLeft

\* Initially there are no domains.
LEMMA InitOInv == Init => OInv
  <1> SUFFICES ASSUME Init PROVE OInv
    OBVIOUS
  <1>1. Existing(dom) = {}
    BY DEF Init, Existing
  <1>2. IsFiniteSet(Existing(dom))
    BY <1>1, FS_EmptySet
  <1>3. ASSUME NEW r \in Resources PROVE Used(dom, r) = 0
    <2>1. Used(dom, r) = SumOver(<<>>, {})
      BY <1>1, FS_EmptySet, CapacityIsSum DEF Used
    <2> QED
      BY <2>1, SumEmpty
  <1>4. \A h \in Handlers : ~Reserves(h)
    BY DEF Init, Reserves
  <1> QED
    BY <1>2, <1>3, <1>4, TotalAssumption DEF OInv, RoomLeft, Fits, Resources

\* No allocation grows: at most one domain goes or keeps its maximum.
Shrinks ==
    \E n \in Names : /\ \A m \in Names \ {n} : dom'[m] = dom[m]
                     /\ \/ dom'[n] = Nil
                        \/ dom[n] # Nil /\ dom'[n].max = dom[n].max

\* Then what is used does not grow.
LEMMA ShrinksUsed ==
    ASSUME TInv, TInv', OInv, dom' = dom \/ Shrinks
    PROVE  /\ IsFiniteSet(Existing(dom'))
           /\ \A r \in Resources : /\ Used(dom, r) \in Nat /\ Used(dom', r) \in Nat
                                   /\ Used(dom', r) <= Used(dom, r)
  <1>0. IsTable(dom) /\ IsTable(dom') /\ IsFiniteSet(Existing(dom))
    BY DEF TInv, TypeOK, IsTable, OInv
  <1>1. ASSUME NEW n \in Names, \A m \in Names \ {n} : dom'[m] = dom[m],
               dom'[n] = Nil \/ dom'[n] = dom[n] \/ (dom[n] # Nil /\ dom'[n].max = dom[n].max)
        PROVE  /\ IsFiniteSet(Existing(dom'))
               /\ \A r \in Resources : /\ Used(dom, r) \in Nat /\ Used(dom', r) \in Nat
                                       /\ Used(dom', r) <= Used(dom, r)
    <2>1. /\ IsFiniteSet(Existing(dom'))
          /\ \A r \in Resources :
                /\ Used(dom, r) \in Nat /\ Used(dom', r) \in Nat
                /\ Share(dom, r, n) \in Nat /\ Share(dom', r, n) \in Nat
                /\ Used(dom', r) + Share(dom, r, n) = Used(dom, r) + Share(dom', r, n)
      BY <1>0, <1>1, UsedChanges
    <2>2. ASSUME NEW r \in Resources PROVE Share(dom', r, n) <= Share(dom, r, n)
      <3>1. Share(dom', r, n) = 0 \/ Share(dom', r, n) = Share(dom, r, n)
        BY <1>1 DEF Share
      <3> QED
        BY <2>1, <3>1
    <2> QED
      BY <2>1, <2>2
  <1>2. CASE Names = {}
    <2>1. dom' = dom
      BY <1>2 DEF Shrinks
    <2>2. Existing(dom) = {}
      BY <1>2 DEF Existing
    <2>3. ASSUME NEW r \in Resources PROVE Used(dom, r) = 0
      <3>1. Used(dom, r) = SumOver(<<>>, {})
        BY <2>2, FS_EmptySet, CapacityIsSum DEF Used
      <3> QED
        BY <3>1, SumEmpty
    <2> QED
      BY <1>0, <2>1, <2>3
  <1>3. CASE Names # {}
    <2>1. PICK n \in Names : TRUE
      BY <1>3
    <2>2. CASE dom' = dom
      BY <1>1, <2>2
    <2>3. CASE Shrinks
      BY <1>1, <2>3 DEF Shrinks
    <2> QED
      BY <2>2, <2>3
  <1> QED
    BY <1>2, <1>3

\* A step that makes no allocation grow, and after which only creates that
\* already were are about to define their domain.
LEMMA ShrinksOInv ==
    ASSUME TInv, TInv', OInv, dom' = dom \/ Shrinks, causes \subseteq causes',
           \A h \in Handlers : Reserves(h)' => Reserves(h) /\ req'[h] = req[h]
    PROVE  OInv'
  <1>1. /\ IsFiniteSet(Existing(dom'))
        /\ \A r \in Resources : /\ Used(dom, r) \in Nat /\ Used(dom', r) \in Nat
                                /\ Used(dom', r) <= Used(dom, r)
    BY ShrinksUsed
  <1> SUFFICES ASSUME "unreadable" \notin causes'
               PROVE  /\ \A r \in Resources : Used(dom', r) <= Total[r]
                      /\ \A h \in Handlers : Fits(h)'
    BY <1>1 DEF OInv, RoomLeft
  <1>2. /\ \A r \in Resources : Used(dom, r) <= Total[r] /\ Total[r] \in Nat
        /\ \A h \in Handlers : Fits(h)
    BY TotalAssumption DEF OInv, RoomLeft, Resources
  <1>3. ASSUME NEW h \in Handlers, Reserves(h)', req'[h].alloc.ram <= MaxDomainRam,
               NEW r \in Resources
        PROVE  Used(dom', r) + req'[h].alloc[r] <= Total[r]
    <2>1. Reserves(h) /\ req'[h] = req[h]
      BY <1>3
    <2>2. Used(dom, r) + req[h].alloc[r] <= Total[r]
      BY <1>2, <1>3, <2>1 DEF Fits
    <2>3. req[h].alloc[r] \in Nat
      BY <2>1, Inside, RequestTypes DEF Reserves, Alloc, Resources
    <2> QED
      BY <1>1, <1>2, <2>1, <2>2, <2>3
  <1> QED
    BY <1>1, <1>2, <1>3 DEF Fits

\* A handler that returns, or goes on to another step, reserves nothing.
LEMMA NoReserve ==
    ASSUME TInv, NEW h \in Handlers, pc[h] # "idle",
           Return(h) \/ \E step : GoTo(h, step) /\ step \notin {"image", "define"}
    PROVE  \A k \in Handlers : Reserves(k)' => Reserves(k) /\ req'[k] = req[k]
  BY Inside DEF Return, GoTo, Reserves, TInv, TypeOK

\* A failing call returns and changes no domain.
LEMMA FailsOInv ==
    ASSUME TInv, TInv', OInv, NEW h \in Handlers, pc[h] # "idle", Fails(h)
    PROVE  OInv'
  BY NoReserve, ShrinksOInv DEF Fails

\* Guests keep their allocations or go, and a restart forgets every request.
LEMMA WorldOInv ==
    ASSUME TInv, TInv', OInv, World
    PROVE  OInv'
  <1>1. CASE Restart
    <2>1. dom' = dom /\ causes' = causes /\ \A h \in Handlers : ~Reserves(h)'
      BY <1>1 DEF Restart, Reserves
    <2> QED
      BY <2>1, ShrinksOInv
  <1>2. ASSUME NEW n \in Names, GuestShutsDown(n) \/ GuestStops(n)
        PROVE  OInv'
    <2>1. dom[n] \in Domains /\ dom[n] # Nil
      BY <1>2 DEF GuestShutsDown, GuestStops, IsDomainRunning, Exists, TInv, TypeOK
    <2>2. /\ \A m \in Names \ {n} : dom'[m] = dom[m]
          /\ dom'[n] = [dom[n] EXCEPT !.state = "shutdown"] \/ dom'[n] = Stopped(dom[n])
      BY <1>2 DEF GuestShutsDown, GuestStops, TInv, TypeOK
    <2>3. dom'[n] = Nil \/ dom'[n].max = dom[n].max
      BY <2>1, <2>2 DEF Stopped, Domains
    <2>4. UNCHANGED <<pc, req, causes>>
      BY <1>2 DEF GuestShutsDown, GuestStops, handlerVars
    <2>5. Shrinks
      BY <2>1, <2>2, <2>3 DEF Shrinks
    <2> QED
      BY <2>4, <2>5, ShrinksOInv DEF Reserves
  <1>3. ASSUME NEW s \in Services, Hangs(s) \/ Recovers(s)
        PROVE  OInv'
    <2>1. UNCHANGED <<dom, pc, req, causes>>
      BY <1>3 DEF Hangs, Recovers, handlerVars
    <2> QED
      BY <2>1, ShrinksOInv DEF Reserves
  <1> QED
    BY <1>1, <1>2, <1>3 DEF World

\* An operation begins before the check.
LEMMA BeginOInv ==
    ASSUME TInv, TInv', OInv, NEW h \in Handlers, NEW q \in Requests, Begin(h, q)
    PROVE  OInv'
  <1>1. \A k \in Handlers : Reserves(k)' => Reserves(k) /\ req'[k] = req[k]
    BY DEF Begin, Reserves, TInv, TypeOK
  <1> QED
    BY <1>1, ShrinksOInv DEF Begin

\* So does the lookup.
LEMMA LookupOInv ==
    ASSUME TInv, TInv', OInv, NEW h \in Handlers, Lookup(h)
    PROVE  OInv'
  <1>1. pc[h] # "idle"
    BY DEF Lookup, At
  <1>2. FirstStep(req[h]) \in {"idle", "admit", "state", "config"}
    BY DEF FirstStep
  <1>3. \/ Fails(h)
        \/ /\ Return(h) \/ GoTo(h, FirstStep(req[h]))
           /\ UNCHANGED <<dom, causes>>
    BY DEF Lookup
  <1> QED
    BY <1>1, <1>2, <1>3, NoReserve, FailsOInv, ShrinksOInv

\* A create that passes the check fits: neither sum has wrapped around, unless
\* its memory is more than libvirt can represent.
LEMMA AdmitOInv ==
    ASSUME TInv, TInv', OInv, NEW h \in Handlers, CheckAdmission(h)
    PROVE  OInv'
  <1>1. pc[h] = "admit" /\ pc[h] # "idle" /\ req[h] \in Requests
    BY Inside DEF CheckAdmission, At
  <1>2. CASE Fails(h)
    BY <1>1, <1>2, FailsOInv
  <1>3. CASE Return(h) /\ causes \subseteq causes' /\ dom' = dom
    BY <1>1, <1>3, NoReserve, ShrinksOInv
  <1>4. CASE GoTo(h, "setVcpu") /\ causes \subseteq causes' /\ dom' = dom
    BY <1>1, <1>4, NoReserve, ShrinksOInv
  <1>5. CASE "unreadable" \in causes' /\ dom' = dom
    BY <1>5 DEF OInv, RoomLeft
  <1>6. CASE /\ req[h].op = "create" /\ GoTo(h, "image") /\ Admissible(h, Names \ {})
             /\ causes' = causes /\ dom' = dom
    <2>0. ASSUME NEW r \in Resources PROVE Used(dom, r) \in Nat
      BY <1>6, ShrinksUsed
    <2>1. /\ req[h] \in Creates /\ req[h].alloc \in Alloc
          /\ \A r \in Resources : req[h].alloc[r] \in Nat
      BY <1>1, <1>6, RequestsAssumption, RequestTypes DEF Requests, Alloc, Resources
    <2>2. ASSUME NEW r \in Resources
          PROVE  (Used(dom, r) + req[h].alloc[r]) % Width <= Total[r]
      BY <1>6, AllReadable DEF Admissible, Desired
    <2>3. ASSUME "unreadable" \notin causes, req[h].alloc.ram <= MaxDomainRam,
                 NEW r \in Resources
          PROVE  Used(dom, r) + req[h].alloc[r] <= Total[r]
      <3>1. Used(dom, r) <= Total[r] /\ Total[r] \in Nat
        BY <2>3, TotalAssumption DEF OInv, RoomLeft, Resources
      <3>2. Total[r] + req[h].alloc[r] < Width /\ Width \in Nat
        <4>1. CASE r = "vcpu"
          BY <2>1, <4>1, VcpuAssumption, WidthAssumption
        <4>2. CASE r = "ram"
          BY <2>1, <2>3, <3>1, <4>2, WidthAssumption DEF Alloc
        <4> QED
          BY <4>1, <4>2 DEF Resources
      <3>3. /\ Used(dom, r) + req[h].alloc[r] \in Nat
            /\ Used(dom, r) + req[h].alloc[r] < Width
        BY <2>0, <2>1, <3>1, <3>2
      <3>4. (Used(dom, r) + req[h].alloc[r]) % Width = Used(dom, r) + req[h].alloc[r]
        BY <3>2, <3>3, NoWrap
      <3> QED
        BY <2>2, <3>4
    <2>4. \A k \in Handlers : Reserves(k)' => k = h
      BY <1>1, <1>6, Inside DEF GoTo, Reserves, TInv, TypeOK
    <2>5. req' = req
      BY <1>6 DEF GoTo
    <2> QED
      BY <1>6, <2>3, <2>4, <2>5 DEF OInv, RoomLeft, Fits
  <1>7. \/ Fails(h)
        \/ Return(h) /\ causes \subseteq causes' /\ dom' = dom
        \/ GoTo(h, "setVcpu") /\ causes \subseteq causes' /\ dom' = dom
        \/ "unreadable" \in causes' /\ dom' = dom
        \/ /\ req[h].op = "create" /\ GoTo(h, "image") /\ Admissible(h, Names \ {})
           /\ causes' = causes /\ dom' = dom
    BY DEF CheckAdmission
  <1> QED
    BY <1>2, <1>3, <1>4, <1>5, <1>6, <1>7

\* The new domain takes the room that was left for it.
LEMMA DefineOInv ==
    ASSUME TInv, TInv', OInv, NEW h \in Handlers, DefineXML(h)
    PROVE  OInv'
  <1>1. pc[h] = "define" /\ pc[h] # "idle" /\ req[h] \in Requests /\ req[h].name \in Names
        /\ req[h].op = "create"
    BY Inside DEF DefineXML, At, TInv, Roles, HasStep
  <1>0. PICK n \in Names : n = req[h].name
    BY <1>1
  <1>2. CASE Fails(h)
    BY <1>1, <1>2, FailsOInv
  <1>3. CASE Return(h) /\ causes' = causes /\ dom' = dom
    BY <1>1, <1>3, NoReserve, ShrinksOInv
  <1>4. ASSUME NEW d, dom' = [dom EXCEPT ![n] = d], d.max = req[h].alloc, d # Nil,
               req[h].alloc.ram <= MaxDomainRam, causes' = causes,
               NEW step, GoTo(h, step), step \notin {"image", "define"}
        PROVE  OInv'
    <2>1. IsTable(dom) /\ IsTable(dom') /\ IsFiniteSet(Existing(dom))
      BY DEF TInv, TypeOK, IsTable, OInv
    <2>2. dom'[n] = d /\ \A m \in Names \ {n} : dom'[m] = dom[m]
      BY <1>4 DEF TInv, TypeOK
    <2>3. /\ IsFiniteSet(Existing(dom'))
          /\ \A r \in Resources :
                /\ Used(dom, r) \in Nat /\ Used(dom', r) \in Nat
                /\ Share(dom, r, n) \in Nat /\ Share(dom', r, n) \in Nat
                /\ Used(dom', r) + Share(dom, r, n) = Used(dom, r) + Share(dom', r, n)
      BY <2>1, <2>2, UsedChanges
    <2>4. \A r \in Resources : Share(dom', r, n) = req[h].alloc[r]
      BY <1>4, <2>2 DEF Share
    <2>5. "unreadable" \notin causes =>
             \A r \in Resources : Used(dom, r) + req[h].alloc[r] <= Total[r]
      BY <1>1, <1>4 DEF OInv, RoomLeft, Fits, Reserves
    <2>6. \A r \in Resources : Total[r] \in Nat
      BY TotalAssumption DEF Resources
    <2>7. "unreadable" \notin causes => \A r \in Resources : Used(dom', r) <= Total[r]
      BY <2>3, <2>4, <2>5, <2>6
    <2>8. \A k \in Handlers : ~Reserves(k)'
      BY <1>1, <1>4, Inside DEF GoTo, Reserves, TInv, TypeOK
    <2> QED
      BY <1>4, <2>3, <2>7, <2>8 DEF OInv, RoomLeft, Fits
  <1> DEFINE d == [max |-> req[h].alloc, cur |-> InKiB(req[h].alloc), state |-> "off",
                   persistent |-> TRUE, file |-> req[h].file]
  <1>5. d \in Domains /\ d.max = req[h].alloc
    BY <1>1, RequestTypes, InKiBType DEF Domains
  <1>6. d # Nil
    BY <1>5, NilAssumption
  <1>7. \/ Fails(h)
        \/ Return(h) /\ causes' = causes /\ dom' = dom
        \/ /\ req[h].alloc.ram <= MaxDomainRam /\ dom' = [dom EXCEPT ![n] = d]
           /\ GoTo(h, "autostart") \/ GoTo(h, "start")
           /\ causes' = causes
    BY <1>0 DEF DefineXML
  <1> HIDE DEF d
  <1>8. ASSUME NEW step \in {"autostart", "start"}, GoTo(h, step), causes' = causes,
               req[h].alloc.ram <= MaxDomainRam, dom' = [dom EXCEPT ![n] = d]
        PROVE  OInv'
    BY <1>4, <1>5, <1>6, <1>8
  <1> QED
    BY <1>2, <1>3, <1>7, <1>8

\* The image is made before the definition, and the room stays reserved.
LEMMA ImageOInv ==
    ASSUME TInv, TInv', OInv, NEW h \in Handlers, EnsureDiskImage(h)
    PROVE  OInv'
  <1>1. pc[h] = "image" /\ pc[h] # "idle" /\ req[h].op = "create"
    BY DEF EnsureDiskImage, At, TInv, Roles, HasStep
  <1>2. dom' = dom /\ causes' = causes
    BY DEF EnsureDiskImage
  <1>3. CASE Return(h)
    BY <1>1, <1>2, <1>3, NoReserve, ShrinksOInv
  <1>4. CASE GoTo(h, "define")
    <2>1. \A k \in Handlers : Reserves(k)' => Reserves(k) /\ req'[k] = req[k]
      BY <1>1, <1>4 DEF GoTo, Reserves, TInv, TypeOK
    <2> QED
      BY <1>2, <2>1, ShrinksOInv
  <1> QED
    BY <1>3, <1>4 DEF EnsureDiskImage

\* The steps that change at most the request's domain, and not its maximum.
LEMMA ChangesOInv ==
    ASSUME TInv, TInv', OInv, NEW h \in Handlers, pc[h] # "idle",
           Return(h) \/ \E step : GoTo(h, step) /\ step \notin {"image", "define"},
           causes \subseteq causes', NEW n \in Names,
           \/ dom' = dom
           \/ \E e : /\ dom[n] # Nil /\ dom' = [dom EXCEPT ![n] = e]
                     /\ e = Nil \/ e.max = dom[n].max
    PROVE  OInv'
  <1>1. \A k \in Handlers : Reserves(k)' => Reserves(k) /\ req'[k] = req[k]
    BY NoReserve
  <1>2. ASSUME NEW e, dom[n] # Nil, dom' = [dom EXCEPT ![n] = e],
               e = Nil \/ e.max = dom[n].max
        PROVE  Shrinks
    <2>1. dom'[n] = e /\ \A m \in Names \ {n} : dom'[m] = dom[m]
      BY <1>2 DEF TInv, TypeOK
    <2> QED
      BY <1>2, <2>1 DEF Shrinks
  <1> QED
    BY <1>1, <1>2, ShrinksOInv

\* What a step may make of a domain keeps its maximum.
LEMMA KeepsMax ==
    ASSUME NEW d \in Domains
    PROVE  /\ \A s : [d EXCEPT !.state = s].max = d.max
           /\ [d EXCEPT !.persistent = FALSE].max = d.max
           /\ Stopped(d) = Nil \/ Stopped(d).max = d.max
           /\ \A r, v : [d EXCEPT !.cur[r] = v].max = d.max
  BY DEF Domains, Stopped

\* Reading the configuration and the steps of create after the definition.
LEMMA ReadStartOInv ==
    ASSUME TInv, TInv', OInv, NEW h \in Handlers,
           ReadConfig(h) \/ SetAutostart(h) \/ Start(h)
    PROVE  OInv'
  <1>1. pc[h] # "idle" /\ req[h].name \in Names
    BY Inside DEF ReadConfig, SetAutostart, Start, At
  <1>0. PICK n \in Names : n = req[h].name
    BY <1>1
  <1>2. CASE Fails(h)
    BY <1>1, <1>2, FailsOInv
  <1>3. CASE ReadConfig(h) /\ ~Fails(h)
    <2>1. /\ Return(h) \/ GoTo(h, "admit") \/ GoTo(h, "info")
          /\ causes' = causes /\ dom' = dom
      BY <1>3 DEF ReadConfig
    <2> QED
      BY <1>1, <1>0, <2>1, ChangesOInv
  <1>4. CASE SetAutostart(h) /\ ~Fails(h)
    <2>1. (Return(h) \/ GoTo(h, "start")) /\ causes' = causes /\ dom' = dom
      BY <1>4 DEF SetAutostart
    <2> QED
      BY <1>1, <1>0, <2>1, ChangesOInv
  <1>5. CASE Start(h) /\ ~Fails(h)
    <2>0. pc[h] = "start" /\ req[h].op = "create"
      BY <1>5 DEF Start, At, TInv, Roles, HasStep
    <2>1. dom[n] # Nil /\ dom[n] \in Domains
      BY <1>0, <2>0 DEF TInv, TypeOK, Created, NeedsDomain, Persistent, Exists
    <2>2. /\ Return(h) /\ causes' = causes
          /\ dom' = dom \/ dom' = [dom EXCEPT ![n] = [dom[n] EXCEPT !.state = "running"]]
      BY <1>0, <1>5 DEF Start
    <2>3. [dom[n] EXCEPT !.state = "running"].max = dom[n].max
      BY <2>1, KeepsMax
    <2> QED
      BY <1>1, <1>0, <2>1, <2>2, <2>3, ChangesOInv
  <1> QED
    BY <1>2, <1>3, <1>4, <1>5

\* An update sets current sizes: the maximum, which is what is added up, stays.
LEMMA UpdateOInv ==
    ASSUME TInv, TInv', OInv, NEW h \in Handlers, SetVcpus(h) \/ SetMemory(h)
    PROVE  OInv'
  <1>1. pc[h] # "idle" /\ req[h].name \in Names
    BY Inside DEF SetVcpus, SetMemory, At
  <1>0. PICK n \in Names : n = req[h].name
    BY <1>1
  <1>2. PICK r \in Resources : SetResource(h, r)
    BY DEF SetVcpus, SetMemory, Resources
  <1>3. \/ Fails(h)
        \/ /\ \/ dom' = dom
              \/ /\ Persistent(n)
                 /\ dom' = [dom EXCEPT ![n] = [dom[n] EXCEPT !.cur[r] = InKiB(Desired(h))[r]]]
           /\ Return(h) \/ GoTo(h, "setRam") \/ GoTo(h, "autostart")
           /\ causes' = causes
    BY <1>0, <1>2 DEF SetResource
  <1>4. CASE Fails(h)
    BY <1>1, <1>4, FailsOInv
  <1>5. \/ Fails(h)
        \/ /\ Return(h) \/ GoTo(h, "setRam") \/ GoTo(h, "autostart")
           /\ causes' = causes
    BY <1>3
  <1>6. CASE /\ Persistent(n)
             /\ dom' = [dom EXCEPT ![n] = [dom[n] EXCEPT !.cur[r] = InKiB(Desired(h))[r]]]
    <2> DEFINE e == [dom[n] EXCEPT !.cur[r] = InKiB(Desired(h))[r]]
    <2>1. dom[n] # Nil /\ e.max = dom[n].max
      BY <1>6, KeepsMax DEF Persistent, Exists, TInv, TypeOK
    <2>2. dom' = [dom EXCEPT ![n] = e]
      BY <1>6
    <2> HIDE DEF e
    <2> QED
      <3>1. dom'[n] = e /\ \A m \in Names \ {n} : dom'[m] = dom[m]
        BY <2>2 DEF TInv, TypeOK
      <3>2. Shrinks
        BY <2>1, <3>1 DEF Shrinks
      <3> QED
        BY <1>1, <1>4, <1>5, <3>2, NoReserve, ShrinksOInv
  <1>7. CASE dom' = dom
    BY <1>1, <1>4, <1>7, <1>5, ChangesOInv
  <1> QED
    BY <1>3, <1>4, <1>6, <1>7

\* Delete stops and undefines the domain.
LEMMA DeleteOInv ==
    ASSUME TInv, TInv', OInv, NEW h \in Handlers,
           \/ ShutdownIfRunning(h) \/ Poll(h) \/ SelectTick(h) \/ SelectDeadline(h)
           \/ Destroy(h) \/ Undefine(h) \/ RemoveDisk(h)
    PROVE  OInv'
  <1>1. pc[h] # "idle" /\ req[h].name \in Names
    BY Inside DEF ShutdownIfRunning, Poll, SelectTick, SelectDeadline, Destroy, Undefine,
                  RemoveDisk, At
  <1>0. PICK n \in Names : n = req[h].name
    BY <1>1
  <1>2. CASE Fails(h)
    BY <1>1, <1>2, FailsOInv
  <1>3. CASE \/ ShutdownIfRunning(h) \/ Poll(h) \/ SelectTick(h) \/ SelectDeadline(h)
             \/ RemoveDisk(h)
    <2>1. /\ \/ Return(h)
             \/ \E step \in {"wait", "select", "undefine", "virsh2", "destroy"} : GoTo(h, step)
          /\ causes \subseteq causes' /\ dom' = dom
      BY <1>3 DEF ShutdownIfRunning, Poll, SelectTick, SelectDeadline, RemoveDisk
    <2> QED
      BY <1>1, <1>0, <2>1, ChangesOInv
  <1>4. CASE Destroy(h) /\ ~Fails(h)
    <2>1. /\ Return(h) \/ GoTo(h, "undefine")
          /\ causes' = causes
          /\ \/ dom' = dom
             \/ dom[n] # Nil /\ dom' = [dom EXCEPT ![n] = Stopped(dom[n])]
      BY <1>0, <1>4 DEF Destroy, Active
    <2>2. dom[n] # Nil => Stopped(dom[n]) = Nil \/ Stopped(dom[n]).max = dom[n].max
      BY KeepsMax DEF TInv, TypeOK
    <2> QED
      BY <1>1, <2>1, <2>2, ChangesOInv
  <1>5. CASE Undefine(h) /\ ~Fails(h)
    <2> DEFINE e == IF dom[n].state = "off" THEN Nil ELSE [dom[n] EXCEPT !.persistent = FALSE]
    <2>1. /\ Return(h) \/ GoTo(h, "remove")
          /\ causes' = causes
          /\ \/ dom' = dom
             \/ dom[n] # Nil /\ dom' = [dom EXCEPT ![n] = e]
      BY <1>0, <1>5 DEF Undefine, Persistent, Exists
    <2>2. dom[n] # Nil => e = Nil \/ e.max = dom[n].max
      BY KeepsMax DEF TInv, TypeOK
    <2> HIDE DEF e
    <2> QED
      BY <1>1, <2>1, <2>2, ChangesOInv
  <1> QED
    BY <1>2, <1>3, <1>4, <1>5

\* A migration takes the domain away or leaves it defined and off.
LEMMA MigrateOInv ==
    ASSUME TInv, TInv', OInv, NEW h \in Handlers,
           ReadState(h) \/ VirshWithFallback(h) \/ FallbackShutdown(h) \/ Virsh(h)
    PROVE  OInv'
  <1>1. pc[h] # "idle" /\ req[h].name \in Names
    BY Inside DEF ReadState, VirshWithFallback, FallbackShutdown, Virsh, At
  <1>0. PICK n \in Names : n = req[h].name
    BY <1>1
  <1> DEFINE e == IF dom[n].persistent /\ ~req[h].undefineSource
                  THEN [dom[n] EXCEPT !.state = "off"] ELSE Nil
  <1>2. \/ Fails(h)
        \/ /\ \/ Return(h)
              \/ \E step \in {"virshFallback", "fallback", "wait", "virsh2"} : GoTo(h, step)
           /\ dom' = dom \/ (dom[n] # Nil /\ dom' = [dom EXCEPT ![n] = e])
           /\ causes' = causes
    BY <1>0 DEF ReadState, VirshWithFallback, FallbackShutdown, Virsh, Moved, Exists
  <1>3. CASE Fails(h)
    BY <1>1, <1>3, FailsOInv
  <1>4. dom[n] # Nil => e = Nil \/ e.max = dom[n].max
    BY KeepsMax DEF TInv, TypeOK
  <1> HIDE DEF e
  <1> QED
    BY <1>1, <1>2, <1>3, <1>4, ChangesOInv

\* The invariant is inductive.
LEMMA NextOInv == TInv /\ TInv' /\ OInv /\ [Next]_vars => OInv'
  <1> SUFFICES ASSUME TInv, TInv', OInv, [Next]_vars PROVE OInv'
    OBVIOUS
  <1>1. CASE UNCHANGED vars
    BY <1>1, ShrinksOInv DEF vars, Reserves
  <1>2. ASSUME NEW h \in Handlers, Step(h) PROVE OInv'
    BY <1>2, LookupOInv, ReadStartOInv, AdmitOInv, ImageOInv, DefineOInv, UpdateOInv, DeleteOInv,
       MigrateOInv DEF Step
  <1> QED
    BY <1>1, <1>2, BeginOInv, WorldOInv DEF Next, World

\* The domains never exceed the node's capacity, however many handlers,
\* requests, failures and restarts there are, as long as checkAdmission could
\* read every domain.
THEOREM CapacityHolds == Spec => []NeverOvercommitted
  <1>1. Init => TInv /\ OInv
    BY InitTInv, InitOInv
  <1>2. (TInv /\ OInv) /\ [Next]_vars => (TInv /\ OInv)'
    BY NextTInv, NextOInv
  <1>3. TInv /\ OInv => NeverOvercommitted
    BY AllocatedIsUsed DEF OInv, RoomLeft, NeverOvercommitted
  <1> QED
    BY <1>1, <1>2, <1>3, PTL DEF Spec
=============================================================================
