---------------------------- MODULE VMController ----------------------------
(***************************************************************************)
(* The VM controller behind the agent's RPCs (internal/libvirt/vm/         *)
(* control.go): CreateVM, UpdateVM, DeleteVM and MigrateVM, each a series  *)
(* of libvirt calls, file operations and commands that may fail one by     *)
(* one, under one mutex.  Guests stop by themselves, shutdown requests are *)
(* ignored, and the agent may die between any two steps.  A call to        *)
(* libvirtd takes no context: while libvirtd hangs it does not return, and *)
(* neither does a system call on storage that hangs.                       *)
(*                                                                         *)
(* A domain has a maximal allocation, which readDomainConfig reads from    *)
(* <memory> and <vcpu>, and a configured current one, which                *)
(* DomainSetMemoryFlags and DomainSetVcpusFlags set and the agent never    *)
(* reads.  Without their MAXIMUM flags these calls refuse more than the    *)
(* maximum.  Undefining an active domain leaves it running as a transient  *)
(* one.                                                                    *)
(***************************************************************************)
EXTENDS Naturals, FiniteSetsExt

CONSTANTS
    Handlers,       \* goroutines of the RPC server
    Names,          \* VM names
    Files,          \* paths of disk images
    Creates, Updates, Deletes, Migrates,    \* requests clients may send
    Total,          \* capacity of the node: [vcpu, ram]
    Width,          \* sums and products are unsigned and wrap here
    Unit,           \* KiB in a MiB
    MaxDomainRam,   \* the largest memory libvirt can represent (external)
    Nil,            \* nobody, no domain, no request
    MaxFaults,      \* bound: failing calls and hangs
    MaxRestarts     \* bound: restarts of the agent

ASSUME BoundsAssumption == MaxFaults \in Nat /\ MaxRestarts \in Nat
ASSUME TotalAssumption == Total \in [vcpu : Nat, ram : Nat]

\* libvirt counts KiB in numbers of the same width as the agent counts MiB.
ASSUME WidthAssumption ==
    /\ Width \in Nat /\ MaxDomainRam \in Nat /\ Unit \in Nat \ {0}
    /\ Total.ram + MaxDomainRam < Width /\ MaxDomainRam * Unit < Width

Resources == {"vcpu", "ram"}
Alloc == [vcpu : Nat, ram : Nat]

\* An allocation as libvirt is given it: desiredRAMMB * 1024 may wrap around.
InKiB(alloc) == [alloc EXCEPT !.ram = (@ * Unit) % Width]

\* validateCreateSpec: a request with an empty size is answered at once.  In an
\* update 0 stands for "keep".
ASSUME RequestsAssumption ==
    /\ \A q \in Creates : /\ q.op = "create" /\ q.name \in Names /\ q.file \in Files
                          /\ q.alloc \in [vcpu : Nat \ {0}, ram : Nat \ {0}]
                          /\ q.autostart \in BOOLEAN /\ q.start \in BOOLEAN
    /\ \A q \in Updates : /\ q.op = "update" /\ q.name \in Names /\ q.alloc \in Alloc
                          /\ q.autostart \in BOOLEAN
    /\ \A q \in Deletes : /\ q.op = "delete" /\ q.name \in Names
                          /\ q.force \in BOOLEAN /\ q.removeDisk \in BOOLEAN
    /\ \A q \in Migrates : /\ q.op = "migrate" /\ q.name \in Names /\ q.live \in BOOLEAN
                           /\ q.fallback \in BOOLEAN /\ q.undefineSource \in BOOLEAN

\* The request's CPU count and the node's are 32-bit numbers, added as 64-bit ones.
ASSUME VcpuAssumption == \A q \in Creates : Total.vcpu + q.alloc.vcpu < Width

Requests == Creates \cup Updates \cup Deletes \cup Migrates

VARIABLES
    dom,        \* libvirt's domain table (external)
    disk,       \* disk images in the file system (external)
    hung,       \* what answers no call now (external)
    mu,         \* Controller.controlMu: the handler that holds it
    pc, req,    \* each handler: next step and request
    cfg,        \* each handler: vmCfg as read at the start of the operation
    faults, restarts,   \* consumed bounds
    causes      \* history: faults after which a weaker guarantee is left

handlerVars == <<mu, pc, req, cfg>>
vars == <<dom, disk, hung, mu, pc, req, cfg, faults, restarts, causes>>

Services == {"libvirtd", "storage"}
Domains == [max : Alloc, cur : Alloc, state : {"off", "running", "shutdown"},
            persistent : BOOLEAN, file : Files]
ASSUME NilAssumption == Nil \notin Handlers /\ Nil \notin Requests /\ Nil \notin Domains
NoConfig == [alloc |-> [vcpu |-> 0, ram |-> 0], file |-> Nil]

Exists(n) == dom[n] # Nil
Persistent(n) == Exists(n) /\ dom[n].persistent
Active(d) == d # Nil /\ d.state # "off"
Config(n) == [alloc |-> dom[n].max, file |-> dom[n].file]

\* isDomainRunning: running, blocked, paused and pmsuspended are "running"
\* here; a domain that is shutting down counts as stopped although active.
IsDomainRunning(n) == Exists(n) /\ dom[n].state = "running"

\* readAllocatedCapacity of the domains that could be read, without exclude.
Allocated(r, readable, exclude) ==
    MapThenSumSet(LAMBDA n : dom[n].max[r], {n \in readable \ exclude : Exists(n)})

\* A domain leaves the table when it stops being active and is not persistent.
Stopped(d) == IF d.persistent THEN [d EXCEPT !.state = "off"] ELSE Nil

Init ==
    /\ dom = [n \in Names |-> Nil] /\ disk = {} /\ hung = {}
    /\ mu = Nil /\ pc = [h \in Handlers |-> "idle"]
    /\ req = [h \in Handlers |-> Nil] /\ cfg = [h \in Handlers |-> NoConfig]
    /\ faults = 0 /\ restarts = 0 /\ causes = {}

-----------------------------------------------------------------------------
(* Guests, the host and the agent process *)

GuestShutsDown(n) ==
    /\ IsDomainRunning(n)
    /\ dom' = [dom EXCEPT ![n].state = "shutdown"]
    /\ UNCHANGED <<disk, hung, handlerVars, faults, restarts, causes>>

GuestStops(n) ==
    /\ Exists(n) /\ dom[n].state = "shutdown"
    /\ dom' = [dom EXCEPT ![n] = Stopped(@)]
    /\ UNCHANGED <<disk, hung, handlerVars, faults, restarts, causes>>

Fault == faults < MaxFaults /\ faults' = faults + 1

\* libvirtd or the storage stops answering, for some time or for ever.
Hangs(s) ==
    /\ s \notin hung
    /\ hung' = hung \cup {s}
    /\ Fault
    /\ UNCHANGED <<dom, disk, handlerVars, restarts, causes>>

Recovers(s) ==
    /\ s \in hung
    /\ hung' = hung \ {s}
    /\ UNCHANGED <<dom, disk, handlerVars, faults, restarts, causes>>

\* The process is restarted: operations under way end where they are.
Restart ==
    /\ restarts < MaxRestarts
    /\ restarts' = restarts + 1
    /\ mu' = Nil /\ pc' = [h \in Handlers |-> "idle"]
    /\ req' = [h \in Handlers |-> Nil] /\ cfg' = [h \in Handlers |-> NoConfig]
    /\ UNCHANGED <<dom, disk, hung, faults, causes>>

-----------------------------------------------------------------------------
(* Steps of an operation *)

At(h, step) == pc[h] = step

\* A call to this service returns, with a result or an error.
Answers(s) == s \notin hung

GoTo(h, step) ==
    /\ pc' = [pc EXCEPT ![h] = step]
    /\ UNCHANGED <<mu, req, hung>>

\* The handler returns, with or without an error, and unlocks.
Return(h) ==
    /\ mu' = Nil
    /\ pc' = [pc EXCEPT ![h] = "idle"]
    /\ req' = [req EXCEPT ![h] = Nil]
    /\ cfg' = [cfg EXCEPT ![h] = NoConfig]
    /\ UNCHANGED hung

\* A call fails and the operation returns the error, undoing nothing.
Fails(h) ==
    /\ Fault
    /\ Return(h)
    /\ UNCHANGED <<dom, disk, restarts, causes>>

\* The handler takes controlMu.
Begin(h, q) ==
    /\ At(h, "idle") /\ mu = Nil
    /\ mu' = h
    /\ pc' = [pc EXCEPT ![h] = "lookup"]
    /\ req' = [req EXCEPT ![h] = q]
    /\ UNCHANGED <<dom, disk, hung, cfg, faults, restarts, causes>>

\* The first step under the lock: create is answered if the domain exists, the
\* others if it does not.
FirstStep(q) ==
    IF q.op = "create" THEN (IF Exists(q.name) THEN "idle" ELSE "admit")
    ELSE IF ~Exists(q.name) THEN "idle"
    ELSE IF q.op = "migrate" THEN "state" ELSE "config"

\* DomainLookupByName.
Lookup(h) ==
    /\ At(h, "lookup") /\ Answers("libvirtd")
    /\ \/ /\ FirstStep(req[h]) # "idle"
          /\ GoTo(h, FirstStep(req[h]))
          /\ UNCHANGED <<dom, disk, cfg, faults, restarts, causes>>
       \/ /\ FirstStep(req[h]) = "idle"
          /\ Return(h)
          /\ UNCHANGED <<dom, disk, faults, restarts, causes>>
       \/ Fails(h)

\* readDomainConfig of update and delete.  The domain may be gone by now.
ReadConfig(h) ==
    /\ At(h, "config") /\ Answers("libvirtd")
    /\ LET n == req[h].name
       IN  \/ /\ Exists(n)
              /\ cfg' = [cfg EXCEPT ![h] = Config(n)]
              /\ GoTo(h, IF req[h].op = "update" THEN "admit" ELSE "info")
              /\ UNCHANGED <<dom, disk, faults, restarts, causes>>
           \/ /\ ~Exists(n)
              /\ Return(h)
              /\ UNCHANGED <<dom, disk, faults, restarts, causes>>
           \/ Fails(h)

\* What update asks for: the request's value, or the configured one.
Desired(h) ==
    IF req[h].op = "create" THEN req[h].alloc
    ELSE [r \in Resources |-> IF req[h].alloc[r] > 0 THEN req[h].alloc[r]
                                                     ELSE cfg[h].alloc[r]]

\* Mutant of Admissible: stopped domains do not count.
AdmissibleRunning(h, readable) ==
    \A r \in Resources :
        Allocated(r, {n \in readable : IsDomainRunning(n)},
                  IF req[h].op = "update" THEN {req[h].name} ELSE {})
            + Desired(h)[r] <= Total[r]

\* The CPU and RAM checks of checkAdmission.  The RAM of a request is whatever
\* 64-bit number the client sent, and the sum may wrap around.
Admissible(h, readable) ==
    \A r \in Resources :
        (Allocated(r, readable, IF req[h].op = "update" THEN {req[h].name} ELSE {})
            + Desired(h)[r]) % Width <= Total[r]

\* Mutant of CheckAdmission: the mutex covers the check only.
CheckAdmissionUnlocks(h) ==
    /\ At(h, "admit") /\ Services \cap hung = {}
    /\ Admissible(h, Names)
    /\ mu' = Nil
    /\ pc' = [pc EXCEPT ![h] = IF req[h].op = "create" THEN "image" ELSE "setVcpu"]
    /\ UNCHANGED <<dom, disk, hung, req, cfg, faults, restarts, causes>>

\* checkAdmission.  A domain whose configuration cannot be read is skipped.
\* Free storage changes by itself: a create may be rejected for it any time.
CheckAdmission(h) ==
    /\ At(h, "admit") /\ Services \cap hung = {}
    /\ \/ \E unreadable \in SUBSET {n \in Names : Exists(n)} :
             /\ IF unreadable = {} THEN faults' = faults ELSE Fault
             /\ causes' = IF unreadable = {} THEN causes ELSE causes \cup {"unreadable"}
             /\ IF Admissible(h, Names \ unreadable)
                THEN /\ GoTo(h, IF req[h].op = "create" THEN "image" ELSE "setVcpu")
                     /\ UNCHANGED cfg
                ELSE Return(h)
             /\ UNCHANGED <<dom, disk, restarts>>
       \/ /\ req[h].op = "create"
          /\ Return(h)
          /\ UNCHANGED <<dom, disk, faults, restarts, causes>>
       \/ Fails(h)

-----------------------------------------------------------------------------
(* CreateVM *)

\* ensureDiskImage: an existing image is an error, whoever left it there; a
\* failing or killed qemu-img may leave a file behind.  qemu-img is killed when
\* the RPC is cancelled, and has no other deadline.
EnsureDiskImage(h) ==
    /\ At(h, "image")
    /\ \/ /\ req[h].file \in disk /\ Answers("storage")
          /\ Return(h)
          /\ UNCHANGED <<dom, disk, faults, restarts, causes>>
       \/ /\ req[h].file \notin disk /\ Answers("storage")
          /\ disk' = disk \cup {req[h].file}
          /\ GoTo(h, "define")
          /\ UNCHANGED <<dom, cfg, faults, restarts, causes>>
       \/ /\ Fault
          /\ disk' \in {disk, disk \cup {req[h].file}}
          /\ Return(h)
          /\ UNCHANGED <<dom, restarts, causes>>

\* DomainDefineXML refuses a size it cannot represent.
DefineXML(h) ==
    /\ At(h, "define") /\ Answers("libvirtd")
    /\ \/ /\ req[h].alloc.ram <= MaxDomainRam
          /\ dom' = [dom EXCEPT ![req[h].name] =
                        [max |-> req[h].alloc, cur |-> InKiB(req[h].alloc), state |-> "off",
                         persistent |-> TRUE, file |-> req[h].file]]
          /\ GoTo(h, IF req[h].autostart THEN "autostart" ELSE "start")
          /\ UNCHANGED <<disk, cfg, faults, restarts, causes>>
       \/ /\ req[h].alloc.ram > MaxDomainRam
          /\ Return(h)
          /\ UNCHANGED <<dom, disk, faults, restarts, causes>>
       \/ Fails(h)

\* DomainSetAutostart, in create and as the last step of update.
SetAutostart(h) ==
    /\ At(h, "autostart") /\ Answers("libvirtd")
    /\ \/ /\ IF req[h].op = "create" THEN GoTo(h, "start") /\ UNCHANGED cfg
                                     ELSE Return(h)
          /\ UNCHANGED <<dom, disk, faults, restarts, causes>>
       \/ Fails(h)

Start(h) ==
    /\ At(h, "start")
    /\ \/ /\ ~req[h].start
          /\ Return(h)
          /\ UNCHANGED <<dom, disk, faults, restarts, causes>>
       \/ /\ req[h].start /\ Answers("libvirtd")
          /\ dom' = [dom EXCEPT ![req[h].name].state = "running"]
          /\ Return(h)
          /\ UNCHANGED <<disk, faults, restarts, causes>>
       \/ req[h].start /\ Answers("libvirtd") /\ Fails(h)

-----------------------------------------------------------------------------
(* UpdateVM *)

\* Set one resource if it differs from what was read: first live and in the
\* configuration, then in the configuration only; either sets the configured
\* current allocation.  More than the maximum, and a domain that is gone or has
\* no configuration, fail both calls.
SetResource(h, r) ==
    LET n == req[h].name
        given == InKiB(Desired(h))[r]
        accepted == Persistent(n) /\ given <= InKiB(dom[n].max)[r]
        next == IF r = "vcpu" THEN "setRam" ELSE "autostart"
        leave == IF r = "vcpu" \/ req[h].autostart THEN GoTo(h, next) /\ UNCHANGED cfg
                                                   ELSE Return(h)
    IN  \/ /\ Desired(h)[r] = cfg[h].alloc[r]
           /\ leave
           /\ UNCHANGED <<dom, disk, faults, restarts, causes>>
        \/ /\ Desired(h)[r] # cfg[h].alloc[r] /\ Answers("libvirtd")
           /\ \/ /\ accepted
                 /\ dom' = [dom EXCEPT ![n].cur[r] = given]
                 /\ leave
                 /\ UNCHANGED <<disk, faults, restarts, causes>>
              \/ /\ ~accepted
                 /\ Return(h)
                 /\ UNCHANGED <<dom, disk, faults, restarts, causes>>
              \/ Fails(h)

SetVcpus(h) == At(h, "setVcpu") /\ SetResource(h, "vcpu")
SetMemory(h) == At(h, "setRam") /\ SetResource(h, "ram")

-----------------------------------------------------------------------------
(* DeleteVM *)

\* DomainGetInfo and DomainShutdown.  When the state cannot be read the code
\* goes on as for a stopped domain.
ShutdownIfRunning(h) ==
    /\ At(h, "info") /\ Answers("libvirtd")
    /\ \/ /\ GoTo(h, IF IsDomainRunning(req[h].name) THEN "wait" ELSE "undefine")
          /\ UNCHANGED <<dom, disk, cfg, faults, restarts, causes>>
       \/ /\ Fault
          /\ causes' = causes \cup {"stateUnknown"}
          /\ GoTo(h, "undefine")
          /\ UNCHANGED <<dom, disk, cfg, restarts>>
       \/ /\ IsDomainRunning(req[h].name)      \* DomainShutdown fails
          /\ Fault
          /\ IF req[h].force THEN GoTo(h, "wait") /\ UNCHANGED cfg ELSE Return(h)
          /\ UNCHANGED <<dom, disk, restarts, causes>>

\* Mutant of Poll: an error counts as stopped.
PollErrorStops(h) ==
    /\ At(h, "wait") /\ Answers("libvirtd")
    /\ \/ /\ ~IsDomainRunning(req[h].name)
          /\ GoTo(h, IF req[h].op = "migrate" THEN "virsh2" ELSE "undefine")
          /\ faults' = faults
       \/ /\ IsDomainRunning(req[h].name)
          /\ GoTo(h, "select")
          /\ faults' = faults
       \/ /\ Fault
          /\ GoTo(h, IF req[h].op = "migrate" THEN "virsh2" ELSE "undefine")
    /\ UNCHANGED <<dom, disk, cfg, restarts, causes>>

\* waitDomainStopped, one round: DomainGetInfo leaves the loop if the domain is
\* seen stopped.  An error, as for a domain that vanished, does not.
Poll(h) ==
    /\ At(h, "wait") /\ Answers("libvirtd")
    /\ \/ /\ Exists(req[h].name) /\ ~IsDomainRunning(req[h].name)
          /\ GoTo(h, IF req[h].op = "migrate" THEN "virsh2" ELSE "undefine")
          /\ faults' = faults
       \/ /\ Exists(req[h].name) => IsDomainRunning(req[h].name)
          /\ GoTo(h, "select")
          /\ faults' = faults
       \/ Fault /\ GoTo(h, "select")
    /\ UNCHANGED <<dom, disk, cfg, restarts, causes>>

\* waitDomainStopped's select takes the ticker.
SelectTick(h) ==
    /\ At(h, "select")
    /\ GoTo(h, "wait")
    /\ UNCHANGED <<dom, disk, cfg, faults, restarts, causes>>

\* Mutant of SelectDeadline: the case leaves the select and not the loop.
SelectDeadlineBreaks(h) ==
    /\ At(h, "select")
    /\ GoTo(h, "wait")
    /\ UNCHANGED <<dom, disk, cfg, faults, restarts, causes>>

\* waitDomainStopped's select sees that the time is up or the RPC cancelled.
SelectDeadline(h) ==
    /\ At(h, "select")
    /\ IF req[h].op = "migrate" THEN GoTo(h, "virsh2") /\ UNCHANGED cfg
       ELSE IF req[h].force THEN GoTo(h, "destroy") /\ UNCHANGED cfg
       ELSE Return(h)
    /\ UNCHANGED <<dom, disk, faults, restarts, causes>>

\* DomainDestroy fails on a domain that stopped meanwhile.
Destroy(h) ==
    /\ At(h, "destroy") /\ Answers("libvirtd")
    /\ LET n == req[h].name
       IN  \/ /\ Active(dom[n])
              /\ dom' = [dom EXCEPT ![n] = Stopped(@)]
              /\ GoTo(h, "undefine")
              /\ UNCHANGED <<disk, cfg, faults, restarts, causes>>
           \/ /\ ~Active(dom[n])
              /\ Return(h)
              /\ UNCHANGED <<dom, disk, faults, restarts, causes>>
           \/ Fails(h)

\* Mutant of Undefine: its error is ignored.
UndefineIgnored(h) ==
    /\ At(h, "undefine") /\ Answers("libvirtd")
    /\ \/ /\ Persistent(req[h].name)
          /\ dom' = [dom EXCEPT ![req[h].name] =
                        IF @.state = "off" THEN Nil ELSE [@ EXCEPT !.persistent = FALSE]]
          /\ faults' = faults
       \/ dom' = dom /\ Fault
    /\ GoTo(h, "remove")
    /\ UNCHANGED <<disk, cfg, restarts, causes>>

\* DomainUndefineFlags, then DomainUndefine: an active domain stays as a
\* transient one, a transient one cannot be undefined.
Undefine(h) ==
    /\ At(h, "undefine") /\ Answers("libvirtd")
    /\ LET n == req[h].name
       IN  \/ /\ Persistent(n)
              /\ dom' = [dom EXCEPT ![n] = IF @.state = "off" THEN Nil
                                           ELSE [@ EXCEPT !.persistent = FALSE]]
              /\ GoTo(h, "remove")
              /\ UNCHANGED <<disk, cfg, faults, restarts, causes>>
           \/ /\ ~Persistent(n)
              /\ Return(h)
              /\ UNCHANGED <<dom, disk, faults, restarts, causes>>
           \/ Fails(h)

\* The image is removed if asked for; a failure is only logged.
RemoveDisk(h) ==
    /\ At(h, "remove")
    /\ \/ /\ disk' = IF req[h].removeDisk THEN disk \ {cfg[h].file} ELSE disk
          /\ faults' = faults
       \/ req[h].removeDisk /\ disk' = disk /\ Fault
    /\ req[h].removeDisk => Answers("storage")
    /\ Return(h)
    /\ UNCHANGED <<dom, restarts, causes>>

-----------------------------------------------------------------------------
(* MigrateVM *)

ReadState(h) ==
    /\ At(h, "state") /\ Answers("libvirtd")
    /\ \/ /\ Exists(req[h].name)
          /\ GoTo(h, IF req[h].live /\ req[h].fallback /\ IsDomainRunning(req[h].name)
                     THEN "virshFallback" ELSE "virsh2")
          /\ UNCHANGED <<dom, disk, cfg, faults, restarts, causes>>
       \/ /\ ~Exists(req[h].name)
          /\ Return(h)
          /\ UNCHANGED <<dom, disk, faults, restarts, causes>>
       \/ Fails(h)

\* virsh migrate has moved the domain: it is gone here, or defined and off.
Moved(h) ==
    /\ Exists(req[h].name) /\ Answers("libvirtd")
    /\ dom' = [dom EXCEPT ![req[h].name] =
                  IF @.persistent /\ ~req[h].undefineSource THEN [@ EXCEPT !.state = "off"]
                  ELSE Nil]

\* virsh has a deadline of its own.  A live migration that fails, is cancelled
\* or times out, or that ended after all, is followed by the fallback.
VirshWithFallback(h) ==
    /\ At(h, "virshFallback")
    /\ \/ Moved(h) /\ Return(h)
       \/ /\ Moved(h) \/ dom' = dom
          /\ GoTo(h, "fallback")
          /\ UNCHANGED cfg
    /\ UNCHANGED <<disk, faults, restarts, causes>>

\* The fallback's DomainShutdown: a wait if libvirt accepts it.
FallbackShutdown(h) ==
    /\ At(h, "fallback") /\ Answers("libvirtd")
    /\ \/ Active(dom[req[h].name]) /\ GoTo(h, "wait") /\ faults' = faults
       \/ ~Active(dom[req[h].name]) /\ GoTo(h, "virsh2") /\ faults' = faults
       \/ Fault /\ GoTo(h, "virsh2")
    /\ UNCHANGED <<dom, disk, cfg, restarts, causes>>

\* The only attempt, or the one after the fallback's shutdown.
Virsh(h) ==
    /\ At(h, "virsh2")
    /\ Moved(h) \/ dom' = dom
    /\ Return(h)
    /\ UNCHANGED <<disk, faults, restarts, causes>>

-----------------------------------------------------------------------------
Step(h) ==
    \/ Lookup(h) \/ ReadConfig(h) \/ CheckAdmission(h)
    \/ EnsureDiskImage(h) \/ DefineXML(h) \/ SetAutostart(h) \/ Start(h)
    \/ SetVcpus(h) \/ SetMemory(h)
    \/ ShutdownIfRunning(h) \/ Poll(h) \/ SelectTick(h) \/ SelectDeadline(h)
    \/ Destroy(h) \/ Undefine(h) \/ RemoveDisk(h)
    \/ ReadState(h) \/ VirshWithFallback(h) \/ FallbackShutdown(h) \/ Virsh(h)

Next ==
    \/ \E h \in Handlers : Step(h) \/ \E q \in Requests : Begin(h, q)
    \/ \E n \in Names : GuestShutsDown(n) \/ GuestStops(n)
    \/ \E s \in Services : Hangs(s) \/ Recovers(s)
    \/ Restart

Spec == Init /\ [][Next]_vars

\* A handler whose call is answered goes on.  The wait comes back to its select
\* with every tick, the deadline passes, and Go chooses at random between cases
\* that are ready: the deadline is not overlooked for ever.
FairSpec ==
    /\ Spec
    /\ \A h \in Handlers : WF_vars(Step(h)) /\ SF_vars(SelectDeadline(h))

-----------------------------------------------------------------------------
(* Properties *)

\* Domains, images and handlers have their types, and the only handler inside
\* an operation is the one that holds controlMu.
TypeOK ==
    /\ dom \in [Names -> Domains \cup {Nil}]
    /\ disk \in SUBSET Files /\ hung \in SUBSET Services
    /\ mu \in Handlers \cup {Nil}
    /\ pc \in [Handlers -> {"idle", "lookup", "config", "admit", "image", "define", "autostart",
                            "start", "setVcpu", "setRam", "info", "wait", "select", "destroy",
                            "undefine", "remove", "state", "virshFallback", "fallback",
                            "virsh2"}]
    /\ req \in [Handlers -> Requests \cup {Nil}]
    /\ cfg \in [Handlers -> [alloc : Alloc, file : Files \cup {Nil}]]
    /\ \A h \in Handlers : mu = h <=> pc[h] # "idle"
    /\ \A h \in Handlers : req[h] = Nil <=> pc[h] = "idle"
    /\ faults \in 0..MaxFaults /\ restarts \in 0..MaxRestarts
    /\ causes \in SUBSET {"unreadable", "stateUnknown"}

\* The domains never exceed the node's CPUs and RAM, however requests race,
\* fail halfway or are cut off by a restart, unless checkAdmission once skipped
\* a domain it could not read.  A request whose sum wraps around is admitted and
\* only stopped by libvirt, which cannot represent it.
NeverOvercommitted ==
    "unreadable" \notin causes =>
        \A r \in Resources : Allocated(r, Names, {}) <= Total[r]

\* A defined domain has its disk image, and shares it with no other one: images
\* are created before the definition and removed after it, and whatever fails
\* or crashes in between leaves at most an image too many.
DefinedHasDisk ==
    /\ \A n \in Names : Persistent(n) => dom[n].file \in disk
    /\ \A m, n \in Names :
          m # n /\ Persistent(m) /\ Persistent(n) => dom[m].file # dom[n].file

\* DeleteVM takes no image away from a domain that runs, unless it could not
\* read the domain's state.
RunningKeepsDisk ==
    "stateUnknown" \notin causes =>
        \A n \in Names : IsDomainRunning(n) => dom[n].file \in disk

\* DeleteVM answers "vm still running, retry with force=true" instead of
\* deleting a domain that runs: so no domain that runs loses its image.
RunningNeverDeleted ==
    \A n \in Names : IsDomainRunning(n) => dom[n].file \in disk

\* UpdateVM answers "no changes" when the domain already has what was asked
\* for: when the step that sets the memory of a domain that has a configuration,
\* to no more than its maximum, meets no failing call, the domain has the memory
\* that was asked for.
UpdateApplied ==
    [][\A h \in Handlers :
          /\ SetMemory(h) /\ faults' = faults
          /\ Persistent(req[h].name) /\ req[h].alloc.ram \in 1..cfg[h].alloc.ram
          => dom'[req[h].name].cur.ram = InKiB(req[h].alloc).ram]_vars

\* Once libvirtd and the storage answer for good, every operation ends and gives
\* the mutex back: a guest that ignores its shutdown request holds the others up
\* until the deadline and no longer.  While libvirtd hangs they wait with it.
OperationsEnd ==
    <>[](hung = {}) => \A h \in Handlers : pc[h] # "idle" ~> pc[h] = "idle"
=============================================================================
