--------------------------- MODULE MCVMController ---------------------------
(* VMController for TLC: two VMs, two images, requests that fill the node.  *)
EXTENDS VMController

CONSTANTS a, b, f, g

MCTotal == [vcpu |-> 2, ram |-> 3]

MCCreates ==
    [op : {"create"}, name : Names, file : Files,
     alloc : {[vcpu |-> 1, ram |-> 1], [vcpu |-> 1, ram |-> 2]},
     autostart : {TRUE}, start : {TRUE}]
    \cup [op : {"create"}, name : {a}, file : {f}, alloc : {[vcpu |-> 2, ram |-> 1]},
          autostart : {FALSE}, start : {FALSE}]
    \cup [op : {"create"}, name : {b}, file : {g}, alloc : {[vcpu |-> 1, ram |-> Width - 1]},
          autostart : {FALSE}, start : {TRUE}]
\* Each VM with an image of its own.
MCApartCreates == {q \in MCCreates : q.name = a <=> q.file = f}

MCUpdates ==
    [op : {"update"}, name : {a},
     alloc : {[vcpu |-> 0, ram |-> 1], [vcpu |-> 0, ram |-> 2], [vcpu |-> 2, ram |-> 1]},
     autostart : {TRUE}]
    \cup [op : {"update"}, name : {a}, alloc : {[vcpu |-> 1, ram |-> 0],
          [vcpu |-> 0, ram |-> Width - 1]}, autostart : {FALSE}]
MCDeletes == [op : {"delete"}, name : Names, force : BOOLEAN, removeDisk : {TRUE}]
             \cup [op : {"delete"}, name : {a}, force : {FALSE}, removeDisk : {FALSE}]
MCMigrates == [op : {"migrate"}, name : {a}, live : {TRUE}, fallback : BOOLEAN,
               undefineSource : BOOLEAN]
=============================================================================
