------------------------------ MODULE Volumes ------------------------------
(***************************************************************************)
(* Volumes of their own: created, attached to nodes, detached and grown by *)
(* users (user_api/compute/api/controllers.py), given a pool by the        *)
(* scheduler (compute/scheduler/service.py), carried over to the volumes   *)
(* of machines by the volume builder (compute/builders/volume.py) and from *)
(* there to the hypervisors by the pool builder and the pool agent         *)
(* (compute/agents/universal/drivers/pool.py, pool/drivers/libvirt.py).    *)
(*                                                                         *)
(* The services take turns in one process, which may crash between two     *)
(* turns; users act at any time.  Root disks and capacity are the subject  *)
(* of Placement, statuses are left out.                                    *)
(***************************************************************************)
EXTENDS Naturals

CONSTANTS
    Vols, Nodes, Pools,
    MaxSize,       \* bound: size of a volume
    None,
    MaxEvents      \* bound: requests and crashes

VARIABLES
    node,          \* table nodes, and machines: where a node is in its life
    home,          \* the pool a node was placed in
    vol,           \* table node_volumes
    mvol,          \* table compute_machine_volumes
    touched        \* its rows changed since the pool builder last read them

VARIABLES
    vres,          \* target resources of volumes
    pv, pm,        \* target resources of machine volumes and machines
    dom,           \* domains that are there
    disk           \* disks on the hypervisors

VARIABLES turn, events

\* History, for properties only: volumes last carried over while their node had
\* no machine.
VARIABLE early

users == <<node, home, vol>>
targets == <<vres, pv, pm>>
host == <<dom, disk>>
vars == <<users, mvol, touched, targets, host, turn, events, early>>

Owner == Nodes \union {None}
Sizes == 1 .. MaxSize
Volume == [node : Owner, size : Sizes]
MachineVolume == [machine : Owner, size : Sizes, pool : Pools]
Disk == [size : Sizes, pool : Pools, on : Owner]
Rows(Row) == [Vols -> Row \union {None}]

\* None is no node and no row, and a volume may have a size.
VolumesAssumption ==
    /\ MaxSize \in Nat \ {0} /\ MaxEvents \in Nat
    /\ None \notin Nodes
    /\ None \notin Volume /\ None \notin MachineVolume /\ None \notin Disk

TypeOK ==
    /\ node \in [Nodes -> {"absent", "new", "placed", "gone"}] /\ home \in [Nodes -> Pools]
    /\ vol \in Rows(Volume) /\ mvol \in Rows(MachineVolume)
    /\ touched \subseteq Vols /\ early \subseteq Vols
    /\ vres \in Rows(Volume) /\ pv \in Rows(MachineVolume) /\ pm \subseteq Nodes
    /\ dom \subseteq Nodes /\ disk \in Rows(Disk)
    /\ turn \in {"schedule", "pools", "volumes", "agent", "machines"}
    /\ events \in 0 .. MaxEvents
    \* A disk is attached to a domain of its own hypervisor.
    /\ \A v \in Vols : disk[v] # None /\ disk[v].on # None =>
           disk[v].on \in dom /\ home[disk[v].on] = disk[v].pool

Nothing == [v \in Vols |-> None]

Init ==
    /\ node = [n \in Nodes |-> "absent"] /\ home \in [Nodes -> Pools]
    /\ vol = Nothing /\ mvol = Nothing /\ touched = {}
    /\ vres = Nothing /\ pv = Nothing /\ pm = {}
    /\ dom = {} /\ disk = Nothing
    /\ turn = "schedule" /\ events = 0
    /\ early = {}

Tick == events < MaxEvents /\ events' = events + 1

-----------------------------------------------------------------------------
(* Users.                                                                   *)

Exists(n) == node[n] \in {"new", "placed"}

CreateNode(n) ==
    /\ node[n] = "absent"
    /\ node' = [node EXCEPT ![n] = "new"]
    /\ UNCHANGED <<home, vol, mvol, touched, targets, host, turn, events, early>>

CreateVolume(v, n) ==
    /\ Tick
    /\ vol[v] = None /\ mvol[v] = None /\ pv[v] = None /\ disk[v] = None /\ vres[v] = None
    /\ n # None => Exists(n)
    /\ vol' = [vol EXCEPT ![v] = [node |-> n, size |-> 1]]
    /\ UNCHANGED <<node, home, mvol, touched, targets, host, turn, early>>

Change(v, new) ==
    /\ Tick
    /\ vol' = [vol EXCEPT ![v] = new]
    /\ UNCHANGED <<node, home, mvol, touched, targets, host, turn, early>>

Attach(v, n) ==
    /\ vol[v] # None /\ vol[v].node = None /\ Exists(n)
    /\ Change(v, [vol[v] EXCEPT !.node = n])

Detach(v) ==
    /\ vol[v] # None /\ vol[v].node # None
    /\ Change(v, [vol[v] EXCEPT !.node = None])

Resize(v, size) ==
    /\ vol[v] # None /\ vol[v].size # size
    /\ Change(v, [vol[v] EXCEPT !.size = size])

\* The row of the machine volume goes with it.
DeleteVolume(v) ==
    /\ Tick
    /\ vol[v] # None
    /\ vol' = [vol EXCEPT ![v] = None]
    /\ mvol' = [mvol EXCEPT ![v] = None]
    /\ UNCHANGED <<node, home, touched, targets, host, turn, early>>

\* The machine of the node and the volumes attached to it go with it; the
\* foreign key clears the machine of the others, and updated_at stays.
DeleteNode(n) ==
    LET mine == {v \in Vols : vol[v] # None /\ vol[v].node = n}
        left(row) == IF row # None /\ row.machine = n THEN [row EXCEPT !.machine = None] ELSE row
    IN  /\ Tick
        /\ Exists(n)
        /\ node' = [node EXCEPT ![n] = "gone"]
        /\ vol' = [v \in Vols |-> IF v \in mine THEN None ELSE vol[v]]
        /\ mvol' = [v \in Vols |-> IF v \in mine THEN None ELSE left(mvol[v])]
        /\ UNCHANGED <<home, touched, targets, host, turn, early>>

-----------------------------------------------------------------------------
(* The scheduler: one transaction.                                          *)

Wanting(n) == {v \in Vols : vol[v] # None /\ vol[v].node = n}
NewNodes == {n \in Nodes : node[n] = "new"}

\* A machine volume takes the uuid of the volume: a node is placed with all its
\* volumes, and the insert for one that has its row already aborts everything.
Aborts == \E n \in NewNodes, v \in Vols : v \in Wanting(n) /\ mvol[v] # None

Unscheduled(v) == vol[v] # None /\ vol[v].node # None /\ mvol[v] = None

\* Nodes get a machine, and their volumes with them; then the volumes of nodes
\* that have one already, whose machine the volume builder fills in.
Schedule ==
    /\ turn = "schedule" /\ turn' = "pools"
    /\ LET has(v) == /\ Unscheduled(v)
                     /\ vol[v].node \in NewNodes \/ node[vol[v].node] = "placed"
           row(v) == [size |-> vol[v].size, pool |-> home[vol[v].node],
                      machine |-> IF vol[v].node \in NewNodes THEN vol[v].node ELSE None]
       IN  IF Aborts
           THEN UNCHANGED <<node, mvol, touched>>
           ELSE /\ node' = [n \in Nodes |-> IF n \in NewNodes THEN "placed" ELSE node[n]]
                /\ mvol' = [v \in Vols |-> IF has(v) THEN row(v) ELSE mvol[v]]
                /\ touched' = touched \union {v \in Vols : has(v)}
    /\ UNCHANGED <<home, vol, targets, host, events, early>>

-----------------------------------------------------------------------------
(* The pool builder and the volume builder.                                 *)

BuildPools ==
    /\ turn = "pools" /\ turn' = "volumes"
    /\ pv' = [v \in Vols |-> IF mvol[v] = None THEN None
                             ELSE IF pv[v] = None \/ v \in touched THEN mvol[v] ELSE pv[v]]
    /\ touched' = {}
    /\ pm' = {n \in Nodes : node[n] = "placed"}
    /\ UNCHANGED <<users, mvol, vres, host, events, early>>

\* Mutant of Carried: a detached volume keeps its machine.
CarriedWhenAttached(v) == vol[v].node # None /\ vres[v] # vol[v]

\* New, or not as the builder last saw it.
Carried(v) == vres[v] # vol[v]

MachineOf(n) == IF n # None /\ node[n] = "placed" THEN n ELSE None

\* A volume is followed once it has a target for its hypervisor.
BuildVolumes ==
    /\ turn = "volumes" /\ turn' = "agent"
    /\ LET follows == {v \in Vols : vol[v] # None /\ (vres[v] # None \/ pv[v] # None)}
           written == {v \in follows : mvol[v] # None /\ Carried(v)}
           unplaced == {v \in written : vol[v].node # None /\ MachineOf(vol[v].node) = None}
       IN  /\ vres' = [v \in Vols |-> IF v \in follows THEN vol[v] ELSE None]
           /\ mvol' = [v \in Vols |->
                  IF v \in written
                  THEN [mvol[v] EXCEPT !.size = vol[v].size, !.machine = MachineOf(vol[v].node)]
                  ELSE mvol[v]]
           /\ touched' = touched \union written
           /\ early' = (early \ written) \union unplaced
    /\ UNCHANGED <<users, pv, pm, host, events>>

-----------------------------------------------------------------------------
(* The pool agent: volumes, then machines.                                  *)

Reachable(v) ==
    IF pv[v].machine \in dom /\ home[pv[v].machine] = pv[v].pool THEN pv[v].machine ELSE None

\* Shrinking raises before the attachment is looked at.
Shrinks(v) == pv[v].size < disk[v].size

\* A disk is detached before it is attached elsewhere, and stays so while there
\* is no domain.
DiskFor(v) ==
    IF disk[v] = None
    THEN [size |-> pv[v].size, pool |-> pv[v].pool, on |-> Reachable(v)]
    ELSE IF Shrinks(v) THEN disk[v]
    ELSE [disk[v] EXCEPT !.size = pv[v].size, !.on = Reachable(v)]

AgentVolumes ==
    /\ turn = "agent" /\ turn' = "machines"
    /\ disk' = [v \in Vols |-> IF pv[v] = None THEN None ELSE DiskFor(v)]
    /\ UNCHANGED <<users, mvol, touched, targets, dom, events, early>>

\* Mutant of Without: the disks are listed before the domain is undefined.
WithoutAttached(d, lost) == IF d # None /\ d.on \in lost THEN None ELSE d

\* The list of the disks to delete is made when the domain is undefined: it is
\* empty, and the disks only come loose.
Without(d, lost) == IF d # None /\ d.on \in lost THEN [d EXCEPT !.on = None] ELSE d

\* A domain is defined with the disks whose targets name it.
AgentMachines ==
    /\ turn = "machines" /\ turn' = "schedule"
    /\ dom' = pm
    /\ disk' = [v \in Vols |->
           LET d == Without(disk[v], dom \ pm)
           IN  IF d # None /\ pv[v] # None /\ pv[v].machine \in pm \ dom
                  /\ home[pv[v].machine] = d.pool
               THEN [d EXCEPT !.on = pv[v].machine] ELSE d]
    /\ UNCHANGED <<users, mvol, touched, targets, events, early>>

Crash ==
    /\ Tick
    /\ turn # "schedule" /\ turn' = "schedule"
    /\ UNCHANGED <<users, mvol, touched, targets, host, early>>

\* A change of the machine deletes the domain and defines it again.
CrashInRecreate(n) ==
    /\ Tick
    /\ turn = "machines" /\ n \in dom \intersect pm
    /\ turn' = "schedule"
    /\ dom' = dom \ {n}
    /\ disk' = [v \in Vols |->
           IF disk[v] # None /\ disk[v].on = n THEN [disk[v] EXCEPT !.on = None] ELSE disk[v]]
    /\ UNCHANGED <<users, mvol, touched, targets, early>>

-----------------------------------------------------------------------------
Process == Schedule \/ BuildPools \/ BuildVolumes \/ AgentVolumes \/ AgentMachines

User ==
    \/ \E v \in Vols :
        \/ \E n \in Owner : CreateVolume(v, n)
        \/ \E n \in Nodes : Attach(v, n)
        \/ \E size \in Sizes : Resize(v, size)
        \/ Detach(v) \/ DeleteVolume(v)
    \/ \E n \in Nodes : CreateNode(n) \/ DeleteNode(n)

Next ==
    \/ Process \/ User
    \/ Crash \/ \E n \in Nodes : CrashInRecreate(n)

Spec == Init /\ [][Next]_vars
\* The process runs its services again and again.
FairSpec == Spec /\ WF_vars(Process)

-----------------------------------------------------------------------------
\* The disk of a volume is deleted only when the volume is: a volume that was
\* detached outlives the node it was attached to, although the detachment may
\* reach the hypervisor after the deletion of the machine, which means to delete
\* the disks of the domain (libvirt.py:1244).
DiskIsKept == [][\A v \in Vols : disk[v] # None /\ disk'[v] = None => vol[v] = None]_vars

\* Asked for less than there is, or for a node on another hypervisor: the agent
\* fails again and again.
Refused(v) ==
    \/ disk[v] # None /\ vol[v].size < disk[v].size
    \/ disk[v] # None /\ vol[v].node # None /\ home[vol[v].node] # disk[v].pool

Attached ==
    \A v \in Vols :
        IF vol[v] = None THEN disk[v] = None
        ELSE \/ disk[v] = None
             \/ Refused(v) \/ v \in early
             \/ disk[v].size = vol[v].size /\ disk[v].on = MachineOf(vol[v].node)

\* When the users stop, every volume that has a disk is attached to the machine
\* of its node, or to none, in the size asked for, unless the agent refuses it
\* or the volume was carried over before its node had a machine; disks of deleted
\* volumes are gone.
AttachedAsAsked == <>[]Attached
=============================================================================
