---------------------------- MODULE MachineLife ----------------------------
(***************************************************************************)
(* The life of one placed machine: the node builder and the volume builder *)
(* carry what the user asks of the node over to the rows of its machine    *)
(* and root disk (compute/builders/node.py, volume.py), the pool builder   *)
(* makes a target for the hypervisor and one for the guest of them         *)
(* (builders/pool.py), the pool agent defines the domain anew for every    *)
(* change (agents/universal/drivers/pool.py, pool/drivers/libvirt.py).  A  *)
(* machine is installed from the boot network: a system there flashes the  *)
(* root disk and says FLASHED, then the builder switches to the disk.      *)
(*                                                                         *)
(* The services take turns in one process, which may crash between two     *)
(* turns and in the middle of a change of the domain; user and guest act   *)
(* at any time.  Placement and capacity are the subject of Placement.      *)
(***************************************************************************)
EXTENDS Naturals

CONSTANTS
    Images,
    MaxSize,       \* bound: sizes of a node
    None,
    MaxEvents      \* bound: requests and crashes

VARIABLES
    node,          \* table nodes: the image and the size asked for
    vol,           \* table node_volumes: image of the root disk
    mvol,          \* table compute_machine_volumes: the same
    machine,       \* table machines: size, image, status, whether it was changed
    nres, vres,    \* target resources of node and volume
    pool, guest    \* target resources of the machine: pool_machine, guest_machine

VARIABLES
    vm,            \* the domain
    disk,          \* the image on its root disk, <<image>> while it is written
    os,            \* what runs: nothing, the flashing system, the system on the disk
    poolrep,       \* actual pool_machine, as the agent reports it
    guestrep,      \* actual guest_machine, as the guest reports it
    seen           \* the reports the builder has handled

VARIABLES turn, events

\* History, for properties only.
VARIABLES
    data,          \* the image whose system last ran from the disk
    other,         \* another one was asked for since, or was on its way then
    disturbed,     \* a change reached the machine while it was installed
    missed         \* a change that never arrives: it came before the first turn
                   \* of the node builder, or after the machine had been rebuilt

rows == <<vol, mvol, machine>>
targets == <<nres, vres, pool, guest>>
host == <<vm, disk, os, poolrep, guestrep>>
history == <<data, other, disturbed, missed>>
vars == <<node, rows, targets, host, seen, turn, events, history>>

Boot == {"network", "hd0"}
Sizes == 1 .. MaxSize
Asked == [image : Images, size : Sizes]
Machine == [size : Sizes, image : Images \union {None}, changed : BOOLEAN,
            status : {"NEW", "IN_PROGRESS", "ACTIVE"}]
Domain == [image : Images, size : Sizes, boot : Boot]
Report == [image : Images, boot : Boot, status : {"FLASHED", "ACTIVE"}]

\* None is no image, target or report; a half-written image is none either.
MachineAssumption ==
    /\ MaxEvents \in Nat
    /\ None \notin Images \union Asked \union Domain \union Report \union [image : Images, boot : Boot]
    /\ \A i \in Images : <<i>> \notin Images /\ <<i>> # None

TypeOK ==
    /\ node \in Asked /\ vol \in Images /\ mvol \in Images
    /\ machine \in Machine
    /\ nres \in Asked \union {None} /\ vres \in Images \union {None}
    /\ pool \in Domain \union {None}
    /\ guest \in [image : Images, boot : Boot] \union {None}
    /\ vm \in Domain \union {None} /\ poolrep \in Domain \union {None}
    /\ disk \in Images \union {None} \union {<<i>> : i \in Images}
    /\ os \in {"off", "flashing", "flashed", "running"}
    /\ guestrep \in Report \union {None}
    /\ turn \in {"pools", "nodes", "volumes", "agent"}
    /\ events \in 0 .. MaxEvents
    /\ other \in BOOLEAN /\ disturbed \in BOOLEAN /\ missed \in BOOLEAN
    \* A target of the guest comes with one of the hypervisor, which it agrees with.
    /\ (pool = None) = (guest = None)
    /\ pool # None => [image |-> pool.image, boot |-> pool.boot] = guest
    /\ os = "flashing" => disk \notin Images

\* The node has just been placed.
Init ==
    /\ node \in Asked
    /\ vol = node.image /\ mvol = vol
    /\ machine = [size |-> node.size, image |-> None, changed |-> FALSE, status |-> "NEW"]
    /\ nres = None /\ vres = None /\ pool = None /\ guest = None
    /\ vm = None /\ disk = None /\ os = "off"
    /\ poolrep = None /\ guestrep = None /\ seen = <<None, None>>
    /\ turn = "pools" /\ events = 0
    /\ data = None /\ other = FALSE /\ disturbed = FALSE /\ missed = FALSE

-----------------------------------------------------------------------------
\* The machine runs what the node asks for and says so.
Delivered ==
    /\ machine.status = "ACTIVE" /\ nres = node /\ vres = node.image
    /\ vm = [image |-> node.image, size |-> node.size, boot |-> "hd0"]
    /\ disk = node.image /\ os = "running"
    /\ guestrep = [image |-> disk, boot |-> "hd0", status |-> "ACTIVE"]

UpdateNode(wish) ==
    /\ events < MaxEvents /\ events' = events + 1
    /\ node # wish
    /\ node' = wish
    /\ other' = (other \/ wish.image # data)
    /\ UNCHANGED <<rows, targets, host, seen, turn, data, disturbed, missed>>

-----------------------------------------------------------------------------
(* The pool builder.                                                        *)

\* Both targets are made of the rows and a choice of what to boot.
Built(m, image, boot) ==
    /\ pool' = [image |-> image, size |-> m.size, boot |-> boot]
    /\ guest' = [image |-> image, boot |-> boot]

\* Mutant of BootToUpdate: every change goes through the boot network.
BootToUpdateAlways(report, image) == "network"

\* A machine whose guest has another image is flashed again.
BootToUpdate(report, image) ==
    IF report # None /\ report.image # image THEN "network" ELSE "hd0"

\* Mutant of BootToCreate: like a machine of the core set.
BootToCreateFromDisk == "hd0"

BootToCreate == "network"

Flashed == guestrep # None /\ guestrep.boot = "network" /\ guestrep.status = "FLASHED"

\* From the boot network on, until the system on the disk has reported.
Installing == pool # None /\ (pool.boot = "network" \/ guestrep = None \/ guestrep.boot = "network")

\* The status follows the reports; a guest that is FLASHED is IN_PROGRESS.
Status ==
    IF poolrep = None \/ guestrep = None THEN machine.status
    ELSE IF guestrep.status = "ACTIVE" THEN "ACTIVE" ELSE "IN_PROGRESS"

Outdated == pool # None /\ seen # <<poolrep, guestrep>>
Switched == Outdated /\ Flashed

\* One iteration: a new machine, or a changed one, and then the reports that
\* came since the last iteration.
BuildMachine ==
    /\ turn = "pools"
    /\ turn' = "nodes"
    /\ LET rebuilt == pool = None \/ machine.changed
           image == IF rebuilt THEN mvol ELSE machine.image
           boot == IF pool = None THEN BootToCreate
                   ELSE IF machine.changed THEN BootToUpdate(guestrep, mvol)
                   ELSE pool.boot
           size == IF rebuilt \/ Switched THEN machine.size ELSE pool.size
       IN  /\ Built([size |-> size], image, IF Switched THEN "hd0" ELSE boot)
           /\ machine' = [machine EXCEPT !.image = image, !.changed = FALSE,
                              !.status = IF Outdated THEN Status ELSE @]
           /\ missed' = (missed \/ (machine.changed /\ (mvol # nres.image \/ pool' = poolrep)))
           /\ disturbed' = (disturbed \/ (machine.changed /\ Installing))
    /\ seen' = <<poolrep, guestrep>>
    /\ UNCHANGED <<node, vol, mvol, nres, vres, host, events, data, other>>

-----------------------------------------------------------------------------
(* The node builder and the volume builder.                                 *)

\* Mutant of NeedsMachine: a new image alone does not touch the machine.
NeedsMachineBySize(old, new) == old.size # new.size

\* A new image of the root disk rebuilds the machine, as a new size does.
NeedsMachine(old, new) == old # new

BuildNode ==
    /\ turn = "nodes"
    /\ turn' = "volumes"
    /\ nres' = node
    /\ IF nres = None
       THEN UNCHANGED <<vol, machine>>
       ELSE /\ vol' = IF nres.image # node.image THEN node.image ELSE vol
            /\ machine' =
                 IF ~NeedsMachine(nres, node) THEN machine
                 ELSE IF nres.image = node.image /\ machine.size = node.size THEN machine
                 ELSE [machine EXCEPT !.size = node.size, !.changed = TRUE,
                                      !.status = "IN_PROGRESS"]
    /\ missed' = (missed \/ (nres = None /\ <<vol, machine.size>> # <<node.image, node.size>>))
    /\ UNCHANGED <<node, mvol, vres, pool, guest, host, seen, events, data, other, disturbed>>

BuildVolume ==
    /\ turn = "volumes"
    /\ turn' = "agent"
    /\ vres' = vol
    /\ mvol' = IF vres # vol THEN vol ELSE mvol
    /\ UNCHANGED <<node, vol, machine, nres, pool, guest, host, seen, events, history>>

-----------------------------------------------------------------------------
(* The pool agent: every change deletes the domain and defines it again;    *)
(* disks stay.                                                              *)

Changed == vm # None /\ vm # pool

AgentIteration ==
    /\ turn = "agent"
    /\ turn' = "pools"
    /\ vm' = pool
    /\ os' = IF vm' = vm THEN os ELSE "off"
    /\ poolrep' = vm'
    /\ UNCHANGED <<node, rows, targets, disk, guestrep, seen, events, history>>

\* The next iteration finds no domain and creates it.
CrashInRecreate ==
    /\ events < MaxEvents /\ events' = events + 1
    /\ turn = "agent" /\ Changed
    /\ turn' = "pools"
    /\ vm' = None /\ os' = "off"
    /\ UNCHANGED <<node, rows, targets, disk, poolrep, guestrep, seen, history>>

Crash ==
    /\ events < MaxEvents /\ events' = events + 1
    /\ turn # "pools" /\ turn' = "pools"
    /\ UNCHANGED <<node, rows, targets, host, seen, history>>

-----------------------------------------------------------------------------
(* The guest: the flashing system of the boot network, and the agent in the *)
(* system on the disk.                                                      *)

\* From the boot network, or when the target changes after the disk is done.
Flash ==
    /\ vm # None /\ vm.boot = "network"
    /\ os = "off" \/ (os = "flashed" /\ guest.image # guestrep.image)
    /\ os' = "flashing"
    /\ disk' = <<guest.image>>
    /\ UNCHANGED <<node, rows, targets, vm, poolrep, guestrep, seen, turn, events, history>>

FlashDone ==
    /\ os = "flashing"
    /\ os' = "flashed"
    /\ disk' = disk[1]
    /\ guestrep' = [image |-> disk[1], boot |-> "network", status |-> "FLASHED"]
    /\ UNCHANGED <<node, rows, targets, vm, poolrep, seen, turn, events, history>>

\* What the node, its rows and its target ask to be on the disk.
OnTheWay == {node.image, vol, mvol, pool.image}

BootDisk ==
    /\ vm # None /\ vm.boot = "hd0" /\ os = "off"
    /\ disk \in Images
    /\ os' = "running"
    /\ guestrep' = [image |-> disk, boot |-> "hd0", status |-> "ACTIVE"]
    /\ data' = disk
    /\ other' = (OnTheWay # {disk})
    /\ UNCHANGED <<node, rows, targets, vm, disk, poolrep, seen, turn, events, disturbed, missed>>

Guest == Flash \/ FlashDone \/ BootDisk

-----------------------------------------------------------------------------
Process == BuildMachine \/ BuildNode \/ BuildVolume \/ AgentIteration

Next ==
    \/ Process \/ Guest
    \/ \E wish \in Asked : UpdateNode(wish)
    \/ Crash \/ CrashInRecreate

Spec == Init /\ [][Next]_vars
\* The services are run for ever; a guest that has something to do does it.
FairSpec == Spec /\ WF_vars(Process) /\ WF_vars(Guest)

-----------------------------------------------------------------------------
\* A machine boots from its disk only when a whole image is on it (builders/
\* pool.py:255, "The new machine and the machine with changed image should be
\* booted in the private network").
BootsWhatIsThere == vm # None /\ vm.boot = "hd0" => disk \in Images

\* The builder keeps to that in every run of a machine in which no change
\* reaches it while the machine is being installed.
InstalledThenBooted == ~disturbed => BootsWhatIsThere

\* A disk that a system has run from is flashed again only when another image
\* was asked for since it started, or was on its way then: a resize, a crash
\* in the middle of one or a late report never wipe it.
DataIsKept == [][data # None /\ disk' # disk => other]_vars

\* When the user and the crashes stop, the machine runs the image and the size
\* asked for, from its disk, and is ACTIVE; but for a machine that was rebuilt
\* between the node builder and the volume builder, after a crash, and for one
\* that was changed while it was installed.
MachineSettles == <>[](missed \/ disturbed \/ Delivered)
=============================================================================
