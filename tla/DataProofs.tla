----------------------------- MODULE DataProofs -----------------------------
(***************************************************************************)
(* What users rely on is kept, for any number of rows, hypervisors, images *)
(* and values and for every sequence of requests and crashes: the disk of  *)
(* a volume (Volumes), a secret that was generated (Secrets), the system   *)
(* on the disk of a machine (MachineLife).                                 *)
(*                                                                         *)
(* Each is lost by a row that lags behind another one, so each invariant   *)
(* says what a lagging row may still hold.                                 *)
(***************************************************************************)
EXTENDS Services, TLAPS

-----------------------------------------------------------------------------
(* The disk of a volume goes when its target goes, the target goes when    *)
(* the machine volume does: the three are behind the row of the volume in  *)
(* this order, and they never name different hypervisors.                  *)

\* What follows a volume is there before what follows it in turn.
OrderInv ==
    \A v \in Vols : volume[v] # None =>
        /\ pv[v] # None \/ disks[v] # None => machineVolume[v] # None
        /\ disks[v] # None => pv[v] # None

\* A volume stays on the hypervisor it was given.
PoolsAgree ==
    \A v \in Vols :
        /\ machineVolume[v] # None /\ pv[v] # None => machineVolume[v].pool = pv[v].pool
        /\ machineVolume[v] # None /\ disks[v] # None => machineVolume[v].pool = disks[v].pool
        /\ pv[v] # None /\ disks[v] # None => pv[v].pool = disks[v].pool

\* TypeOK without its last part.
RowTypes ==
    /\ placement \in [Nodes -> {"absent", "new", "placed", "gone"}] /\ home \in [Nodes -> Pools]
    /\ volume \in Volumes!Rows(Volumes!Volume) /\ machineVolume \in Volumes!Rows(Volumes!MachineVolume)
    /\ touched \subseteq Vols /\ early \subseteq Vols
    /\ volumeTarget \in Volumes!Rows(Volumes!Volume) /\ pv \in Volumes!Rows(Volumes!MachineVolume) /\ pm \subseteq Nodes
    /\ dom \subseteq Nodes /\ disks \in Volumes!Rows(Volumes!Disk)
    /\ vTurn \in {"schedule", "pools", "volumes", "agent", "machines"}
    /\ vEvents \in 0 .. MaxVolumeEvents

\* A disk is attached to a domain of its own hypervisor.
AttachedInv ==
    \A v \in Vols : disks[v] # None /\ disks[v].on # None =>
        disks[v].on \in dom /\ home[disks[v].on] = disks[v].pool

VolumesInv == RowTypes /\ AttachedInv /\ OrderInv /\ PoolsAgree

LEMMA VolumeTypesInParts == Volumes!TypeOK <=> RowTypes /\ AttachedInv
BY DEF Volumes!TypeOK, RowTypes, AttachedInv

LEMMA TickTypes ==
    ASSUME Volumes!VolumesAssumption, vEvents \in 0 .. MaxVolumeEvents, Volumes!Tick
    PROVE  vEvents' \in 0 .. MaxVolumeEvents
BY DEF Volumes!VolumesAssumption, Volumes!Tick

LEMMA InitVolumesInv == Volumes!VolumesAssumption /\ Volumes!Init => VolumesInv
<1>. SUFFICES ASSUME Volumes!VolumesAssumption, Volumes!Init PROVE VolumesInv
  OBVIOUS
<1>0. volume = Volumes!Nothing /\ machineVolume = Volumes!Nothing /\ pv = Volumes!Nothing /\ disks = Volumes!Nothing
  BY DEF Volumes!Init
<1>1. \A v \in Vols : volume[v] = None /\ machineVolume[v] = None /\ pv[v] = None /\ disks[v] = None
  <2>1. \A v \in Vols : Volumes!Nothing[v] = None
    BY DEF Volumes!Nothing
  <2>. QED
    BY <1>0, <2>1, Zenon
<1>2. RowTypes
  BY DEF Volumes!Init, RowTypes, Volumes!Nothing, Volumes!Rows, Volumes!VolumesAssumption
<1>. QED
  BY <1>1, <1>2 DEF VolumesInv, AttachedInv, OrderInv, PoolsAgree

-----------------------------------------------------------------------------
(* One lemma for each table that a step writes.                            *)

\* A step of the users that touches one volume row.
LEMMA VolumeRow ==
    ASSUME Volumes!VolumesAssumption, VolumesInv, Volumes!Tick, NEW v \in Vols, NEW new \in Volumes!Volume,
           volume' = [volume EXCEPT ![v] = new],
           volume[v] # None \/ (machineVolume[v] = None /\ pv[v] = None /\ disks[v] = None),
           UNCHANGED <<placement, home, machineVolume, touched, Volumes!targets, Volumes!host, vTurn, early>>
    PROVE  VolumesInv'
<1>. USE DEF Volumes!targets, Volumes!host
<1>1. RowTypes'
  BY TickTypes DEF VolumesInv, RowTypes, Volumes!Rows
<1>2. AttachedInv'
  BY DEF VolumesInv, AttachedInv
<1>3. OrderInv'
  BY DEF VolumesInv, OrderInv, RowTypes, Volumes!Rows
<1>4. PoolsAgree'
  BY DEF VolumesInv, PoolsAgree
<1>. QED
  BY <1>1, <1>2, <1>3, <1>4 DEF VolumesInv

LEMMA UserVolumes ==
    ASSUME Volumes!VolumesAssumption, VolumesInv, NEW v \in Vols,
           \/ \E n \in Volumes!Owner : Volumes!CreateVolume(v, n)
           \/ \E n \in Nodes : Volumes!Attach(v, n)
           \/ \E size \in Volumes!Sizes : Volumes!Resize(v, size)
           \/ Volumes!Detach(v)
    PROVE  VolumesInv'
<1>0. volume[v] # None => volume[v] \in Volumes!Volume
  BY DEF VolumesInv, RowTypes, Volumes!Rows
<1>1. ASSUME NEW n \in Volumes!Owner, Volumes!CreateVolume(v, n) PROVE VolumesInv'
  <2>1. [node |-> n, size |-> 1] \in Volumes!Volume
    BY DEF Volumes!Volume, Volumes!Sizes, Volumes!VolumesAssumption
  <2>. QED
    BY <1>1, <2>1, VolumeRow DEF Volumes!CreateVolume
<1>2. ASSUME NEW n \in Nodes, Volumes!Attach(v, n) PROVE VolumesInv'
  <2>1. [volume[v] EXCEPT !.node = n] \in Volumes!Volume
    BY <1>0, <1>2 DEF Volumes!Volume, Volumes!Owner, Volumes!Attach
  <2>. QED
    BY <1>2, <2>1, VolumeRow DEF Volumes!Attach, Volumes!Change
<1>3. ASSUME NEW size \in Volumes!Sizes, Volumes!Resize(v, size) PROVE VolumesInv'
  <2>1. [volume[v] EXCEPT !.size = size] \in Volumes!Volume
    BY <1>0, <1>3 DEF Volumes!Volume, Volumes!Resize
  <2>. QED
    BY <1>3, <2>1, VolumeRow DEF Volumes!Resize, Volumes!Change
<1>4. ASSUME Volumes!Detach(v) PROVE VolumesInv'
  <2>1. [volume[v] EXCEPT !.node = None] \in Volumes!Volume
    BY <1>0, <1>4 DEF Volumes!Volume, Volumes!Owner, Volumes!Detach
  <2>. QED
    BY <1>4, <2>1, VolumeRow DEF Volumes!Detach, Volumes!Change
<1>. QED
  BY <1>1, <1>2, <1>3, <1>4

\* Rows of volumes and machine volumes go together, or a machine volume loses
\* its machine.
LEMMA RowsGo ==
    ASSUME Volumes!VolumesAssumption, VolumesInv, Volumes!Tick,
           placement' \in [Nodes -> {"absent", "new", "placed", "gone"}],
           volume' \in [Vols -> Volumes!Volume \union {None}],
           machineVolume' \in [Vols -> Volumes!MachineVolume \union {None}],
           \A v \in Vols : \/ volume'[v] = None /\ machineVolume'[v] = None
                           \/ /\ volume'[v] = volume[v]
                              /\ machineVolume'[v] = None <=> machineVolume[v] = None
                              /\ machineVolume[v] # None => machineVolume'[v].pool = machineVolume[v].pool,
           UNCHANGED <<home, touched, Volumes!targets, Volumes!host, vTurn, early>>
    PROVE  VolumesInv'
<1>. USE DEF Volumes!targets, Volumes!host
<1>1. RowTypes'
  BY TickTypes DEF VolumesInv, RowTypes, Volumes!Rows
<1>2. AttachedInv'
  BY DEF VolumesInv, AttachedInv
<1>3. OrderInv'
  BY DEF VolumesInv, OrderInv
<1>4. PoolsAgree'
  BY DEF VolumesInv, PoolsAgree
<1>. QED
  BY <1>1, <1>2, <1>3, <1>4 DEF VolumesInv

LEMMA UserDeletes ==
    ASSUME Volumes!VolumesAssumption, VolumesInv,
           (\E v \in Vols : Volumes!DeleteVolume(v)) \/ (\E n \in Nodes : Volumes!DeleteNode(n))
    PROVE  VolumesInv'
<1>0. /\ volume \in [Vols -> Volumes!Volume \union {None}]
      /\ machineVolume \in [Vols -> Volumes!MachineVolume \union {None}]
      /\ placement \in [Nodes -> {"absent", "new", "placed", "gone"}]
  BY DEF VolumesInv, RowTypes, Volumes!Rows
<1>1. ASSUME NEW v \in Vols, Volumes!DeleteVolume(v) PROVE VolumesInv'
  <2>1. /\ volume' \in [Vols -> Volumes!Volume \union {None}]
        /\ machineVolume' \in [Vols -> Volumes!MachineVolume \union {None}]
    BY <1>0, <1>1 DEF Volumes!DeleteVolume
  <2>. QED
    BY <1>0, <1>1, <2>1, RowsGo DEF Volumes!DeleteVolume
<1>2. ASSUME NEW n \in Nodes, Volumes!DeleteNode(n) PROVE VolumesInv'
  <2>. DEFINE left(newRow) == IF newRow # None /\ newRow.machine = n THEN [newRow EXCEPT !.machine = None] ELSE newRow
  <2>1. ASSUME NEW v \in Vols
        PROVE  /\ left(machineVolume[v]) \in Volumes!MachineVolume \union {None}
               /\ left(machineVolume[v]) = None <=> machineVolume[v] = None
               /\ machineVolume[v] # None => left(machineVolume[v]).pool = machineVolume[v].pool
    <3>1. CASE machineVolume[v] = None
      BY <3>1
    <3>2. CASE machineVolume[v] # None
      <4>1. machineVolume[v] \in Volumes!MachineVolume
        BY <1>0, <3>2
      <4>2. /\ [machineVolume[v] EXCEPT !.machine = None] \in Volumes!MachineVolume
            /\ [machineVolume[v] EXCEPT !.machine = None].pool = machineVolume[v].pool
        BY <4>1 DEF Volumes!MachineVolume, Volumes!Owner
      <4>. QED
        BY <3>2, <4>1, <4>2 DEF Volumes!VolumesAssumption
    <3>. QED
      BY <3>1, <3>2
  <2>2. \A v \in Vols : \/ volume'[v] = None /\ machineVolume'[v] = None
                        \/ volume'[v] = volume[v] /\ machineVolume'[v] = left(machineVolume[v])
    BY <1>2 DEF Volumes!DeleteNode
  <2>3. volume' \in [Vols -> Volumes!Volume \union {None}]
    BY <1>0, <1>2 DEF Volumes!DeleteNode
  <2>4. machineVolume' \in [Vols -> Volumes!MachineVolume \union {None}]
    <3>1. machineVolume' = [v \in Vols |-> machineVolume'[v]]
      BY <1>2 DEF Volumes!DeleteNode
    <3>. HIDE DEF left
    <3>. QED
      BY <2>1, <2>2, <3>1
  <2>5. placement' \in [Nodes -> {"absent", "new", "placed", "gone"}]
    BY <1>0, <1>2 DEF Volumes!DeleteNode
  <2>6. Volumes!Tick /\ UNCHANGED <<home, touched, Volumes!targets, Volumes!host, vTurn, early>>
    BY <1>2 DEF Volumes!DeleteNode
  <2>7. \A v \in Vols : \/ volume'[v] = None /\ machineVolume'[v] = None
                        \/ /\ volume'[v] = volume[v]
                           /\ machineVolume'[v] = None <=> machineVolume[v] = None
                           /\ machineVolume[v] # None => machineVolume'[v].pool = machineVolume[v].pool
    <3>. HIDE DEF left
    <3>. QED
      BY <2>1, <2>2
  <2>. HIDE DEF left
  <2>. QED
    BY <2>3, <2>4, <2>5, <2>6, <2>7, RowsGo
<1>. QED
  BY <1>1, <1>2

-----------------------------------------------------------------------------
(* The services.                                                           *)

LEMMA ScheduleKeeps == Volumes!VolumesAssumption /\ VolumesInv /\ Volumes!Schedule => VolumesInv'
<1>. SUFFICES ASSUME Volumes!VolumesAssumption, VolumesInv, Volumes!Schedule PROVE VolumesInv'
  OBVIOUS
<1>. USE DEF Volumes!targets, Volumes!host
<1>. DEFINE has(v) == /\ Volumes!Unscheduled(v)
                      /\ volume[v].node \in Volumes!NewNodes \/ placement[volume[v].node] = "placed"
            newRow(v) == [size |-> volume[v].size, pool |-> home[volume[v].node],
                          machine |-> IF volume[v].node \in Volumes!NewNodes THEN volume[v].node ELSE None]
<1>0. UNCHANGED <<home, volume, Volumes!targets, Volumes!host, vEvents, early>> /\ vTurn' = "pools"
  BY DEF Volumes!Schedule
<1>1. ASSUME NEW v \in Vols, has(v) PROVE newRow(v) \in Volumes!MachineVolume
  <2>1. volume[v] \in Volumes!Volume /\ volume[v].node \in Nodes
    BY <1>1 DEF VolumesInv, RowTypes, Volumes!Rows, Volumes!Unscheduled, Volumes!Volume, Volumes!Owner
  <2>2. home[volume[v].node] \in Pools /\ volume[v].size \in Volumes!Sizes
    BY <2>1 DEF VolumesInv, RowTypes, Volumes!Volume
  <2>. QED
    BY <2>1, <2>2 DEF Volumes!MachineVolume, Volumes!Owner
<1>2. CASE Volumes!Aborts
  <2>1. UNCHANGED <<placement, machineVolume, touched>>
    BY <1>2 DEF Volumes!Schedule
  <2>. QED
    BY <1>0, <2>1 DEF VolumesInv, RowTypes, AttachedInv, OrderInv, PoolsAgree
<1>3. CASE ~Volumes!Aborts
  <2>1. /\ placement' = [n \in Nodes |-> IF n \in Volumes!NewNodes THEN "placed" ELSE placement[n]]
        /\ machineVolume' = [v \in Vols |-> IF has(v) THEN newRow(v) ELSE machineVolume[v]]
        /\ touched' = touched \union {v \in Vols : has(v)}
    BY <1>3 DEF Volumes!Schedule
  <2>2. \A v \in Vols : has(v) => volume[v] # None /\ machineVolume[v] = None
    BY DEF Volumes!Unscheduled
  <2>. HIDE DEF has, newRow
  <2>3. machineVolume' \in Volumes!Rows(Volumes!MachineVolume)
    BY <1>1, <2>1 DEF VolumesInv, RowTypes, Volumes!Rows
  <2>4. RowTypes'
    BY <1>0, <2>1, <2>3 DEF VolumesInv, RowTypes
  <2>5. AttachedInv'
    BY <1>0 DEF VolumesInv, AttachedInv
  <2>6. OrderInv'
    <3>. SUFFICES ASSUME NEW v \in Vols, volume[v] # None
                  PROVE  /\ pv[v] # None \/ disks[v] # None => machineVolume'[v] # None
                         /\ disks[v] # None => pv[v] # None
      BY <1>0 DEF OrderInv
    <3>1. CASE has(v)
      BY <2>2, <3>1 DEF VolumesInv, OrderInv
    <3>2. CASE ~has(v)
      BY <2>1, <3>2 DEF VolumesInv, OrderInv
    <3>. QED
      BY <3>1, <3>2
  <2>7. PoolsAgree'
    <3>. SUFFICES ASSUME NEW v \in Vols
                  PROVE  /\ machineVolume'[v] # None /\ pv[v] # None => machineVolume'[v].pool = pv[v].pool
                         /\ machineVolume'[v] # None /\ disks[v] # None => machineVolume'[v].pool = disks[v].pool
                         /\ pv[v] # None /\ disks[v] # None => pv[v].pool = disks[v].pool
      BY <1>0 DEF PoolsAgree
    <3>1. CASE has(v)
      BY <2>2, <3>1 DEF VolumesInv, OrderInv
    <3>2. CASE ~has(v)
      BY <2>1, <3>2 DEF VolumesInv, PoolsAgree
    <3>. QED
      BY <3>1, <3>2
  <2>. QED
    BY <2>4, <2>5, <2>6, <2>7 DEF VolumesInv
<1>. QED
  BY <1>2, <1>3

LEMMA BuildPoolsKeeps == Volumes!VolumesAssumption /\ VolumesInv /\ Volumes!BuildPools => VolumesInv'
<1>. SUFFICES ASSUME Volumes!VolumesAssumption, VolumesInv, Volumes!BuildPools PROVE VolumesInv'
  OBVIOUS
<1>. USE DEF Volumes!users, Volumes!host
<1>1. /\ pv' = [v \in Vols |-> IF machineVolume[v] = None THEN None
                               ELSE IF pv[v] = None \/ v \in touched THEN machineVolume[v] ELSE pv[v]]
      /\ touched' = {} /\ vTurn' = "volumes"
      /\ pm' = {n \in Nodes : placement[n] = "placed"}
      /\ UNCHANGED <<placement, home, volume, machineVolume, volumeTarget, dom, disks, vEvents, early>>
  BY DEF Volumes!BuildPools
<1>2. \A v \in Vols : \/ machineVolume[v] = None /\ pv'[v] = None
                      \/ machineVolume[v] # None /\ pv'[v] = machineVolume[v]
                      \/ machineVolume[v] # None /\ pv[v] # None /\ pv'[v] = pv[v]
  BY <1>1
<1>3. RowTypes'
  <2>1. pv' \in Volumes!Rows(Volumes!MachineVolume)
    BY <1>1 DEF VolumesInv, RowTypes, Volumes!Rows
  <2>. QED
    BY <1>1, <2>1 DEF VolumesInv, RowTypes
<1>4. AttachedInv'
  BY <1>1 DEF VolumesInv, AttachedInv
<1>5. OrderInv'
  BY <1>1, <1>2 DEF VolumesInv, OrderInv
<1>6. PoolsAgree'
  BY <1>1, <1>2 DEF VolumesInv, PoolsAgree
<1>. QED
  BY <1>3, <1>4, <1>5, <1>6 DEF VolumesInv

LEMMA BuildVolumesKeeps == Volumes!VolumesAssumption /\ VolumesInv /\ Volumes!BuildVolumes => VolumesInv'
<1>. SUFFICES ASSUME Volumes!VolumesAssumption, VolumesInv, Volumes!BuildVolumes PROVE VolumesInv'
  OBVIOUS
<1>. USE DEF Volumes!users, Volumes!host
<1>. DEFINE follows == {v \in Vols : volume[v] # None /\ (volumeTarget[v] # None \/ pv[v] # None)}
            toWrite == {v \in follows : machineVolume[v] # None /\ Volumes!Carried(v)}
            unplaced == {v \in toWrite : volume[v].node # None /\ Volumes!MachineOf(volume[v].node) = None}
            new(v) == [machineVolume[v] EXCEPT !.size = volume[v].size, !.machine = Volumes!MachineOf(volume[v].node)]
<1>0. /\ vTurn' = "agent"
      /\ UNCHANGED <<placement, home, volume, pv, pm, dom, disks, vEvents>>
  <2>1. vTurn' = "agent" /\ UNCHANGED <<<<placement, home, volume>>, pv, pm, <<dom, disks>>, vEvents>>
    BY Zenon DEF Volumes!BuildVolumes
  <2>. QED
    BY <2>1
<1>1. /\ volumeTarget' = [v \in Vols |-> IF v \in follows THEN volume[v] ELSE None]
      /\ machineVolume' = [v \in Vols |-> IF v \in toWrite THEN new(v) ELSE machineVolume[v]]
      /\ touched' = touched \union toWrite
      /\ early' = (early \ toWrite) \union unplaced
  BY Zenon DEF Volumes!BuildVolumes
<1>2. ASSUME NEW v \in toWrite
      PROVE  /\ machineVolume[v] # None /\ new(v) # None
             /\ new(v) \in Volumes!MachineVolume /\ new(v).pool = machineVolume[v].pool
  <2>1. machineVolume[v] \in Volumes!MachineVolume /\ volume[v] \in Volumes!Volume /\ machineVolume[v] # None
    BY DEF VolumesInv, RowTypes, Volumes!Rows
  <2>2. volume[v].size \in Volumes!Sizes /\ Volumes!MachineOf(volume[v].node) \in Volumes!Owner
    BY <2>1 DEF Volumes!Volume, Volumes!MachineOf, Volumes!Owner
  <2>3. new(v) \in Volumes!MachineVolume /\ new(v).pool = machineVolume[v].pool
    BY <2>1, <2>2 DEF Volumes!MachineVolume
  <2>. QED
    BY <2>1, <2>3 DEF Volumes!VolumesAssumption
<1>3. toWrite \subseteq Vols /\ unplaced \subseteq Vols
  OBVIOUS
<1>. HIDE DEF follows, toWrite, unplaced, new
<1>4. volumeTarget' \in Volumes!Rows(Volumes!Volume)
  BY <1>1 DEF VolumesInv, RowTypes, Volumes!Rows
<1>5. \A v \in Vols : /\ machineVolume'[v] = None <=> machineVolume[v] = None
                      /\ machineVolume[v] # None => machineVolume'[v].pool = machineVolume[v].pool
  BY <1>1, <1>2
<1>6. machineVolume' \in Volumes!Rows(Volumes!MachineVolume)
  BY <1>1, <1>2 DEF VolumesInv, RowTypes, Volumes!Rows
<1>7. RowTypes'
  BY <1>0, <1>1, <1>3, <1>4, <1>6 DEF VolumesInv, RowTypes
<1>8. AttachedInv'
  BY <1>0, <1>1 DEF VolumesInv, AttachedInv
<1>9. OrderInv'
  BY <1>0, <1>1, <1>5 DEF VolumesInv, OrderInv
<1>10. PoolsAgree'
  BY <1>0, <1>1, <1>5 DEF VolumesInv, PoolsAgree
<1>. QED
  BY <1>7, <1>8, <1>9, <1>10 DEF VolumesInv

-----------------------------------------------------------------------------
(* The agent.                                                              *)

LEMMA DiskForTypes ==
    ASSUME Volumes!VolumesAssumption, VolumesInv, NEW v \in Vols, pv[v] # None
    PROVE  /\ Volumes!DiskFor(v) \in Volumes!Disk
           /\ Volumes!DiskFor(v).on \in Volumes!Owner
           /\ Volumes!DiskFor(v).pool = pv[v].pool
           /\ Volumes!DiskFor(v).on # None => Volumes!DiskFor(v).on \in dom /\ home[Volumes!DiskFor(v).on] = Volumes!DiskFor(v).pool
<1>1. /\ pv[v] \in Volumes!MachineVolume
      /\ disks[v] # None => disks[v] \in Volumes!Disk /\ disks[v].pool = pv[v].pool
      /\ dom \subseteq Nodes
  BY DEF VolumesInv, RowTypes, Volumes!Rows, PoolsAgree
<1>2. /\ Volumes!Reachable(v) \in Volumes!Owner
      /\ Volumes!Reachable(v) # None => Volumes!Reachable(v) \in dom /\ home[Volumes!Reachable(v)] = pv[v].pool
  BY <1>1 DEF Volumes!Reachable, Volumes!Owner
<1>3. CASE disks[v] = None
  <2>1. Volumes!DiskFor(v) = [size |-> pv[v].size, pool |-> pv[v].pool, on |-> Volumes!Reachable(v)]
    BY <1>3 DEF Volumes!DiskFor
  <2>. HIDE DEF Volumes!Reachable
  <2>. QED
    BY <1>1, <1>2, <2>1 DEF Volumes!Disk, Volumes!MachineVolume
<1>4. CASE disks[v] # None /\ Volumes!Shrinks(v)
  <2>1. Volumes!DiskFor(v) = disks[v]
    BY <1>4 DEF Volumes!DiskFor
  <2>2. disks[v].on \in Volumes!Owner
    BY <1>1, <1>4 DEF Volumes!Disk
  <2>3. disks[v].on # None => disks[v].on \in dom /\ home[disks[v].on] = disks[v].pool
    BY <1>4 DEF VolumesInv, AttachedInv
  <2>. QED
    BY <1>1, <1>4, <2>1, <2>2, <2>3
<1>5. CASE disks[v] # None /\ ~Volumes!Shrinks(v)
  <2>1. Volumes!DiskFor(v) = [disks[v] EXCEPT !.size = pv[v].size, !.on = Volumes!Reachable(v)]
    BY <1>5 DEF Volumes!DiskFor
  <2>. QED
    BY <1>1, <1>2, <1>5, <2>1 DEF Volumes!Disk, Volumes!MachineVolume
<1>. QED
  BY <1>3, <1>4, <1>5

LEMMA AgentVolumesKeeps == Volumes!VolumesAssumption /\ VolumesInv /\ Volumes!AgentVolumes => VolumesInv'
<1>. SUFFICES ASSUME Volumes!VolumesAssumption, VolumesInv, Volumes!AgentVolumes PROVE VolumesInv'
  OBVIOUS
<1>. USE DEF Volumes!users, Volumes!targets
<1>1. /\ disks' = [v \in Vols |-> IF pv[v] = None THEN None ELSE Volumes!DiskFor(v)]
      /\ vTurn' = "machines"
      /\ UNCHANGED <<placement, home, volume, machineVolume, touched, volumeTarget, pv, pm, dom, vEvents, early>>
  BY DEF Volumes!AgentVolumes
<1>2. ASSUME NEW v \in Vols
      PROVE  \/ pv[v] = None /\ disks'[v] = None
             \/ pv[v] # None /\ disks'[v] = Volumes!DiskFor(v) /\ disks'[v] # None
  BY <1>1, DiskForTypes DEF Volumes!VolumesAssumption
<1>3. RowTypes'
  <2>1. disks' \in Volumes!Rows(Volumes!Disk)
    BY <1>1, DiskForTypes DEF Volumes!Rows
  <2>. QED
    BY <1>1, <2>1 DEF VolumesInv, RowTypes
<1>4. AttachedInv'
  BY <1>1, <1>2, DiskForTypes DEF AttachedInv
<1>5. OrderInv'
  BY <1>1, <1>2 DEF VolumesInv, OrderInv
<1>6. PoolsAgree'
  BY <1>1, <1>2, DiskForTypes DEF VolumesInv, PoolsAgree
<1>. QED
  BY <1>3, <1>4, <1>5, <1>6 DEF VolumesInv

\* Disks change only the domain they are attached to, one of those given.
Moves(doms) ==
    /\ disks' = [v \in Vols |-> disks'[v]]
    /\ \A v \in Vols : disks[v] = None => disks'[v] = None
    /\ \A v \in Vols : disks[v] # None =>
           /\ disks'[v] \in Volumes!Disk /\ disks'[v].pool = disks[v].pool
           /\ disks'[v].on # None => disks'[v].on \in doms /\ home[disks'[v].on] = disks[v].pool

LEMMA DisksMove ==
    ASSUME Volumes!VolumesAssumption, VolumesInv,
           dom' \subseteq Nodes, Moves(dom'),
           vTurn' = "schedule", vEvents' \in 0 .. MaxVolumeEvents,
           UNCHANGED <<placement, home, volume, machineVolume, touched, volumeTarget, pv, pm, early>>
    PROVE  VolumesInv'
<1>1. disks' \in Volumes!Rows(Volumes!Disk)
  BY DEF Moves, Volumes!Rows
<1>2. RowTypes'
  BY <1>1 DEF VolumesInv, RowTypes
<1>3. \A v \in Vols : disks'[v] # None => disks[v] # None /\ disks'[v].pool = disks[v].pool
  BY DEF Moves
<1>4. AttachedInv'
  BY DEF Moves, AttachedInv
<1>5. OrderInv'
  BY <1>3 DEF VolumesInv, OrderInv
<1>6. PoolsAgree'
  BY <1>3 DEF VolumesInv, PoolsAgree
<1>. QED
  BY <1>2, <1>4, <1>5, <1>6 DEF VolumesInv

\* A disk that comes loose, or is attached to a domain of its hypervisor.
LEMMA OneDisk ==
    ASSUME Volumes!VolumesAssumption, NEW d \in Volumes!Disk, NEW o \in Volumes!Owner
    PROVE  /\ [d EXCEPT !.on = o] \in Volumes!Disk
           /\ [d EXCEPT !.on = o].pool = d.pool
           /\ [d EXCEPT !.on = o].on = o
BY DEF Volumes!Disk

LEMMA MachineDisks ==
    ASSUME Volumes!VolumesAssumption, VolumesInv, Volumes!AgentMachines
    PROVE  Moves(pm)
<1>. DEFINE loose(v) == Volumes!Without(disks[v], dom \ pm)
            named(v) == /\ loose(v) # None /\ pv[v] # None /\ pv[v].machine \in pm \ dom
                        /\ home[pv[v].machine] = loose(v).pool
<1>2. disks' = [v \in Vols |-> IF named(v) THEN [loose(v) EXCEPT !.on = pv[v].machine] ELSE loose(v)]
  BY Zenon DEF Volumes!AgentMachines
<1>3. pm \subseteq Nodes /\ disks \in [Vols -> Volumes!Disk \union {None}]
  BY DEF VolumesInv, RowTypes, Volumes!Rows
<1>4. ASSUME NEW v \in Vols, disks[v] = None PROVE disks'[v] = None
  BY <1>2, <1>4 DEF Volumes!Without
<1>5. ASSUME NEW v \in Vols, disks[v] # None
      PROVE  /\ disks'[v] \in Volumes!Disk /\ disks'[v].pool = disks[v].pool
             /\ disks'[v].on # None => disks'[v].on \in pm /\ home[disks'[v].on] = disks[v].pool
  <2>1. disks[v] \in Volumes!Disk
    BY <1>3, <1>5
  <2>2. /\ loose(v) \in Volumes!Disk /\ loose(v).pool = disks[v].pool
        /\ loose(v).on # None => loose(v).on = disks[v].on /\ disks[v].on \notin dom \ pm
    <3>1. CASE disks[v].on \in dom \ pm
      <4>1. loose(v) = [disks[v] EXCEPT !.on = None]
        BY <1>5, <3>1 DEF Volumes!Without
      <4>2. None \in Volumes!Owner
        BY DEF Volumes!Owner
      <4>. HIDE DEF loose
      <4>. QED
        BY <2>1, <4>1, <4>2, OneDisk
    <3>2. CASE disks[v].on \notin dom \ pm
      BY <2>1, <3>2 DEF Volumes!Without
    <3>. QED
      BY <3>1, <3>2
  <2>3. loose(v).on # None => loose(v).on \in pm /\ home[loose(v).on] = disks[v].pool
    <3>1. disks[v].on # None => disks[v].on \in dom /\ home[disks[v].on] = disks[v].pool
      BY <1>5 DEF VolumesInv, AttachedInv
    <3>. HIDE DEF loose
    <3>. QED
      BY <2>2, <3>1
  <2>. HIDE DEF loose
  <2>4. CASE named(v)
    <3>1. /\ pv[v].machine \in pm /\ pv[v].machine \in Volumes!Owner
          /\ home[pv[v].machine] = disks[v].pool
      BY <1>3, <2>2, <2>4 DEF Volumes!Owner
    <3>2. disks'[v] = [loose(v) EXCEPT !.on = pv[v].machine]
      BY <1>2, <2>4
    <3>. HIDE DEF named
    <3>. QED
      BY <2>2, <3>1, <3>2, OneDisk
  <2>5. CASE ~named(v)
    <3>1. disks'[v] = loose(v)
      BY <1>2, <2>5
    <3>. QED
      BY <2>2, <2>3, <3>1
  <2>. QED
    BY <2>4, <2>5
<1>6. disks' = [v \in Vols |-> disks'[v]]
  BY <1>2
<1>. HIDE DEF loose, named
<1>. QED
  BY <1>4, <1>5, <1>6 DEF Moves

LEMMA AgentMachinesKeeps == Volumes!VolumesAssumption /\ VolumesInv /\ Volumes!AgentMachines => VolumesInv'
<1>. SUFFICES ASSUME Volumes!VolumesAssumption, VolumesInv, Volumes!AgentMachines PROVE VolumesInv'
  OBVIOUS
<1>. USE DEF Volumes!users, Volumes!targets
<1>1. vTurn' = "schedule" /\ dom' = pm
      /\ UNCHANGED <<placement, home, volume, machineVolume, touched, volumeTarget, pv, pm, vEvents, early>>
  BY DEF Volumes!AgentMachines
<1>2. pm \subseteq Nodes /\ vEvents \in 0 .. MaxVolumeEvents
  BY DEF VolumesInv, RowTypes
<1>. QED
  BY <1>1, <1>2, MachineDisks, DisksMove

LEMMA RecreateDisks ==
    ASSUME Volumes!VolumesAssumption, VolumesInv, NEW n \in Nodes, Volumes!CrashInRecreate(n)
    PROVE  Moves(dom')
<1>1. /\ dom' = dom \ {n}
      /\ disks' = [v \in Vols |->
              IF disks[v] # None /\ disks[v].on = n THEN [disks[v] EXCEPT !.on = None] ELSE disks[v]]
  BY DEF Volumes!CrashInRecreate
<1>2. disks \in [Vols -> Volumes!Disk \union {None}]
  BY DEF VolumesInv, RowTypes, Volumes!Rows
<1>3. ASSUME NEW v \in Vols, disks[v] # None
      PROVE  /\ disks'[v] \in Volumes!Disk /\ disks'[v].pool = disks[v].pool
             /\ disks'[v].on # None => disks'[v].on \in dom' /\ home[disks'[v].on] = disks[v].pool
  <2>1. disks[v] \in Volumes!Disk /\ None \in Volumes!Owner
    BY <1>2, <1>3 DEF Volumes!Owner
  <2>2. CASE disks[v].on = n
    <3>1. disks'[v] = [disks[v] EXCEPT !.on = None]
      BY <1>1, <1>3, <2>2
    <3>. QED
      BY <2>1, <3>1, OneDisk
  <2>3. CASE disks[v].on # n
    <3>1. disks'[v] = disks[v]
      BY <1>1, <2>3
    <3>2. disks[v].on # None => disks[v].on \in dom /\ home[disks[v].on] = disks[v].pool
      BY <1>3 DEF VolumesInv, AttachedInv
    <3>. QED
      BY <1>1, <2>1, <2>3, <3>1, <3>2
  <2>. QED
    BY <2>2, <2>3
<1>4. \A v \in Vols : disks[v] = None => disks'[v] = None
  BY <1>1
<1>5. disks' = [v \in Vols |-> disks'[v]]
  BY <1>1
<1>. QED
  BY <1>3, <1>4, <1>5 DEF Moves

LEMMA CrashesKeep ==
    ASSUME Volumes!VolumesAssumption, VolumesInv, Volumes!Crash \/ \E n \in Nodes : Volumes!CrashInRecreate(n)
    PROVE  VolumesInv'
<1>. USE DEF Volumes!users, Volumes!targets, Volumes!host
<1>0. vEvents' \in 0 .. MaxVolumeEvents
  <2>1. Volumes!Tick
    BY DEF Volumes!Crash, Volumes!CrashInRecreate
  <2>. QED
    BY <2>1, TickTypes DEF VolumesInv, RowTypes
<1>1. CASE Volumes!Crash
  BY <1>0, <1>1 DEF Volumes!Crash, VolumesInv, RowTypes, AttachedInv, OrderInv, PoolsAgree
<1>2. ASSUME NEW n \in Nodes, Volumes!CrashInRecreate(n) PROVE VolumesInv'
  <2>1. /\ vTurn' = "schedule" /\ dom' = dom \ {n}
        /\ UNCHANGED <<placement, home, volume, machineVolume, touched, volumeTarget, pv, pm, early>>
    BY <1>2 DEF Volumes!CrashInRecreate
  <2>2. dom' \subseteq Nodes
    BY <2>1 DEF VolumesInv, RowTypes
  <2>. QED
    BY <1>0, <1>2, <2>1, <2>2, RecreateDisks, DisksMove
<1>. QED
  BY <1>1, <1>2

-----------------------------------------------------------------------------
(* The theorems.                                                           *)

LEMMA VolumesInvKept == Volumes!VolumesAssumption /\ VolumesInv /\ [Volumes!Next]_Volumes!vars => VolumesInv'
<1>. SUFFICES ASSUME Volumes!VolumesAssumption, VolumesInv, [Volumes!Next]_Volumes!vars PROVE VolumesInv'
  OBVIOUS
<1>1. CASE Volumes!Process
  BY <1>1, ScheduleKeeps, BuildPoolsKeeps, BuildVolumesKeeps, AgentVolumesKeeps,
     AgentMachinesKeeps DEF Volumes!Process
<1>2. CASE Volumes!User
  <2>1. ASSUME NEW n \in Nodes, Volumes!CreateNode(n) PROVE VolumesInv'
    <3>. USE DEF Volumes!targets, Volumes!host
    <3>1. UNCHANGED <<home, volume, machineVolume, touched, volumeTarget, pv, pm, dom, disks, vTurn, vEvents,
                      early>>
      BY <2>1 DEF Volumes!CreateNode
    <3>2. placement' \in [Nodes -> {"absent", "new", "placed", "gone"}]
      BY <2>1 DEF Volumes!CreateNode, VolumesInv, RowTypes
    <3>. QED
      BY <3>1, <3>2 DEF VolumesInv, RowTypes, AttachedInv, OrderInv, PoolsAgree
  <2>. QED
    BY <1>2, <2>1, UserVolumes, UserDeletes DEF Volumes!User
<1>3. CASE Volumes!Crash \/ \E n \in Nodes : Volumes!CrashInRecreate(n)
  BY <1>3, CrashesKeep
<1>4. CASE UNCHANGED Volumes!vars
  BY <1>4 DEF Volumes!vars, Volumes!users, Volumes!targets, Volumes!host, VolumesInv, RowTypes, AttachedInv, OrderInv,
     PoolsAgree
<1>. QED
  BY <1>1, <1>2, <1>3, <1>4 DEF Volumes!Next

LEMMA VolumesInvHolds == Volumes!VolumesAssumption /\ Volumes!Spec => []VolumesInv
<1>. SUFFICES ASSUME Volumes!VolumesAssumption PROVE Volumes!Spec => []VolumesInv
  OBVIOUS
<1>1. Volumes!Init => VolumesInv
  BY InitVolumesInv
<1>2. VolumesInv /\ [Volumes!Next]_Volumes!vars => VolumesInv'
  BY VolumesInvKept
<1>. QED
  BY <1>1, <1>2, PTL DEF Volumes!Spec

\* Every table of volumes holds what it should, and a disk is attached only to a
\* domain that is there, on the hypervisor the disk is on (libvirt.py).
THEOREM VolumeTypes == Volumes!VolumesAssumption /\ Volumes!Spec => []Volumes!TypeOK
<1>1. VolumesInv => Volumes!TypeOK
  BY VolumeTypesInParts DEF VolumesInv
<1>. QED
  BY <1>1, VolumesInvHolds, PTL

\* While a volume has its row its disk is not deleted: the agent deletes the disks
\* that have no target, and the deletion of a domain takes no disk along
\* (libvirt.py:1244).
THEOREM DisksAreKept == Volumes!VolumesAssumption /\ Volumes!Spec => Volumes!DiskIsKept
<1>. SUFFICES ASSUME Volumes!VolumesAssumption PROVE Volumes!Spec => Volumes!DiskIsKept
  OBVIOUS
<1>1. VolumesInv /\ [Volumes!Next]_Volumes!vars => [\A v \in Vols : disks[v] # None /\ disks'[v] = None => volume[v] = None]_Volumes!vars
  <2>. SUFFICES ASSUME VolumesInv, Volumes!Next, NEW v \in Vols, disks[v] # None, disks'[v] = None
                PROVE  volume[v] = None
    OBVIOUS
  <2>1. CASE Volumes!AgentVolumes
    <3>1. pv[v] = None
      BY <2>1, DiskForTypes DEF Volumes!AgentVolumes, Volumes!VolumesAssumption
    <3>. QED
      BY <3>1 DEF VolumesInv, OrderInv
  <2>2. CASE Volumes!AgentMachines \/ \E n \in Nodes : Volumes!CrashInRecreate(n)
    <3>1. \E doms : Moves(doms)
      BY <2>2, MachineDisks, RecreateDisks
    <3>. QED
      BY <3>1 DEF Moves, Volumes!VolumesAssumption
  <2>3. CASE Volumes!User \/ Volumes!Schedule \/ Volumes!BuildPools \/ Volumes!BuildVolumes \/ Volumes!Crash
    <3>1. disks' = disks
      BY <2>3, Zenon DEF Volumes!User, Volumes!CreateVolume, Volumes!Attach, Volumes!Detach, Volumes!Resize, Volumes!Change, Volumes!DeleteVolume,
         Volumes!CreateNode, Volumes!DeleteNode, Volumes!Schedule, Volumes!BuildPools, Volumes!BuildVolumes, Volumes!Crash, Volumes!host
    <3>. QED
      BY <3>1
  <2>. QED
    BY <2>1, <2>2, <2>3 DEF Volumes!Next, Volumes!Process
<1>2. Volumes!Spec => []VolumesInv
  BY VolumesInvHolds
<1>. QED
  BY <1>1, <1>2, PTL DEF Volumes!Spec, Volumes!DiskIsKept

-----------------------------------------------------------------------------
(* Secrets.  A row that is ACTIVE and a target resource that the service   *)
(* has marked with a report agree, in the tables and in what the open      *)
(* transaction sees, unless a request was overtaken.                       *)

\* Two secrets, or a secret and a row, that are the same but for a length: the agent
\* changes nothing else of a password.
Alike(a, b) == a.wish = b.wish \/ (kind = "password" /\ a.wish.name = b.wish.name)
Open == pass # "idle"
FullOf(x) == IF x = None THEN None ELSE x.full

\* Whatever is kept or shown was generated.
ValueInv ==
    /\ \A x \in {store, rep, copy.rep, FullOf(res), FullOf(work.res)} :
           x # None => x.value <= values
    /\ \A x \in {row, work.row, copy.row} : x # None /\ x.value # None => x.value <= values

\* Between two lives of a secret: a resource goes with its row, the store after the
\* resource, and a report is of the life that the resource is of.
LivesInv ==
    /\ res = None /\ (store # None \/ rep # None) => row = None /\ ~locked
    /\ res = None => copy.rep = None
    /\ res = None /\ Open /\ work.res # None =>
           work.res.full = None /\ store = None /\ rep = None
    /\ res # None /\ store = None => /\ rep = None /\ res.full = None /\ copy.rep = None
                                     /\ Open /\ work.res # None => work.res.full = None
    /\ res # None /\ Open => work.res # None

\* Reports are late, but of the secret that is stored.
ReportsInv ==
    \A x, y \in {store, rep, copy.rep, FullOf(res)}
                  \union (IF Open THEN {FullOf(work.res)} ELSE {}) :
        x # None /\ y # None => Alike(x, y)

\* What each pass has in hand.
PassInv ==
    /\ locked => Open /\ work.row # None
    /\ pass = "new" => ~locked
    /\ pass \in {"idle", "commit"} => copy = Secrets!NoCopy
    /\ pass # "outdated" => copy.rep = None
    /\ pass = "new" /\ copy.row # None => res = None /\ store = None /\ rep = None
    /\ pass = "changed" /\ copy.row # None => work.res # None
    /\ pass = "outdated" /\ copy.row # None => work.res # None /\ copy.rep # None
    /\ pass = "outdated" /\ copy.row # None /\ ~overtaken =>
           Secrets!Seen = copy.row /\ work.res.wish = copy.row.wish
    /\ pass = "changed" /\ copy.row = None /\ ~overtaken =>
           work.res = None \/ work.tracked \/ Secrets!Seen = None

Follows(r, x, t) == r # None /\ x # None /\ t => x.wish = r.wish
Shows(r, x) == r # None /\ r.status = "ACTIVE" /\ x # None =>
    x.full # None /\ x.full.value = r.value /\ Alike(x.full, r)

\* In the tables, and in the tables as the transaction sees them.
RowInv == ~overtaken =>
    /\ Follows(row, res, tracked) /\ Shows(row, res)
    /\ Open => Follows(Secrets!Seen, work.res, work.tracked) /\ Shows(Secrets!Seen, work.res)

SecretsInv == Secrets!TypeOK /\ ValueInv /\ LivesInv /\ ReportsInv /\ PassInv /\ RowInv

LEMMA InitSecretsInv == Secrets!SecretsAssumption /\ Secrets!Init => SecretsInv
<1>. SUFFICES ASSUME Secrets!SecretsAssumption, Secrets!Init PROVE SecretsInv
  OBVIOUS
<1>0. pass = "idle" /\ row = None /\ res = None /\ store = None /\ rep = None /\ values = 0
      /\ copy = Secrets!NoCopy /\ locked = FALSE
      /\ work = [row |-> None, res |-> None, tracked |-> FALSE]
      /\ sEvents = 0 /\ overtaken = FALSE /\ tracked = FALSE
  BY DEF Secrets!Init
<1>1. Secrets!TypeOK
  <2>1. kind \in {"password", "certificate"}
    BY DEF Secrets!Init
  <2>2. tracked \in BOOLEAN /\ locked \in BOOLEAN /\ overtaken \in BOOLEAN
    BY Zenon, <1>0
  <2>3. work \in [row : Secrets!Row \union {None}, res : Secrets!Resource \union {None}, tracked : BOOLEAN]
    BY <1>0
  <2>4. copy \in [row : Secrets!Row \union {None}, rep : Secrets!Stored \union {None}]
    BY <1>0 DEF Secrets!NoCopy
  <2>5. values \in 0 .. MaxValues /\ sEvents \in 0 .. MaxSecretEvents
    BY <1>0 DEF Secrets!SecretsAssumption
  <2>6. /\ row \in Secrets!Row \union {None} /\ res \in Secrets!Resource \union {None}
        /\ store \in Secrets!Stored \union {None} /\ rep \in Secrets!Stored \union {None}
        /\ pass \in {"idle", "new", "changed", "outdated", "commit"}
    BY <1>0
  <2>7. ~(row # None /\ row.value # None)
    BY <1>0
  <2>. QED
    BY Zenon, <2>1, <2>2, <2>3, <2>4, <2>5, <2>6, <2>7 DEF Secrets!TypeOK
<1>2. ValueInv /\ LivesInv /\ PassInv /\ RowInv
  BY <1>0 DEF ValueInv, LivesInv, PassInv, RowInv, Open, Secrets!NoCopy, FullOf, Follows,
     Shows, Secrets!Seen
<1>3. ReportsInv
  BY <1>0 DEF ReportsInv, Open, Secrets!NoCopy, FullOf
<1>. QED
  BY <1>1, <1>2, <1>3 DEF SecretsInv

LEMMA BeginKeeps ==
    ASSUME Secrets!SecretsAssumption, SecretsInv, Secrets!Begin
    PROVE  SecretsInv'
<1>. USE DEF Secrets!db, Secrets!agent
<1>0. /\ pass = "idle" /\ pass' = "new" /\ ~locked
      /\ work' = [row |-> row, res |-> res, tracked |-> tracked]
      /\ copy' = [row |-> IF res = None THEN row ELSE None, rep |-> None]
      /\ UNCHANGED <<kind, row, res, tracked, store, rep, values, locked, sEvents,
                     overtaken>>
  BY DEF Secrets!Begin, SecretsInv, Secrets!TypeOK, PassInv, Open, Secrets!NoCopy
<1>1. Secrets!TypeOK'
  <2>1. Secrets!TypeOK
    BY DEF SecretsInv
  <2>2. work' \in [row : Secrets!Row \union {None}, res : Secrets!Resource \union {None}, tracked : BOOLEAN]
    BY <1>0, <2>1 DEF Secrets!TypeOK
  <2>3. copy' \in [row : Secrets!Row \union {None}, rep : Secrets!Stored \union {None}]
    BY <1>0, <2>1 DEF Secrets!TypeOK
  <2>4. pass' \in {"idle", "new", "changed", "outdated", "commit"} /\ locked' \in BOOLEAN
    BY Zenon, <1>0, <2>1 DEF Secrets!TypeOK
  <2>. QED
    BY Zenon, <1>0, <2>1, <2>2, <2>3, <2>4 DEF Secrets!TypeOK
<1>2. ValueInv'
  BY <1>0 DEF SecretsInv, Secrets!TypeOK, ValueInv, FullOf
<1>3. LivesInv'
  BY <1>0 DEF SecretsInv, LivesInv, Open
<1>4. ReportsInv'
  BY <1>0 DEF SecretsInv, ReportsInv, Open, FullOf, Alike
<1>5. PassInv'
  BY <1>0 DEF SecretsInv, PassInv, LivesInv, Open, Secrets!NoCopy, Secrets!Seen
<1>6. RowInv'
  BY <1>0 DEF SecretsInv, RowInv, Follows, Shows, Secrets!Seen, Open, Alike
<1>. QED
  BY <1>1, <1>2, <1>3, <1>4, <1>5, <1>6 DEF SecretsInv

Work == [row : Secrets!Row \union {None}, res : Secrets!Resource \union {None}, tracked : BOOLEAN]
Copy == [row : Secrets!Row \union {None}, rep : Secrets!Stored \union {None}]

LEMMA FollowIs ==
    ASSUME Secrets!SecretsAssumption, SecretsInv, pass \in {"new", "changed"}
    PROVE  /\ Secrets!Follow \in Work
           /\ copy.row = None => Secrets!Follow = work
           /\ copy.row # None => Secrets!Follow.row =
                  IF Secrets!Seen = None THEN None ELSE [copy.row EXCEPT !.status = "IN_PROGRESS"]
           /\ copy.row # None => Secrets!Follow.res =
                  IF Secrets!Seen # None \/ pass = "new"
                  THEN [wish |-> copy.row.wish, full |-> None] ELSE work.res
           /\ copy.row # None /\ Secrets!Seen = None => Secrets!Follow.tracked = FALSE
<1>. DEFINE saved == [copy.row EXCEPT !.status = "IN_PROGRESS"]
            made == [wish |-> copy.row.wish, full |-> None]
            before == IF pass = "new" THEN made ELSE work.res
            t == saved # copy.row \/ Secrets!Seen = copy.row
<1>0. work \in Work /\ copy \in Copy
  BY DEF SecretsInv, Secrets!TypeOK, Work, Copy
<1>1. CASE copy.row = None
  BY <1>0, <1>1 DEF Secrets!Follow
<1>2. CASE copy.row # None
  <2>1. copy.row \in Secrets!Row /\ work.res \in Secrets!Resource \union {None}
    BY <1>0, <1>2 DEF Work, Copy
  <2>2. saved \in Secrets!Row
    BY <2>1 DEF Secrets!Row
  <2>3. made \in Secrets!Resource
    BY <2>1 DEF Secrets!Row, Secrets!Resource
  <2>4. before \in Secrets!Resource \union {None}
    BY <2>1, <2>3
  <2>5. Secrets!Follow = IF Secrets!Seen = None THEN [row |-> None, res |-> before, tracked |-> FALSE]
                       ELSE [row |-> saved, res |-> made, tracked |-> t]
    BY Zenon, <1>2 DEF Secrets!Follow, Secrets!Written, Secrets!ResourceFor
  <2>6. t \in BOOLEAN
    OBVIOUS
  <2>. HIDE DEF saved, made, before, t
  <2>7. CASE Secrets!Seen = None
    <3>1. Secrets!Follow = [row |-> None, res |-> before, tracked |-> FALSE]
      BY <2>5, <2>7
    <3>. QED
      BY <1>2, <2>4, <2>7, <3>1 DEF Work, before, made
  <2>8. CASE Secrets!Seen # None
    <3>1. Secrets!Follow = [row |-> saved, res |-> made, tracked |-> t]
      BY <2>5, <2>8
    <3>2. Secrets!Follow \in Work
      BY <2>2, <2>3, <2>6, <3>1 DEF Work
    <3>. QED
      BY <1>2, <2>8, <3>1, <3>2 DEF saved, made
  <2>. QED
    BY <2>7, <2>8
<1>. QED
  BY <1>1, <1>2

LEMMA NewKeeps ==
    ASSUME Secrets!SecretsAssumption, SecretsInv, Secrets!ActualizeNew
    PROVE  SecretsInv'
<1>. USE DEF Secrets!db, Secrets!agent
<1>. DEFINE wrote == copy.row # None /\ Secrets!Seen # None
            known == IF locked' THEN work'.row ELSE row
            changed == work'.res # None /\ ~work'.tracked
<1>0. /\ pass = "new" /\ pass' = "changed" /\ work' = Secrets!Follow
      /\ locked' = (locked \/ wrote)
      /\ copy' = [row |-> IF changed THEN known ELSE None, rep |-> None]
      /\ UNCHANGED <<kind, row, res, tracked, store, rep, values, sEvents, overtaken>>
  BY Zenon DEF Secrets!ActualizeNew, Secrets!NoCopy
<1>1. /\ work' \in Work
      /\ copy.row = None => work' = work
      /\ copy.row # None => work'.row =
             IF Secrets!Seen = None THEN None ELSE [copy.row EXCEPT !.status = "IN_PROGRESS"]
      /\ copy.row # None => work'.res = [wish |-> copy.row.wish, full |-> None]
  BY <1>0, FollowIs
<1>2. work \in Work /\ copy \in Copy /\ ~locked /\ Secrets!TypeOK /\ known \in Secrets!Row \union {None}
  BY <1>0, <1>1 DEF SecretsInv, Secrets!TypeOK, PassInv, Work, Copy
<1>3. /\ copy'.row = None \/ (copy'.row = known /\ changed)
      /\ copy'.rep = None
      /\ Secrets!Seen' = known
  BY <1>0 DEF Secrets!Seen
<1>4. Secrets!Seen' = IF wrote THEN work'.row ELSE row
  BY <1>0, <1>2, <1>3
<1>5. locked' <=> wrote
  BY <1>0, <1>2
<1>. HIDE DEF wrote, known, changed
<1>10. Secrets!TypeOK'
  <2>1. copy' \in Copy
    BY <1>0, <1>2 DEF Copy
  <2>2. locked' \in BOOLEAN
    BY <1>0
  <2>. QED
    BY Zenon, <1>0, <1>1, <1>2, <2>1, <2>2 DEF Secrets!TypeOK, Work, Copy
<1>11. ValueInv'
  <2>1. copy.row # None => copy.row \in Secrets!Row
    BY <1>2 DEF Copy
  <2>2. FullOf(work'.res) = None \/ work' = work
    BY <1>1 DEF FullOf
  <2>3. \A x \in {store, rep, copy'.rep, FullOf(res), FullOf(work'.res)} :
             x # None => x.value <= values
    BY <1>3, <2>2 DEF SecretsInv, ValueInv
  <2>4. work'.row # None => \/ work'.row = work.row
                            \/ copy.row # None /\ work'.row.value = copy.row.value
    BY <1>1, <2>1 DEF Secrets!Row
  <2>5. copy'.row = None \/ copy'.row = row \/ copy'.row = work'.row
    BY <1>3 DEF known
  <2>6. \A x \in {row, work'.row, copy'.row} : x # None /\ x.value # None => x.value <= values
    BY <2>4, <2>5 DEF SecretsInv, ValueInv
  <2>. QED
    BY <1>0, <2>3, <2>6 DEF ValueInv
<1>12. LivesInv'
  BY <1>0, <1>1, <1>3, <1>5 DEF SecretsInv, LivesInv, PassInv, Open, wrote
<1>13. ReportsInv'
  <2>1. FullOf(work'.res) = None \/ work' = work
    BY <1>1 DEF FullOf
  <2>. QED
    BY <1>0, <1>3, <2>1 DEF SecretsInv, ReportsInv, PassInv, Open, Alike
<1>14. RowInv'
  <2>. SUFFICES ASSUME ~overtaken PROVE /\ Follows(row, res, tracked) /\ Shows(row, res)
                                        /\ Follows(Secrets!Seen', work'.res, work'.tracked)
                                        /\ Shows(Secrets!Seen', work'.res)
    BY <1>0 DEF RowInv, Open, Follows, Shows, Alike
  <2>1. CASE wrote
    BY <1>0, <1>1, <1>2, <1>4, <2>1 DEF SecretsInv, RowInv, Follows, Shows, Secrets!Row, Copy,
       wrote
  <2>2. CASE copy.row # None /\ ~wrote
    BY <1>0, <1>1, <1>2, <1>4, <2>2 DEF SecretsInv, RowInv, Follows, Shows, wrote, Secrets!Seen
  <2>3. CASE copy.row = None
    BY <1>0, <1>1, <1>2, <1>4, <2>3 DEF SecretsInv, RowInv, Follows, Shows, wrote,
       Secrets!Seen, Open
  <2>. QED
    BY <2>1, <2>2, <2>3 DEF wrote
<1>15. PassInv'
  <2>1. locked' => work'.row # None
    BY <1>1, <1>2, <1>5 DEF wrote, Copy, Secrets!Row, Secrets!SecretsAssumption
  <2>2. copy'.row = None => work'.res = None \/ work'.tracked \/ Secrets!Seen' = None
    BY <1>0, <1>3 DEF changed
  <2>3. copy'.row # None => work'.res # None
    BY <1>0, <1>3 DEF changed
  <2>. QED
    BY <1>0, <1>3, <2>1, <2>2, <2>3 DEF PassInv, Open
<1>. QED
  BY <1>10, <1>11, <1>12, <1>13, <1>14, <1>15 DEF SecretsInv

LEMMA ChangedKeeps ==
    ASSUME Secrets!SecretsAssumption, SecretsInv, Secrets!ActualizeChanged
    PROVE  SecretsInv'
<1>. USE DEF Secrets!db, Secrets!agent
<1>. DEFINE wrote == copy.row # None /\ Secrets!Seen # None
            known == IF locked' THEN work'.row ELSE row
            outdated == work'.res # None /\ rep # None /\ work'.res.full # rep
<1>0. /\ pass = "changed" /\ pass' = "outdated" /\ work' = Secrets!Follow
      /\ locked' = (locked \/ wrote)
      /\ copy' = IF outdated /\ known # None THEN [row |-> known, rep |-> rep]
                 ELSE [row |-> None, rep |-> None]
      /\ UNCHANGED <<kind, row, res, tracked, store, rep, values, sEvents, overtaken>>
  BY Zenon DEF Secrets!ActualizeChanged, Secrets!NoCopy
<1>1. /\ work' \in Work
      /\ copy.row = None => work' = work
      /\ copy.row # None => work'.row =
             IF Secrets!Seen = None THEN None ELSE [copy.row EXCEPT !.status = "IN_PROGRESS"]
      /\ copy.row # None => work'.res =
             IF Secrets!Seen # None THEN [wish |-> copy.row.wish, full |-> None] ELSE work.res
      /\ copy.row # None /\ Secrets!Seen = None => work'.tracked = FALSE
  BY <1>0, FollowIs
<1>2. work \in Work /\ copy \in Copy /\ Secrets!TypeOK /\ known \in Secrets!Row \union {None}
      /\ rep \in Secrets!Stored \union {None}
  BY <1>0, <1>1 DEF SecretsInv, Secrets!TypeOK, PassInv, Work, Copy
<1>3. /\ \/ copy'.row = None /\ copy'.rep = None
         \/ copy'.row = known /\ copy'.rep = rep /\ outdated
      /\ Secrets!Seen' = known
  BY <1>0 DEF Secrets!Seen
<1>4. Secrets!Seen' = IF wrote THEN work'.row ELSE Secrets!Seen
  BY <1>0, <1>1, <1>2, <1>3 DEF Secrets!Seen
<1>5. locked' <=> locked \/ wrote
  BY <1>0, <1>2
<1>6. work'.res # None => work.res # None
  BY <1>0, <1>1 DEF SecretsInv, PassInv
<1>7. FullOf(work'.res) = None \/ work'.res = work.res
  BY <1>1 DEF FullOf
<1>. HIDE DEF wrote, known, outdated
<1>10. Secrets!TypeOK'
  <2>1. copy' \in Copy
    <3>1. [row |-> None, rep |-> None] \in Copy /\ [row |-> known, rep |-> rep] \in Copy
      BY <1>2 DEF Copy
    <3>. QED
      BY <1>0, <3>1
  <2>2. locked' \in BOOLEAN
    BY <1>0
  <2>. QED
    BY Zenon, <1>0, <1>1, <1>2, <2>1, <2>2 DEF Secrets!TypeOK, Work, Copy
<1>11. ValueInv'
  <2>1. copy.row # None => copy.row \in Secrets!Row
    BY <1>2 DEF Copy
  <2>2. FullOf(work'.res) = None \/ FullOf(work'.res) = FullOf(work.res)
    BY <1>7 DEF FullOf
  <2>3. \A x \in {store, rep, copy'.rep, FullOf(res), FullOf(work'.res)} :
             x # None => x.value <= values
    BY <1>3, <2>2 DEF SecretsInv, ValueInv
  <2>4. work'.row # None => \/ work'.row = work.row
                            \/ copy.row # None /\ work'.row.value = copy.row.value
    BY <1>1, <2>1 DEF Secrets!Row
  <2>5. copy'.row = None \/ copy'.row = row \/ copy'.row = work'.row
    BY <1>3 DEF known
  <2>6. \A x \in {row, work'.row, copy'.row} : x # None /\ x.value # None => x.value <= values
    BY <2>4, <2>5 DEF SecretsInv, ValueInv
  <2>. QED
    BY <1>0, <2>3, <2>6 DEF ValueInv
<1>12. LivesInv'
  <2>1. work'.res # None /\ work'.res # work.res => work'.res.full = None
    BY <1>1
  <2>2. wrote /\ res = None => store = None /\ rep = None
    BY <1>0 DEF wrote, SecretsInv, LivesInv, PassInv, Open
  <2>3. work.res # None => work'.res # None
    <3>1. copy.row # None => [wish |-> copy.row.wish, full |-> None] \in Secrets!Resource
      BY <1>2 DEF Copy, Secrets!Row, Secrets!Resource
    <3>. QED
      BY <1>1, <3>1 DEF Secrets!SecretsAssumption
  <2>. QED
    BY <1>0, <1>3, <1>5, <1>6, <2>1, <2>2, <2>3 DEF SecretsInv, LivesInv, PassInv, Open,
       outdated
<1>13. ReportsInv'
  BY <1>0, <1>3, <1>7 DEF SecretsInv, ReportsInv, PassInv, Open, Alike, FullOf
<1>14. RowInv'
  <2>. SUFFICES ASSUME ~overtaken PROVE /\ Follows(row, res, tracked) /\ Shows(row, res)
                                        /\ Follows(Secrets!Seen', work'.res, work'.tracked)
                                        /\ Shows(Secrets!Seen', work'.res)
    BY <1>0 DEF RowInv, Open, Follows, Shows, Alike
  <2>1. CASE wrote
    BY <1>0, <1>1, <1>2, <1>4, <2>1 DEF SecretsInv, RowInv, Follows, Shows, Secrets!Row, Copy,
       wrote
  <2>2. CASE copy.row # None /\ ~wrote
    BY <1>0, <1>1, <1>2, <1>4, <2>2 DEF SecretsInv, RowInv, Follows, Shows, wrote
  <2>3. CASE copy.row = None
    BY <1>0, <1>1, <1>2, <1>4, <2>3 DEF SecretsInv, RowInv, Follows, Shows, wrote, Open
  <2>. QED
    BY <2>1, <2>2, <2>3 DEF wrote
<1>15. PassInv'
  <2>1. locked' => work'.row # None
    BY <1>1, <1>2, <1>5 DEF wrote, Copy, Secrets!Row, Secrets!SecretsAssumption, SecretsInv,
       PassInv, Secrets!Seen
  <2>2. copy'.row # None => work'.res # None /\ copy'.rep # None /\ Secrets!Seen' = copy'.row
    BY <1>0, <1>3 DEF outdated
  <2>3. ASSUME copy'.row # None, ~overtaken PROVE work'.res.wish = copy'.row.wish
    <3>1. CASE copy.row = None
      <4>1. work'.res = work.res /\ Secrets!Seen' = Secrets!Seen
        BY <1>1, <1>4, <3>1 DEF wrote
      <4>. QED
        BY <1>0, <2>2, <2>3, <3>1, <4>1 DEF SecretsInv, PassInv, RowInv, Follows, Open
    <3>2. CASE copy.row # None
      BY <1>1, <1>2, <1>4, <2>2, <2>3, <3>2 DEF wrote, Copy, Secrets!Row
    <3>. QED
      BY <3>1, <3>2
  <2>. QED
    BY <1>0, <1>3, <2>1, <2>2, <2>3 DEF PassInv, Open
<1>. QED
  BY <1>10, <1>11, <1>12, <1>13, <1>14, <1>15 DEF SecretsInv

LEMMA OutdatedKeeps ==
    ASSUME Secrets!SecretsAssumption, SecretsInv, Secrets!ActualizeOutdated
    PROVE  SecretsInv'
<1>. USE DEF Secrets!db, Secrets!agent
<1>. DEFINE active == Secrets!SameHash(work.res, copy.rep)
            saves == active \/ copy.rep.value # copy.row.value
            marked == [work.res EXCEPT !.full = copy.rep]
            saved == [copy.row EXCEPT !.value = copy.rep.value,
                                      !.status = IF active THEN "ACTIVE" ELSE @]
            t == saved # copy.row \/ Secrets!Seen = copy.row
            wrote == copy.row # None /\ saves /\ Secrets!Seen # None
<1>0. /\ pass = "outdated" /\ pass' = "commit" /\ copy' = [row |-> None, rep |-> None]
      /\ UNCHANGED <<kind, row, res, tracked, store, rep, values, sEvents, overtaken>>
  BY DEF Secrets!ActualizeOutdated, Secrets!NoCopy
<1>1. /\ copy.row = None => work' = work /\ locked' = locked
      /\ copy.row # None /\ saves =>
            /\ work' = IF Secrets!Seen = None THEN [row |-> None, res |-> work.res, tracked |-> FALSE]
                       ELSE [row |-> saved, res |-> marked, tracked |-> t]
            /\ locked' = (Secrets!Seen # None)
      /\ copy.row # None /\ ~saves =>
            /\ work' = [work EXCEPT !.res = marked, !.tracked = Secrets!Seen = copy.row]
            /\ locked' = locked
  BY Zenon DEF Secrets!ActualizeOutdated, Secrets!Written
<1>2. /\ work \in Work /\ copy \in Copy /\ Secrets!TypeOK /\ row \in Secrets!Row \union {None}
      /\ Secrets!Seen \in Secrets!Row \union {None} /\ locked \in BOOLEAN
  BY DEF SecretsInv, Secrets!TypeOK, Work, Copy, Secrets!Seen
<1>3. ASSUME copy.row # None
      PROVE  /\ res # None /\ store # None /\ work.res \in Secrets!Resource /\ copy.rep \in Secrets!Stored
             /\ copy.row \in Secrets!Row
  BY <1>0, <1>2, <1>3 DEF SecretsInv, PassInv, LivesInv, Work, Copy, Secrets!SecretsAssumption
<1>4. ASSUME copy.row # None
      PROVE  /\ marked \in Secrets!Resource /\ marked.wish = work.res.wish /\ marked.full = copy.rep
             /\ saved \in Secrets!Row /\ saved.value = copy.rep.value
             /\ saved.wish = copy.row.wish
             /\ saved.status = IF active THEN "ACTIVE" ELSE copy.row.status
  <2>1. marked \in Secrets!Resource /\ marked.wish = work.res.wish /\ marked.full = copy.rep
    BY <1>3, <1>4 DEF Secrets!Resource
  <2>2. saved \in Secrets!Row /\ saved.value = copy.rep.value /\ saved.wish = copy.row.wish
        /\ saved.status = IF active THEN "ACTIVE" ELSE copy.row.status
    <3>. HIDE DEF active
    <3>. QED
      BY <1>3, <1>4 DEF Secrets!Row, Secrets!Stored
  <2>. QED
    BY <2>1, <2>2
<1>5. t \in BOOLEAN /\ (Secrets!Seen = copy.row) \in BOOLEAN
  OBVIOUS
<1>. HIDE DEF active, saves, marked, saved, t
<1>6. /\ work' \in Work
      /\ copy.row = None => work' = work /\ locked' = locked
      /\ wrote => work'.row = saved /\ work'.res = marked /\ locked'
      /\ copy.row # None /\ saves /\ Secrets!Seen = None =>
            work'.row = None /\ work'.res = work.res /\ work'.tracked = FALSE /\ ~locked'
      /\ copy.row # None /\ ~saves =>
            work'.row = work.row /\ work'.res = marked /\ locked' = locked
            /\ (work'.tracked <=> Secrets!Seen = copy.row)
  <2>1. CASE copy.row = None
    BY <1>1, <1>2, <2>1
  <2>2. CASE wrote
    <3>1. work' = [row |-> saved, res |-> marked, tracked |-> t] /\ locked' = TRUE
      BY <1>1, <2>2
    <3>. QED
      BY <1>4, <1>5, <2>2, <3>1 DEF Work
  <2>3. CASE copy.row # None /\ saves /\ Secrets!Seen = None
    <3>1. work' = [row |-> None, res |-> work.res, tracked |-> FALSE] /\ locked' = FALSE
      BY <1>1, <2>3
    <3>. QED
      BY <1>3, <2>3, <3>1 DEF Work
  <2>4. CASE copy.row # None /\ ~saves
    <3>1. work' = [work EXCEPT !.res = marked, !.tracked = Secrets!Seen = copy.row] /\ locked' = locked
      BY <1>1, <2>4
    <3>. QED
      BY <1>2, <1>4, <2>4, <3>1 DEF Work
  <2>. QED
    BY <2>1, <2>2, <2>3, <2>4
<1>7. Secrets!Seen' = IF wrote THEN saved ELSE IF copy.row # None /\ saves THEN None ELSE Secrets!Seen
  <2>1. CASE wrote
    BY <1>0, <1>6, <2>1 DEF Secrets!Seen
  <2>2. CASE copy.row # None /\ saves /\ Secrets!Seen = None
    <3>1. row = None
      BY <2>2 DEF Secrets!Seen, SecretsInv, PassInv
    <3>. QED
      BY <1>0, <1>6, <2>2, <3>1 DEF Secrets!Seen
  <2>3. CASE copy.row = None \/ ~saves
    BY <1>0, <1>6, <2>3 DEF Secrets!Seen
  <2>. QED
    BY <2>1, <2>2, <2>3
<1>8. work'.res = work.res \/ (copy.row # None /\ work'.res = marked)
  BY <1>6 DEF wrote
<1>9. FullOf(work'.res) = FullOf(work.res) \/ FullOf(work'.res) = copy.rep
  BY <1>4, <1>8 DEF FullOf, Secrets!SecretsAssumption
<1>10. Secrets!TypeOK'
  <2>1. copy' \in Copy
    BY <1>0 DEF Copy
  <2>2. locked' \in BOOLEAN
    BY <1>1, <1>2 DEF wrote
  <2>. QED
    BY Zenon, <1>0, <1>2, <1>6, <2>1, <2>2 DEF Secrets!TypeOK, Work, Copy
<1>11. ValueInv'
  <2>1. \A x \in {store, rep, copy'.rep, FullOf(res), FullOf(work'.res)} :
             x # None => x.value <= values
    BY <1>0, <1>9 DEF SecretsInv, ValueInv
  <2>2. work'.row # None => \/ work'.row = work.row
                            \/ copy.row # None /\ work'.row.value = copy.rep.value
    BY <1>4, <1>6 DEF wrote
  <2>3. copy.row # None => copy.rep.value <= values
    BY <1>3 DEF SecretsInv, ValueInv, Secrets!SecretsAssumption
  <2>4. \A x \in {row, work'.row, copy'.row} : x # None /\ x.value # None => x.value <= values
    BY <1>0, <2>2, <2>3 DEF SecretsInv, ValueInv
  <2>. QED
    BY <1>0, <2>1, <2>4 DEF ValueInv
<1>12. LivesInv'
  <2>1. work'.res = None <=> work.res = None
    BY <1>3, <1>4, <1>8 DEF Secrets!SecretsAssumption
  <2>2. res = None \/ store = None => copy.row = None
    BY <1>3
  <2>. QED
    BY <1>0, <1>6, <2>1, <2>2 DEF SecretsInv, LivesInv, PassInv, Open
<1>13. ReportsInv'
  BY <1>0, <1>9 DEF SecretsInv, ReportsInv, Open, Alike
<1>14. RowInv'
  <2>. SUFFICES ASSUME ~overtaken PROVE /\ Follows(row, res, tracked) /\ Shows(row, res)
                                        /\ Follows(Secrets!Seen', work'.res, work'.tracked)
                                        /\ Shows(Secrets!Seen', work'.res)
    BY <1>0 DEF RowInv, Open, Follows, Shows, Alike
  <2>0. Follows(row, res, tracked) /\ Shows(row, res)
    BY DEF SecretsInv, RowInv
  <2>1. ASSUME copy.row # None
        PROVE  /\ Secrets!Seen = copy.row /\ work.res.wish = copy.row.wish
               /\ Shows(copy.row, work.res) /\ work.res # None
    BY <1>0, <1>3, <2>1 DEF SecretsInv, PassInv, RowInv, Open, Secrets!SecretsAssumption
  <2>2. ASSUME copy.row # None, copy.row.status = "ACTIVE" PROVE Alike(copy.rep, copy.row)
    <3>1. work.res.full # None /\ Alike(work.res.full, copy.row)
      BY <2>1, <2>2 DEF Shows
    <3>2. Alike(copy.rep, work.res.full)
      BY <1>0, <1>3, <2>1, <2>2, <3>1 DEF SecretsInv, ReportsInv, FullOf, Open,
         Secrets!SecretsAssumption
    <3>. QED
      BY <3>1, <3>2 DEF Alike
  <2>3. ASSUME copy.row # None, active PROVE Alike(copy.rep, copy.row)
    BY <2>1, <2>3 DEF active, Secrets!SameHash, Alike
  <2>4. ASSUME wrote PROVE Follows(saved, marked, work'.tracked) /\ Shows(saved, marked)
    BY <1>3, <1>4, <2>1, <2>2, <2>3, <2>4 DEF wrote, Follows, Shows, Alike,
       Secrets!SecretsAssumption
  <2>5. ASSUME copy.row # None, ~saves
        PROVE  Follows(copy.row, marked, work'.tracked) /\ Shows(copy.row, marked)
    BY <1>3, <1>4, <2>1, <2>2, <2>5 DEF saves, Follows, Shows, Alike, Secrets!SecretsAssumption
  <2>6. CASE wrote
    BY <1>6, <1>7, <2>0, <2>4, <2>6
  <2>7. CASE copy.row # None /\ saves /\ ~wrote
    BY <1>7, <2>0, <2>7 DEF Follows, Shows
  <2>8. CASE copy.row # None /\ ~saves
    BY <1>6, <1>7, <2>0, <2>1, <2>5, <2>8 DEF wrote
  <2>9. CASE copy.row = None
    BY <1>0, <1>6, <1>7, <2>0, <2>9 DEF wrote, SecretsInv, RowInv, Open
  <2>. QED
    BY <2>6, <2>7, <2>8, <2>9
<1>15. PassInv'
  <2>1. locked' => work'.row # None
    BY <1>4, <1>6 DEF wrote, Secrets!SecretsAssumption, SecretsInv, PassInv
  <2>. QED
    BY <1>0, <2>1 DEF PassInv, Open, Secrets!NoCopy
<1>. QED
  BY <1>10, <1>11, <1>12, <1>13, <1>14, <1>15 DEF SecretsInv

LEMMA CommitKeeps ==
    ASSUME Secrets!SecretsAssumption, SecretsInv, Secrets!Commit
    PROVE  SecretsInv'
<1>. USE DEF Secrets!agent
<1>0. /\ pass = "commit" /\ pass' = "idle" /\ row' = Secrets!Seen /\ copy = Secrets!NoCopy
      /\ copy' = copy
      /\ res' = IF Secrets!Seen = None THEN None ELSE work.res
      /\ tracked' = work.tracked /\ locked' = FALSE
      /\ UNCHANGED <<kind, store, rep, values, work, sEvents, overtaken>>
  BY DEF Secrets!Commit, Secrets!Orphan, SecretsInv, PassInv
<1>1. /\ Secrets!TypeOK /\ work \in Work /\ Secrets!Seen \in Secrets!Row \union {None}
      /\ work.res \in Secrets!Resource \union {None}
      /\ Secrets!Seen = None \/ Secrets!Seen = row \/ Secrets!Seen = work.row
  BY DEF SecretsInv, Secrets!TypeOK, Work, Secrets!Seen
<1>2. FullOf(res') = None \/ FullOf(res') = FullOf(work.res)
  BY <1>0 DEF FullOf
<1>3. Secrets!TypeOK'
  <2>1. row' # None /\ row'.value # None => row'.value <= values
    BY <1>0, <1>1 DEF SecretsInv, ValueInv
  <2>2. res' \in Secrets!Resource \union {None} /\ tracked' \in BOOLEAN /\ locked' \in BOOLEAN
    BY <1>0, <1>1 DEF Work
  <2>. QED
    BY Zenon, <1>0, <1>1, <2>1, <2>2 DEF Secrets!TypeOK
<1>4. ValueInv'
  BY <1>0, <1>1, <1>2 DEF SecretsInv, ValueInv, Secrets!NoCopy
<1>5. LivesInv'
  BY <1>0 DEF SecretsInv, LivesInv, Open, Secrets!NoCopy, Secrets!Seen
<1>6. ReportsInv'
  BY <1>0, <1>2 DEF SecretsInv, ReportsInv, Open, Secrets!NoCopy, Alike
<1>7. PassInv'
  BY <1>0 DEF PassInv, Open, Secrets!NoCopy
<1>8. RowInv'
  BY <1>0 DEF SecretsInv, RowInv, Open, Follows, Shows, Alike
<1>. QED
  BY <1>3, <1>4, <1>5, <1>6, <1>7, <1>8 DEF SecretsInv

LEMMA RollbackKeeps ==
    ASSUME Secrets!SecretsAssumption, SecretsInv, Secrets!Rollback
    PROVE  SecretsInv'
<1>. USE DEF Secrets!db, Secrets!agent
<1>0. /\ pass' = "idle" /\ locked' = FALSE /\ copy' = Secrets!NoCopy
      /\ UNCHANGED <<kind, row, res, tracked, store, rep, values, work, overtaken>>
  BY DEF Secrets!Rollback
<1>1. sEvents' \in 0 .. MaxSecretEvents
  BY DEF SecretsInv, Secrets!TypeOK, Secrets!Rollback, Secrets!Tick, Secrets!SecretsAssumption
<1>2. Secrets!TypeOK'
  <2>1. copy' \in Copy /\ locked' \in BOOLEAN
    BY <1>0 DEF Copy, Secrets!NoCopy
  <2>. QED
    BY Zenon, <1>0, <1>1, <2>1 DEF SecretsInv, Secrets!TypeOK, Copy
<1>3. ValueInv' /\ LivesInv' /\ PassInv' /\ RowInv'
  BY <1>0 DEF SecretsInv, ValueInv, LivesInv, PassInv, RowInv, Open, Secrets!NoCopy, Follows,
     Shows, Alike
<1>4. ReportsInv'
  BY <1>0 DEF SecretsInv, ReportsInv, Open, Secrets!NoCopy, Alike
<1>. QED
  BY <1>2, <1>3, <1>4 DEF SecretsInv

LEMMA RequestKeeps ==
    ASSUME Secrets!SecretsAssumption, SecretsInv, NEW new \in Secrets!Row \union {None}, Secrets!Request(new),
           new # None => /\ new.status # "ACTIVE"
                         /\ row # None \/ (store = None /\ rep = None /\ pass = "idle")
                         /\ new.value # None => row # None /\ new.value = row.value
    PROVE  SecretsInv'
<1>. USE DEF Secrets!agent
<1>0. /\ ~locked /\ row' = new /\ tracked' = FALSE
      /\ work' = [work EXCEPT !.tracked = FALSE]
      /\ overtaken' = (overtaken \/ pass \in {"changed", "outdated"})
      /\ UNCHANGED <<kind, res, store, rep, values, pass, locked, copy>>
  BY DEF Secrets!Request
<1>1. /\ Secrets!TypeOK /\ work \in Work
      /\ new # None /\ new.value # None => new.value <= values
  BY DEF SecretsInv, Secrets!TypeOK, Work
<1>2. sEvents' \in 0 .. MaxSecretEvents
  BY DEF SecretsInv, Secrets!TypeOK, Secrets!Request, Secrets!Tick, Secrets!SecretsAssumption
<1>3. /\ work' \in Work /\ work'.row = work.row /\ work'.res = work.res /\ ~work'.tracked
  BY <1>0, <1>1 DEF Work
<1>4. ~overtaken' => ~overtaken /\ pass \notin {"changed", "outdated"}
  BY <1>0
<1>5. Secrets!TypeOK'
  <2>1. tracked' \in BOOLEAN /\ overtaken' \in BOOLEAN
    BY <1>0
  <2>. QED
    BY Zenon, <1>0, <1>1, <1>2, <1>3, <2>1 DEF Secrets!TypeOK, Work
<1>6. ValueInv'
  BY <1>0, <1>1, <1>3 DEF SecretsInv, ValueInv
<1>7. LivesInv'
  BY <1>0, <1>3 DEF SecretsInv, LivesInv, Open
<1>8. ReportsInv'
  BY <1>0, <1>3 DEF SecretsInv, ReportsInv, Open, Alike
<1>9. PassInv'
  BY <1>0, <1>3, <1>4 DEF SecretsInv, PassInv, Open, Secrets!NoCopy, LivesInv
<1>10. RowInv'
  BY <1>0, <1>3, <1>4 DEF SecretsInv, RowInv, Open, Follows, Shows, Alike, Secrets!Seen
<1>. QED
  BY <1>5, <1>6, <1>7, <1>8, <1>9, <1>10 DEF SecretsInv

LEMMA AgentKeeps ==
    ASSUME Secrets!SecretsAssumption, SecretsInv,
           store' \in Secrets!Stored \union {None}, rep' \in Secrets!Stored \union {None}, values' \in 0 .. MaxValues,
           UNCHANGED <<kind, Secrets!db, Secrets!iter, overtaken>>, sEvents' \in 0 .. MaxSecretEvents,
           values <= values', store' # None => store'.value <= values',
           rep' \in {rep, store},
           \/ store' = None /\ res = None
           \/ res # None /\ store = None /\ rep' = rep
           \/ store = None /\ store' = None
           \/ store # None /\ store' # None /\ Alike(store', store)
    PROVE  SecretsInv'
<1>. USE DEF Secrets!db, Secrets!iter
<1>1. Secrets!TypeOK'
  <2>1. row # None /\ row.value # None => row.value \in Nat /\ row.value <= values
    BY DEF SecretsInv, Secrets!TypeOK, Secrets!Row, Secrets!Values
  <2>2. row' # None /\ row'.value # None => row'.value <= values'
    BY <2>1 DEF SecretsInv, Secrets!TypeOK
  <2>3. UNCHANGED <<kind, row, res, tracked, pass, work, locked, copy, overtaken>>
    BY DEF Secrets!db, Secrets!iter
  <2>. QED
    BY Zenon, <2>2, <2>3 DEF SecretsInv, Secrets!TypeOK
<1>2. ValueInv'
  <2>1. /\ values \in Nat /\ values' \in Nat
        /\ \A x \in {store, rep, copy.rep, FullOf(res), FullOf(work.res)} :
               x # None => x.value \in Nat
        /\ \A x \in {row, work.row, copy.row} : x # None /\ x.value # None => x.value \in Nat
    BY DEF SecretsInv, Secrets!TypeOK, Secrets!Row, Secrets!Stored, Secrets!Resource, Secrets!Values, FullOf
  <2>2. \A x \in {store', rep', copy.rep, FullOf(res), FullOf(work.res)} :
             x # None => x.value <= values'
    BY <2>1 DEF SecretsInv, ValueInv
  <2>3. \A x \in {row, work.row, copy.row} : x # None /\ x.value # None => x.value <= values'
    BY <2>1 DEF SecretsInv, ValueInv
  <2>. QED
    BY <2>2, <2>3 DEF ValueInv, FullOf
<1>3. LivesInv'
  BY DEF SecretsInv, LivesInv, Open
<1>4. ReportsInv'
  BY DEF SecretsInv, ReportsInv, LivesInv, Open, FullOf, Alike
<1>5. PassInv' /\ RowInv'
  BY DEF SecretsInv, PassInv, RowInv, LivesInv, Open, Follows, Shows, Alike, Secrets!Seen
<1>. QED
  BY <1>1, <1>2, <1>3, <1>4, <1>5 DEF SecretsInv

LEMMA SecretsInvKept == Secrets!SecretsAssumption /\ SecretsInv /\ [Secrets!Next]_Secrets!vars => SecretsInv'
<1>. SUFFICES ASSUME Secrets!SecretsAssumption, SecretsInv, [Secrets!Next]_Secrets!vars PROVE SecretsInv'
  OBVIOUS
<1>0. Secrets!TypeOK
  BY DEF SecretsInv
<1>1. ASSUME NEW wish \in Secrets!Wish, Secrets!CreateSecret(wish) PROVE SecretsInv'
  <2>1. [wish |-> wish, status |-> "NEW", value |-> None] \in Secrets!Row
    BY DEF Secrets!Row
  <2>. QED
    BY <1>1, <2>1, RequestKeeps DEF Secrets!CreateSecret
<1>2. ASSUME NEW wish \in Secrets!Wish, Secrets!UpdateSecret(wish) PROVE SecretsInv'
  <2>1. row \in Secrets!Row /\ row # None
    BY <1>0, <1>2 DEF Secrets!UpdateSecret, Secrets!TypeOK
  <2>2. LET new == [row EXCEPT !.wish = wish, !.status = "NEW"]
        IN  new \in Secrets!Row /\ new.status = "NEW" /\ new.value = row.value
    BY <2>1 DEF Secrets!Row
  <2>. QED
    BY <1>2, <2>1, <2>2, RequestKeeps DEF Secrets!UpdateSecret
<1>3. CASE Secrets!DeleteSecret
  BY <1>3, RequestKeeps DEF Secrets!DeleteSecret
<1>4. ASSUME Secrets!Create PROVE /\ store' \in Secrets!Stored /\ values' \in 0 .. MaxValues /\ values <= values'
                                 /\ store'.value <= values' /\ res # None /\ store = None
  BY <1>0, <1>4 DEF Secrets!Create, Secrets!Generate, Secrets!TypeOK, Secrets!Stored, Secrets!Resource,
     Secrets!SecretsAssumption, Secrets!Values
<1>5. ASSUME Secrets!Update PROVE /\ store' \in Secrets!Stored /\ values' \in 0 .. MaxValues /\ values <= values'
                                 /\ store'.value <= values' /\ store # None
                                 /\ Alike(store', store)
  <2>1. store \in Secrets!Stored /\ res \in Secrets!Resource
    BY <1>0, <1>5 DEF Secrets!Update, Secrets!TypeOK
  <2>. DEFINE wish == [store.wish EXCEPT !.form = res.wish.form]
  <2>2. wish \in Secrets!Wish /\ wish.name = store.wish.name
    BY <2>1 DEF Secrets!Stored, Secrets!Resource, Secrets!Wish
  <2>. HIDE DEF wish
  <2>3. /\ values < MaxValues /\ values' = values + 1 /\ kind = "password"
        /\ store' = [wish |-> wish, under |-> FALSE, value |-> values + 1]
    BY <1>5 DEF Secrets!Update, Secrets!Generate, wish
  <2>. QED
    BY <1>0, <2>1, <2>2, <2>3 DEF Secrets!TypeOK, Secrets!Stored, Secrets!Values, Alike, Secrets!SecretsAssumption
<1>6. CASE Secrets!Apply
  <2>1. /\ UNCHANGED <<kind, Secrets!db, rep, Secrets!iter, sEvents, overtaken>>
        /\ Secrets!Create \/ Secrets!Update \/ Secrets!Delete
    BY <1>6 DEF Secrets!Apply
  <2>2. rep \in Secrets!Stored \union {None} /\ sEvents \in 0 .. MaxSecretEvents /\ values \in 0 .. MaxValues
        /\ values <= values
    BY <1>0 DEF Secrets!TypeOK
  <2>3. CASE Secrets!Create
    BY <1>4, <2>1, <2>2, <2>3, AgentKeeps DEF Secrets!SecretsAssumption
  <2>4. CASE Secrets!Update
    BY <1>5, <2>1, <2>2, <2>4, AgentKeeps DEF Secrets!SecretsAssumption
  <2>5. CASE Secrets!Delete
    BY <2>1, <2>2, <2>5, AgentKeeps DEF Secrets!Delete
  <2>. QED
    BY <2>1, <2>3, <2>4, <2>5
<1>7. CASE Secrets!Report
  <2>1. /\ UNCHANGED <<kind, Secrets!db, store, values, Secrets!iter, sEvents,
                       overtaken>> /\ rep' = store
    BY <1>7 DEF Secrets!Report
  <2>2. /\ store \in Secrets!Stored \union {None} /\ sEvents \in 0 .. MaxSecretEvents
        /\ values \in 0 .. MaxValues
        /\ values <= values /\ (store # None => store.value <= values)
    BY <1>0 DEF Secrets!TypeOK, SecretsInv, ValueInv
  <2>. QED
    BY <2>1, <2>2, AgentKeeps DEF Alike
<1>8. CASE Secrets!Expire
  <2>0. store \in Secrets!Stored /\ values \in 0 .. MaxValues /\ rep \in Secrets!Stored \union {None}
    BY <1>0, <1>8 DEF Secrets!Expire, Secrets!TypeOK
  <2>1. /\ UNCHANGED <<kind, Secrets!db, rep, values, Secrets!iter,
                       overtaken>> /\ sEvents' \in 0 .. MaxSecretEvents
        /\ store' = [store EXCEPT !.under = TRUE]
    BY <1>0, <1>8 DEF Secrets!Expire, Secrets!TypeOK, Secrets!Tick, Secrets!SecretsAssumption
  <2>2. store' \in Secrets!Stored /\ store'.value = store.value /\ store'.wish = store.wish
    BY <2>0, <2>1 DEF Secrets!Stored
  <2>3. store.value <= values /\ values <= values /\ store # None /\ store' # None
    BY <2>0, <2>2 DEF SecretsInv, ValueInv, Secrets!SecretsAssumption
  <2>. QED
    BY <2>0, <2>1, <2>2, <2>3, AgentKeeps DEF Alike
<1>9. CASE UNCHANGED Secrets!vars
  BY <1>9, <1>0 DEF Secrets!vars, Secrets!db, Secrets!agent, Secrets!iter, SecretsInv, Secrets!TypeOK, ValueInv,
     LivesInv, ReportsInv, PassInv, RowInv,
      Open, FullOf, Alike, Follows, Shows, Secrets!Seen
<1>. QED
  BY <1>1, <1>2, <1>3, <1>6, <1>7, <1>8, <1>9, BeginKeeps, NewKeeps, ChangedKeeps,
     OutdatedKeeps,
     CommitKeeps, RollbackKeeps DEF Secrets!Next, Secrets!Service, Secrets!Agent

LEMMA SecretsInvHolds == Secrets!SecretsAssumption /\ Secrets!Spec => []SecretsInv
<1>. SUFFICES ASSUME Secrets!SecretsAssumption PROVE Secrets!Spec => []SecretsInv
  OBVIOUS
<1>1. Secrets!Init => SecretsInv
  BY InitSecretsInv
<1>2. SecretsInv /\ [Secrets!Next]_Secrets!vars => SecretsInv'
  BY SecretsInvKept
<1>. QED
  BY <1>1, <1>2, PTL DEF Secrets!Spec

\* Row, resource, store and reports are well formed, and a row shows only a value
\* that the agent has generated.
THEOREM SecretTypes == Secrets!SecretsAssumption /\ Secrets!Spec => []Secrets!TypeOK
<1>1. SecretsInv => Secrets!TypeOK
  BY DEF SecretsInv
<1>. QED
  BY <1>1, SecretsInvHolds, PTL

\* An ACTIVE row shows the secret the agent keeps (secret/service.py:286), although
\* the report is read in another statement than the status is written by, and
\* users write the row between them.
THEOREM ActiveSecretsAreStored == Secrets!SecretsAssumption /\ Secrets!Spec => []Secrets!ActiveIsStored
<1>1. SecretsInv => Secrets!ActiveIsStored
  BY DEF SecretsInv, Secrets!TypeOK, RowInv, Secrets!ActiveIsStored, Shows, Alike
<1>. QED
  BY <1>1, SecretsInvHolds, PTL

\* A password that is in use changes only when another length is asked for
\* (agent/universal/drivers/secret/).
THEOREM SecretsAreKept == Secrets!SecretsAssumption /\ Secrets!Spec => Secrets!SecretIsKept
<1>. SUFFICES ASSUME Secrets!SecretsAssumption PROVE Secrets!Spec => Secrets!SecretIsKept
  OBVIOUS
<1>1. SecretsInv /\ [Secrets!Next]_Secrets!vars =>
        [store # None /\ store' \notin {None, store} /\ store'.value # store.value =>
           row = None \/ row.wish.form # store.wish.form \/ res.wish # row.wish \/ overtaken]_Secrets!vars
  <2>. SUFFICES ASSUME SecretsInv, Secrets!Next, store # None, store' \notin {None, store},
                       store'.value # store.value
                PROVE  row = None \/ row.wish.form # store.wish.form \/ res.wish # row.wish
    OBVIOUS
  <2>1. store' # store
    OBVIOUS
  <2>2. Secrets!Apply \/ Secrets!Expire
    <3>1. ASSUME NEW wish, Secrets!CreateSecret(wish) \/ Secrets!UpdateSecret(wish) \/ Secrets!DeleteSecret
          PROVE  store' = store
      BY Zenon, <3>1 DEF Secrets!CreateSecret, Secrets!UpdateSecret, Secrets!DeleteSecret, Secrets!Request,
         Secrets!agent
    <3>2. Secrets!Rollback \/ Secrets!Begin \/ Secrets!ActualizeNew \/ Secrets!ActualizeChanged => store' = store
      BY Zenon DEF Secrets!Rollback, Secrets!Begin, Secrets!ActualizeNew, Secrets!ActualizeChanged, Secrets!agent
    <3>3. Secrets!ActualizeOutdated \/ Secrets!Commit \/ Secrets!Report => store' = store
      BY Zenon DEF Secrets!ActualizeOutdated, Secrets!Commit, Secrets!Report, Secrets!agent
    <3>. QED
      BY <2>1, <3>1, <3>2, <3>3 DEF Secrets!Next, Secrets!Service, Secrets!Agent
  <2>3. ~Secrets!Expire
    BY DEF Secrets!Expire, SecretsInv, Secrets!TypeOK, Secrets!Stored
  <2>4. Secrets!Update
    BY <2>2, <2>3 DEF Secrets!Apply, Secrets!Create, Secrets!Delete
  <2>. QED
    BY <2>4 DEF Secrets!Update, Secrets!Regenerates
<1>. QED
  BY <1>1, SecretsInvHolds, PTL DEF Secrets!Spec, Secrets!SecretIsKept

-----------------------------------------------------------------------------
(* A machine.  It boots from its disk when the builder has seen FLASHED,   *)
(* which must have been said of the image the target names.  It is, while  *)
(* no change reaches the machine in the middle of its installation.        *)

\* Types, and what an image that is being written looks like.
TypeInv ==
    /\ MachineLife!TypeOK /\ data \in Images \union {None}
    /\ vm # None => hyper # None
    /\ os = "flashing" => disk \in {<<i>> : i \in Images}

\* Nothing is on a disk or reported before the first target.
StartInv ==
    /\ vm = None => os = "off"
    /\ turn # "pools" \/ nres # None => hyper # None
    /\ hyper = None => disk = None /\ guestrep = None /\ data = None /\ ~machine.changed

\* The target follows the row of the machine.
RowsInv ==
    hyper # None => machine.image = hyper.image /\ (machine.changed \/ machine.size = hyper.size)

\* The flashing system runs in a domain of the boot network, the guest has
\* reported what is on the disk, and a domain that runs from its disk goes to
\* the boot network for another image only.
GuestInv ==
    /\ os \in {"flashing", "flashed"} => vm # None /\ vm.boot = "network"
    /\ disk \in Images => guestrep # None /\ guestrep.image = disk
    /\ hyper # None /\ hyper.boot = "network" /\ vm # None /\ vm.boot = "hd0" /\ disk \in Images
          => hyper.image # disk

\* Until another image is asked for, all say that the machine keeps the one that ran.
KeptInv ==
    data # None /\ ~other =>
        /\ disk = data /\ node.image = data /\ vol = data /\ mvol = data
        /\ hyper # None /\ hyper.image = data /\ hyper.boot = "hd0"
        /\ vm # None => vm.boot = "hd0"

\* While the target says network: the old domain runs until it goes, and FLASHED is
\* said of the image of the target.
NetworkInv ==
    hyper # None /\ hyper.boot = "network" =>
        /\ vm # None /\ vm # hyper => vm.boot = "hd0" /\ disk \in Images /\ guestrep.boot = "hd0"
        /\ os = "flashing" => vm = hyper /\ disk = <<hyper.image>>
        /\ os = "flashed" => vm = hyper /\ disk = hyper.image
        /\ guestrep # None /\ guestrep.boot = "network" => vm = hyper /\ os = "flashed"

\* Once the target says hd0 the disk holds its image and is not written again.
DiskInv ==
    hyper # None /\ hyper.boot = "hd0" =>
        /\ disk = hyper.image
        /\ os # "flashing"
        /\ vm # None /\ vm.boot = "network" => os = "flashed" /\ guestrep.boot = "network"

InstallInv == ~disturbed => NetworkInv /\ DiskInv

MachineInv == TypeInv /\ StartInv /\ RowsInv /\ GuestInv /\ KeptInv /\ InstallInv

LEMMA BuildMachineIs ==
    ASSUME MachineLife!MachineAssumption, TypeInv, RowsInv, MachineLife!BuildMachine
    PROVE  LET rebuilt == hyper = None \/ machine.changed
               image == IF rebuilt THEN mvol ELSE machine.image
               chosen == IF hyper = None THEN "network"
                         ELSE IF ~machine.changed THEN hyper.boot
                         ELSE IF guestrep # None /\ guestrep.image # mvol THEN "network" ELSE "hd0"
               size == IF rebuilt \/ MachineLife!Switched THEN machine.size ELSE hyper.size
               boot == IF MachineLife!Switched THEN "hd0" ELSE chosen
           IN  /\ hyper' = [image |-> image, size |-> size, boot |-> boot]
               /\ guest' = [image |-> image, boot |-> boot]
               /\ machine'.image = image /\ machine'.size = machine.size
               /\ ~machine'.changed
               /\ machine' \in MachineLife!Machine /\ hyper' \in MachineLife!Domain
               /\ guest' \in [image : Images, boot : MachineLife!Boot]
               /\ hyper' # None /\ guest' # None
               /\ turn' = "nodes"
               /\ disturbed' = (disturbed \/ (machine.changed /\ MachineLife!Installing))
               /\ missed' \in BOOLEAN
               /\ UNCHANGED <<node, vol, mvol, nres, vres, vm, disk, os, poolrep,
                              guestrep, events, data, other>>
<1>. DEFINE rebuilt == hyper = None \/ machine.changed
            image == IF rebuilt THEN mvol ELSE machine.image
            boot == IF hyper = None THEN MachineLife!BootToCreate
                    ELSE IF machine.changed THEN MachineLife!BootToUpdate(guestrep, mvol)
                    ELSE hyper.boot
            size == IF rebuilt \/ MachineLife!Switched THEN machine.size ELSE hyper.size
            st == IF MachineLife!Outdated THEN MachineLife!Status ELSE machine.status
<1>1. /\ hyper' = [image |-> image, size |-> size, boot |-> IF MachineLife!Switched THEN "hd0" ELSE boot]
      /\ guest' = [image |-> image, boot |-> IF MachineLife!Switched THEN "hd0" ELSE boot]
      /\ machine' = [machine EXCEPT !.image = image, !.changed = FALSE,
                              !.status = IF MachineLife!Outdated THEN MachineLife!Status ELSE @]
      /\ turn' = "nodes"
      /\ disturbed' = (disturbed \/ (machine.changed /\ MachineLife!Installing))
      /\ missed' = (missed \/ (machine.changed /\ (mvol # nres.image \/ hyper' = poolrep)))
      /\ UNCHANGED <<node, vol, mvol, nres, vres, vm, disk, os, poolrep, guestrep,
                     events, data, other>>
  BY Zenon DEF MachineLife!BuildMachine, MachineLife!Built, MachineLife!host
<1>2. boot = IF hyper = None THEN "network"
             ELSE IF ~machine.changed THEN hyper.boot
             ELSE IF guestrep # None /\ guestrep.image # mvol THEN "network" ELSE "hd0"
  BY DEF MachineLife!BootToCreate, MachineLife!BootToUpdate
<1>3. machine \in MachineLife!Machine /\ mvol \in Images /\ (hyper # None => hyper \in MachineLife!Domain)
  BY DEF TypeInv, MachineLife!TypeOK
<1>4. MachineLife!Status \in {"NEW", "IN_PROGRESS", "ACTIVE"}
  BY <1>3 DEF MachineLife!Status, MachineLife!Machine
<1>9. missed' \in BOOLEAN
  BY <1>1, Zenon
<1>. HIDE DEF boot
<1>5. image \in Images /\ size \in MachineLife!Sizes /\ boot \in MachineLife!Boot
  BY <1>2, <1>3 DEF RowsInv, MachineLife!Machine, MachineLife!Domain, MachineLife!Boot
<1>. HIDE DEF rebuilt, image, size
<1>6. machine'.image = image /\ machine'.size = machine.size /\ ~machine'.changed /\ machine' \in MachineLife!Machine
  BY <1>1, <1>3, <1>4, <1>5 DEF MachineLife!Machine
<1>7. hyper' \in MachineLife!Domain /\ guest' \in [image : Images, boot : MachineLife!Boot]
  BY <1>1, <1>5 DEF MachineLife!Domain, MachineLife!Boot
<1>8. hyper' # None /\ guest' # None
  BY <1>7 DEF MachineLife!MachineAssumption
<1>. QED
  BY <1>1, <1>2, <1>6, <1>7, <1>8, <1>9 DEF rebuilt, image, size

LEMMA InitMachineInv == MachineLife!MachineAssumption /\ MachineLife!Init => MachineInv
<1>. SUFFICES ASSUME MachineLife!MachineAssumption, MachineLife!Init PROVE MachineInv
  OBVIOUS
<1>1. /\ node \in MachineLife!Asked /\ vol = node.image /\ mvol = vol
      /\ machine = [size |-> node.size, image |-> None, changed |-> FALSE, status |-> "NEW"]
      /\ nres = None /\ vres = None /\ hyper = None /\ guest = None
      /\ vm = None /\ disk = None /\ os = "off"
      /\ poolrep = None /\ guestrep = None
      /\ turn = "pools" /\ events = 0 /\ data = None
      /\ other = FALSE /\ disturbed = FALSE /\ missed = FALSE
  BY DEF MachineLife!Init
<1>2. MachineLife!TypeOK
  <2>1. vol \in Images /\ machine \in MachineLife!Machine /\ events \in 0 .. MaxMachineEvents
    BY <1>1 DEF MachineLife!Machine, MachineLife!Asked, MachineLife!MachineAssumption
  <2>. QED
    BY <1>1, <2>1, Zenon DEF MachineLife!TypeOK
<1>3. TypeInv /\ StartInv /\ RowsInv /\ KeptInv
  BY <1>1, <1>2 DEF TypeInv, StartInv, RowsInv, KeptInv
<1>4. GuestInv /\ InstallInv
  BY <1>1 DEF MachineLife!MachineAssumption, GuestInv, InstallInv, NetworkInv, DiskInv
<1>. QED
  BY <1>3, <1>4 DEF MachineInv

LEMMA TypeInvKept ==
    ASSUME MachineLife!MachineAssumption, TypeInv, RowsInv, [MachineLife!Next]_MachineLife!vars
    PROVE  TypeInv'
<1>0. MachineLife!TypeOK
  BY DEF TypeInv
<1>. USE DEF MachineLife!rows, MachineLife!targets, MachineLife!host, MachineLife!history
<1>1. ASSUME NEW wish \in MachineLife!Asked, MachineLife!UpdateNode(wish) PROVE TypeInv'
  <2>1. events' \in 0 .. MaxMachineEvents
    BY <1>0, <1>1 DEF MachineLife!UpdateNode, MachineLife!TypeOK, MachineLife!MachineAssumption
  <2>2. other' \in BOOLEAN
    BY <1>1, Zenon DEF MachineLife!UpdateNode
  <2>. QED
    BY <1>1, <2>1, <2>2 DEF MachineLife!UpdateNode, TypeInv, MachineLife!TypeOK
<1>2. CASE MachineLife!BuildMachine
  <2>1. /\ machine' \in MachineLife!Machine /\ hyper' \in MachineLife!Domain
        /\ guest' \in [image : Images, boot : MachineLife!Boot]
        /\ hyper' # None /\ guest' # None /\ turn' = "nodes"
        /\ [image |-> hyper'.image, boot |-> hyper'.boot] = guest'
        /\ disturbed' = (disturbed \/ (machine.changed /\ MachineLife!Installing))
        /\ missed' \in BOOLEAN
        /\ UNCHANGED <<node, vol, mvol, nres, vres, vm, disk, os, poolrep,
                       guestrep, events, data, other>>
    BY <1>2, BuildMachineIs
  <2>3. disturbed' \in BOOLEAN
    BY <2>1, Zenon
  <2>2. MachineLife!TypeOK'
    BY <1>0, <2>1, <2>3 DEF MachineLife!TypeOK
  <2>. QED
    BY <2>1, <2>2 DEF TypeInv
<1>3. CASE MachineLife!BuildNode
  <2>1. machine' \in MachineLife!Machine /\ vol' \in Images
    <3>1. machine \in MachineLife!Machine /\ node \in MachineLife!Asked /\ vol \in Images
      BY <1>0 DEF MachineLife!TypeOK
    <3>2. [machine EXCEPT !.size = node.size, !.changed = TRUE, !.status = "IN_PROGRESS"] \in MachineLife!Machine
      BY <3>1 DEF MachineLife!Machine, MachineLife!Asked
    <3>. QED
      BY <1>3, <3>1, <3>2 DEF MachineLife!BuildNode, MachineLife!Asked
  <2>2. /\ nres' = node /\ turn' = "volumes"
        /\ UNCHANGED <<node, mvol, vres, hyper, guest, vm, disk, os, poolrep,
                       guestrep, events, data, other, disturbed>>
    BY <1>3 DEF MachineLife!BuildNode
  <2>3. missed' \in BOOLEAN
    BY <1>3, Zenon DEF MachineLife!BuildNode
  <2>. QED
    BY <1>0, <2>1, <2>2, <2>3 DEF TypeInv, MachineLife!TypeOK
<1>4. CASE MachineLife!BuildVolume
  BY <1>0, <1>4 DEF MachineLife!BuildVolume, TypeInv, MachineLife!TypeOK
<1>5. CASE MachineLife!AgentIteration
  BY <1>0, <1>5 DEF MachineLife!AgentIteration, TypeInv, MachineLife!TypeOK
<1>6. CASE MachineLife!CrashInRecreate
  <2>1. events' \in 0 .. MaxMachineEvents
    BY <1>0, <1>6 DEF MachineLife!CrashInRecreate, MachineLife!TypeOK, MachineLife!MachineAssumption
  <2>. QED
    BY <1>0, <1>6, <2>1 DEF MachineLife!CrashInRecreate, TypeInv, MachineLife!TypeOK
<1>7. CASE MachineLife!Crash
  <2>1. events' \in 0 .. MaxMachineEvents
    BY <1>0, <1>7 DEF MachineLife!Crash, MachineLife!TypeOK, MachineLife!MachineAssumption
  <2>. QED
    BY <1>0, <1>7, <2>1 DEF MachineLife!Crash, TypeInv, MachineLife!TypeOK
<1>8. CASE MachineLife!Flash
  <2>1. /\ os' = "flashing" /\ disk' = <<guest.image>> /\ vm # None
        /\ UNCHANGED <<node, MachineLife!rows, MachineLife!targets, vm, poolrep, guestrep, seen, turn,
                       events, MachineLife!history>>
    BY <1>8 DEF MachineLife!Flash
  <2>2. guest.image \in Images
    BY <1>0, <2>1 DEF TypeInv, MachineLife!TypeOK
  <2>3. disk' \in {<<i>> : i \in Images} /\ disk' \notin Images
    BY <2>1, <2>2 DEF MachineLife!MachineAssumption
  <2>. QED
    BY <1>0, <2>1, <2>3 DEF TypeInv, MachineLife!TypeOK
<1>9. CASE MachineLife!FlashDone
  <2>1. PICK i \in Images : disk = <<i>>
    BY <1>9 DEF MachineLife!FlashDone, TypeInv
  <2>2. /\ os' = "flashed" /\ disk' = i
        /\ guestrep' = [image |-> i, boot |-> "network", status |-> "FLASHED"]
        /\ UNCHANGED <<node, MachineLife!rows, MachineLife!targets, vm, poolrep, seen, turn, events,
                       MachineLife!history>>
    BY <1>9, <2>1 DEF MachineLife!FlashDone
  <2>3. guestrep' \in MachineLife!Report
    BY <2>2 DEF MachineLife!Report, MachineLife!Boot
  <2>. QED
    BY <1>0, <2>2, <2>3 DEF TypeInv, MachineLife!TypeOK
<1>10. CASE MachineLife!BootDisk
  <2>1. guestrep' \in MachineLife!Report /\ data' \in Images
    BY <1>10 DEF MachineLife!BootDisk, MachineLife!Report, MachineLife!Boot
  <2>2. os' = "running" /\ UNCHANGED <<node, MachineLife!rows, MachineLife!targets, vm, disk, poolrep,
                                       seen, turn, events, disturbed, missed>>
    BY <1>10 DEF MachineLife!BootDisk
  <2>3. other' \in BOOLEAN
    BY <1>10, Zenon DEF MachineLife!BootDisk
  <2>. QED
    BY <1>0, <2>1, <2>2, <2>3 DEF TypeInv, MachineLife!TypeOK
<1>11. CASE UNCHANGED MachineLife!vars
  BY <1>0, <1>11 DEF MachineLife!vars, TypeInv, MachineLife!TypeOK
<1>. QED
  BY <1>1, <1>2, <1>3, <1>4, <1>5, <1>6, <1>7, <1>8, <1>9, <1>10, <1>11 DEF MachineLife!Next,
     MachineLife!Process, MachineLife!Guest

LEMMA EarlyInvKept ==
    ASSUME MachineLife!MachineAssumption, TypeInv, StartInv, RowsInv, [MachineLife!Next]_MachineLife!vars
    PROVE  StartInv' /\ RowsInv'
<1>0. MachineLife!TypeOK
  BY DEF TypeInv
<1>. USE DEF MachineLife!rows, MachineLife!targets, MachineLife!host, MachineLife!history
<1>1. CASE MachineLife!BuildMachine
  <2>1. PICK image, size, boot :
            /\ (MachineLife!Switched \/ machine.changed \/ hyper = None => size = machine.size)
            /\ (~MachineLife!Switched /\ ~machine.changed /\ hyper # None => size = hyper.size)
            /\ hyper' = [image |-> image, size |-> size, boot |-> boot]
            /\ machine'.image = image /\ machine'.size = machine.size /\ ~machine'.changed
            /\ guest' # None /\ hyper' # None
            /\ UNCHANGED <<vm, os>>
    BY <1>1, BuildMachineIs
  <2>2. RowsInv'
    BY <2>1 DEF RowsInv
  <2>3. StartInv'
    BY <2>1 DEF StartInv
  <2>. QED
    BY <2>2, <2>3
<1>2. CASE MachineLife!BuildNode
  <2>1. machine \in MachineLife!Machine /\ node \in MachineLife!Asked
    BY <1>0 DEF MachineLife!TypeOK
  <2>2. LET m == [machine EXCEPT !.size = node.size, !.changed = TRUE, !.status = "IN_PROGRESS"]
        IN  m.image = machine.image /\ m.changed
    BY <2>1 DEF MachineLife!Machine
  <2>3. /\ machine'.image = machine.image
        /\ machine' = machine \/ machine'.changed
        /\ turn = "nodes" /\ UNCHANGED <<hyper, guest, vm, disk, os, poolrep, guestrep,
                                         data>>
    BY <1>2, <2>2 DEF MachineLife!BuildNode
  <2>. QED
    BY <2>3 DEF StartInv, RowsInv
<1>3. ASSUME NEW wish \in MachineLife!Asked, MachineLife!UpdateNode(wish) PROVE StartInv' /\ RowsInv'
  BY <1>3 DEF MachineLife!UpdateNode, StartInv, RowsInv
<1>4. CASE MachineLife!BuildVolume
  BY <1>4 DEF MachineLife!BuildVolume, StartInv, RowsInv
<1>5. CASE MachineLife!AgentIteration
  BY <1>5 DEF MachineLife!AgentIteration, StartInv, RowsInv
<1>6. CASE MachineLife!Crash \/ MachineLife!CrashInRecreate
  BY <1>6 DEF MachineLife!Crash, MachineLife!CrashInRecreate, StartInv, RowsInv
<1>7. CASE MachineLife!Guest
  BY <1>7 DEF MachineLife!Guest, MachineLife!Flash, MachineLife!FlashDone, MachineLife!BootDisk, StartInv, RowsInv, TypeInv
<1>8. CASE UNCHANGED MachineLife!vars
  BY <1>8 DEF MachineLife!vars, StartInv, RowsInv
<1>. QED
  BY <1>1, <1>2, <1>3, <1>4, <1>5, <1>6, <1>7, <1>8 DEF MachineLife!Next, MachineLife!Process

\* The parts that no user can break, and the one about installations.
RestInv == GuestInv /\ KeptInv /\ InstallInv

\* What the types say of the values that are compared.
LEMMA WhatIsCompared ==
    ASSUME MachineLife!MachineAssumption, TypeInv
    PROVE  /\ node \in MachineLife!Asked /\ vol \in Images /\ mvol \in Images /\ machine \in MachineLife!Machine
           /\ hyper # None => hyper \in MachineLife!Domain /\ guest # None /\ guest.image = hyper.image /\ guest.boot = hyper.boot
           /\ vm # None => vm \in MachineLife!Domain /\ hyper # None
           /\ guestrep # None => guestrep \in MachineLife!Report
           /\ \A i \in Images : i # None
BY DEF TypeInv, MachineLife!TypeOK, MachineLife!MachineAssumption, MachineLife!Domain

LEMMA UpdateNodeKeeps ==
    ASSUME MachineLife!MachineAssumption, MachineInv, NEW wish \in MachineLife!Asked, MachineLife!UpdateNode(wish)
    PROVE  RestInv'
<1>. USE DEF MachineLife!rows, MachineLife!targets, MachineLife!host
<1>0. GuestInv /\ KeptInv /\ InstallInv
  BY DEF MachineInv
<1>1. /\ node' = wish /\ other' = (other \/ wish.image # data)
      /\ UNCHANGED <<vol, mvol, machine, nres, vres, hyper, guest, vm, disk, os,
                     poolrep, guestrep, data, disturbed>>
  BY DEF MachineLife!UpdateNode
<1>2. GuestInv' /\ InstallInv'
  BY <1>0, <1>1 DEF GuestInv, InstallInv, NetworkInv, DiskInv
<1>3. ~other' => ~other /\ wish.image = data
  BY <1>1, Zenon
<1>4. KeptInv'
  BY <1>0, <1>1, <1>3 DEF KeptInv
<1>. QED
  BY <1>2, <1>4 DEF RestInv

LEMMA BuildMachineKeeps ==
    ASSUME MachineLife!MachineAssumption, MachineInv, MachineLife!BuildMachine
    PROVE  RestInv'
<1>0. TypeInv /\ StartInv /\ RowsInv /\ GuestInv /\ KeptInv /\ InstallInv
  BY DEF MachineInv
<1>. DEFINE rebuilt == hyper = None \/ machine.changed
            image == IF rebuilt THEN mvol ELSE machine.image
            chosen == IF hyper = None THEN "network"
                      ELSE IF ~machine.changed THEN hyper.boot
                      ELSE IF guestrep # None /\ guestrep.image # mvol THEN "network" ELSE "hd0"
            size == IF rebuilt \/ MachineLife!Switched THEN machine.size ELSE hyper.size
            boot == IF MachineLife!Switched THEN "hd0" ELSE chosen
<1>1. /\ hyper' = [image |-> image, size |-> size, boot |-> boot]
      /\ hyper' # None /\ hyper' \in MachineLife!Domain
      /\ disturbed' = (disturbed \/ (machine.changed /\ MachineLife!Installing))
      /\ UNCHANGED <<node, vol, mvol, nres, vres, vm, disk, os, poolrep, guestrep,
                     events, data, other>>
  BY <1>0, BuildMachineIs
<1>2. MachineLife!Switched => hyper # None /\ guestrep # None /\ guestrep.boot = "network"
  BY DEF MachineLife!Switched, MachineLife!Outdated, MachineLife!Flashed
<1>3. ~disturbed' => ~disturbed /\ ~(machine.changed /\ MachineLife!Installing)
  BY <1>1, Zenon
<1>. HIDE DEF rebuilt, image, chosen, size, boot
<1>4. CASE hyper = None
  <2>1. hyper'.image = mvol /\ hyper'.boot = "network"
    BY <1>1, <1>2, <1>4 DEF rebuilt, image, boot, chosen
  <2>2. vm = None /\ data = None /\ os = "off" /\ guestrep = None
    BY <1>0, <1>4 DEF StartInv, TypeInv
  <2>. QED
    BY <1>0, <1>1, <2>1, <2>2 DEF RestInv, GuestInv, KeptInv, InstallInv, NetworkInv, DiskInv
<1>5. CASE hyper # None /\ machine.changed
  <2>1. /\ hyper'.image = mvol
        /\ hyper'.boot = IF ~MachineLife!Switched /\ guestrep # None /\ guestrep.image # mvol
                         THEN "network" ELSE "hd0"
    BY <1>1, <1>5 DEF image, rebuilt, boot, chosen
  <2>2. GuestInv'
    BY <1>0, <1>1, <2>1 DEF GuestInv
  <2>3. data # None => data \in Images
    BY <1>0 DEF TypeInv
  <2>4. KeptInv'
    BY <1>0, <1>1, <2>1, <2>3 DEF KeptInv, GuestInv
  <2>5. ASSUME ~disturbed' PROVE NetworkInv' /\ DiskInv'
    <3>1. /\ ~disturbed /\ hyper.boot # "network"
          /\ guestrep # None /\ guestrep.boot # "network"
      BY <1>3, <1>5, <2>5 DEF MachineLife!Installing
    <3>2. hyper.boot = "hd0" /\ guestrep.boot = "hd0" /\ hyper \in MachineLife!Domain
      BY <1>0, <1>5, <3>1, WhatIsCompared DEF MachineLife!Domain, MachineLife!Report, MachineLife!Boot
    <3>3. /\ disk = hyper.image /\ disk \in Images /\ os # "flashing" /\ guestrep.image = disk
          /\ vm # None => vm.boot # "network"
      BY <1>0, <1>5, <3>1, <3>2 DEF InstallInv, DiskInv, GuestInv, MachineLife!Domain
    <3>4. vm # None => vm.boot = "hd0"
      BY <1>0, <3>3, WhatIsCompared DEF MachineLife!Domain, MachineLife!Boot
    <3>5. os # "flashed"
      BY <1>0, <3>3 DEF GuestInv
    <3>. QED
      BY <1>1, <1>2, <2>1, <3>1, <3>2, <3>3, <3>4, <3>5 DEF NetworkInv, DiskInv
  <2>. QED
    BY <2>2, <2>4, <2>5 DEF RestInv, InstallInv
<1>6. CASE hyper # None /\ ~machine.changed
  <2>1. /\ hyper'.image = hyper.image
        /\ hyper'.boot = IF MachineLife!Switched THEN "hd0" ELSE hyper.boot
        /\ hyper \in MachineLife!Domain
    BY <1>0, <1>1, <1>6, WhatIsCompared DEF RowsInv, image, rebuilt, boot, chosen
  <2>2. ~MachineLife!Switched => hyper' = hyper
    BY <1>0, <1>1, <1>6, <2>1 DEF MachineLife!Domain, size, rebuilt
  <2>3. GuestInv' /\ KeptInv'
    BY <1>0, <1>1, <1>6, <2>1 DEF GuestInv, KeptInv
  <2>4. ASSUME ~disturbed' PROVE NetworkInv' /\ DiskInv'
    <3>1. ~disturbed /\ NetworkInv /\ DiskInv
      BY <1>0, <1>3, <2>4 DEF InstallInv
    <3>2. CASE ~MachineLife!Switched
      BY <1>1, <2>2, <3>1, <3>2 DEF NetworkInv, DiskInv
    <3>3. CASE MachineLife!Switched
      BY <1>1, <1>2, <1>6, <2>1, <3>1, <3>3 DEF NetworkInv, DiskInv, MachineLife!Domain, MachineLife!Boot
    <3>. QED
      BY <3>2, <3>3
  <2>. QED
    BY <2>3, <2>4 DEF RestInv, InstallInv
<1>. QED
  BY <1>4, <1>5, <1>6

\* Steps of the builders of nodes and volumes, and crashes between turns.
LEMMA CarryingKeeps ==
    ASSUME MachineInv, vol' \in {vol, node.image}, mvol' \in {mvol, vol},
           UNCHANGED <<node, hyper, guest, vm, disk, os, guestrep, data, other, disturbed>>
    PROVE  RestInv'
<1>1. GuestInv' /\ InstallInv'
  BY DEF MachineInv, GuestInv, InstallInv, NetworkInv, DiskInv
<1>2. KeptInv'
  BY DEF MachineInv, KeptInv
<1>. QED
  BY <1>1, <1>2 DEF RestInv

LEMMA PoolAgentKeeps ==
    ASSUME MachineLife!MachineAssumption, MachineInv, MachineLife!AgentIteration \/ MachineLife!CrashInRecreate
    PROVE  RestInv'
<1>. USE DEF MachineLife!rows, MachineLife!targets, MachineLife!history
<1>0. TypeInv /\ StartInv /\ GuestInv /\ KeptInv /\ InstallInv
  BY DEF MachineInv
<1>1. /\ vm' \in {hyper, None} /\ os' = IF vm' = vm THEN os ELSE "off"
      /\ vm' = None /\ hyper # None => vm # hyper
      /\ UNCHANGED <<node, vol, mvol, machine, nres, vres, hyper, guest, disk,
                     guestrep, data, other, disturbed>>
  BY <1>0 DEF MachineLife!AgentIteration, MachineLife!CrashInRecreate, MachineLife!Changed, StartInv
<1>2. GuestInv' /\ KeptInv'
  BY <1>0, <1>1 DEF GuestInv, KeptInv, StartInv
<1>3. ASSUME ~disturbed' PROVE NetworkInv' /\ DiskInv'
  BY <1>0, <1>1, <1>3 DEF InstallInv, NetworkInv, DiskInv, StartInv
<1>. QED
  BY <1>2, <1>3 DEF RestInv, InstallInv

LEMMA GuestKeeps ==
    ASSUME MachineLife!MachineAssumption, MachineInv, MachineLife!Guest
    PROVE  RestInv'
<1>. USE DEF MachineLife!rows, MachineLife!targets
<1>0. /\ TypeInv /\ StartInv /\ GuestInv /\ KeptInv /\ InstallInv
      /\ UNCHANGED <<node, vol, mvol, machine, nres, vres, hyper, guest, vm, disturbed>>
  BY DEF MachineInv, MachineLife!Guest, MachineLife!Flash, MachineLife!FlashDone, MachineLife!BootDisk, MachineLife!history
<1>2. CASE MachineLife!Flash
  <2>1. /\ vm # None /\ vm.boot = "network" /\ os' = "flashing" /\ disk' = <<guest.image>>
        /\ os = "off" \/ (os = "flashed" /\ guest.image # guestrep.image)
        /\ guestrep' = guestrep /\ data' = data /\ other' = other
    BY <1>2 DEF MachineLife!Flash, MachineLife!history
  <2>2. hyper # None /\ hyper \in MachineLife!Domain /\ guest.image = hyper.image /\ disk' \notin Images
    BY <1>0, <2>1, WhatIsCompared DEF MachineLife!Domain, MachineLife!MachineAssumption
  <2>3. GuestInv'
    BY <1>0, <2>1, <2>2 DEF GuestInv
  <2>4. KeptInv'
    BY <1>0, <2>1 DEF KeptInv
  <2>5. ASSUME ~disturbed' PROVE NetworkInv' /\ DiskInv'
    <3>1. NetworkInv /\ DiskInv
      BY <1>0, <2>5 DEF InstallInv
    <3>2. hyper.boot = "network" /\ vm = hyper /\ os = "off"
      BY <1>0, <2>1, <2>2, <3>1 DEF NetworkInv, DiskInv, GuestInv, MachineLife!Domain, MachineLife!Boot
    <3>. QED
      BY <1>0, <2>1, <2>2, <3>1, <3>2 DEF NetworkInv, DiskInv
  <2>. QED
    BY <2>3, <2>4, <2>5 DEF RestInv, InstallInv
<1>3. CASE MachineLife!FlashDone
  <2>1. /\ os = "flashing" /\ os' = "flashed" /\ disk' = disk[1]
        /\ data' = data /\ other' = other
        /\ guestrep' = [image |-> disk[1], boot |-> "network", status |-> "FLASHED"]
    BY <1>3 DEF MachineLife!FlashDone, MachineLife!history
  <2>2. PICK i \in Images : disk = <<i>>
    BY <1>0, <2>1 DEF TypeInv
  <2>3. disk \notin Images /\ disk' = i /\ guestrep' # None
    BY <2>1, <2>2 DEF MachineLife!MachineAssumption, MachineLife!Report, MachineLife!Boot
  <2>4. GuestInv'
    BY <1>0, <2>1, <2>2, <2>3 DEF GuestInv
  <2>5. KeptInv'
    BY <1>0, <2>1, <2>3 DEF KeptInv, TypeInv
  <2>6. ASSUME ~disturbed' PROVE NetworkInv' /\ DiskInv'
    <3>1. NetworkInv /\ DiskInv
      BY <1>0, <2>6 DEF InstallInv
    <3>2. hyper # None /\ hyper.boot = "network" /\ vm = hyper /\ disk = <<hyper.image>>
      BY <1>0, <2>1, <3>1, WhatIsCompared DEF GuestInv, TypeInv, NetworkInv, DiskInv, MachineLife!Domain,
         MachineLife!Boot
    <3>. QED
      BY <1>0, <2>1, <2>2, <3>1, <3>2 DEF NetworkInv, DiskInv
  <2>. QED
    BY <2>4, <2>5, <2>6 DEF RestInv, InstallInv
<1>4. CASE MachineLife!BootDisk
  <2>1. /\ vm # None /\ vm.boot = "hd0" /\ os = "off" /\ disk \in Images /\ os' = "running"
        /\ guestrep' = [image |-> disk, boot |-> "hd0", status |-> "ACTIVE"]
        /\ data' = disk /\ disk' = disk /\ other' = (MachineLife!OnTheWay # {disk})
    BY <1>4 DEF MachineLife!BootDisk
  <2>2. hyper # None /\ hyper \in MachineLife!Domain /\ guestrep' # None
    BY <1>0, <2>1, WhatIsCompared DEF MachineLife!MachineAssumption, MachineLife!Report, MachineLife!Boot
  <2>3. GuestInv'
    BY <1>0, <2>1, <2>2 DEF GuestInv
  <2>4. KeptInv'
    <3>1. ~other' => MachineLife!OnTheWay = {disk}
      BY <2>1, Zenon
    <3>2. ASSUME ~other'
          PROVE  node.image = disk /\ vol = disk /\ mvol = disk /\ hyper.image = disk
      BY <3>1, <3>2 DEF MachineLife!OnTheWay
    <3>3. ~other' => hyper.boot = "hd0"
      BY <1>0, <2>1, <2>2, <3>2 DEF GuestInv, MachineLife!Domain, MachineLife!Boot
    <3>. QED
      BY <1>0, <2>1, <2>2, <3>2, <3>3 DEF KeptInv
  <2>5. ASSUME ~disturbed' PROVE NetworkInv' /\ DiskInv'
    BY <1>0, <2>1, <2>2, <2>5 DEF InstallInv, NetworkInv, DiskInv
  <2>. QED
    BY <2>3, <2>4, <2>5 DEF RestInv, InstallInv
<1>. QED
  BY <1>2, <1>3, <1>4 DEF MachineLife!Guest

LEMMA MachineInvKept == MachineLife!MachineAssumption /\ MachineInv /\ [MachineLife!Next]_MachineLife!vars => MachineInv'
<1>. SUFFICES ASSUME MachineLife!MachineAssumption, MachineInv, [MachineLife!Next]_MachineLife!vars PROVE MachineInv'
  OBVIOUS
<1>0. TypeInv' /\ StartInv' /\ RowsInv'
  BY TypeInvKept, EarlyInvKept DEF MachineInv
<1>1. ASSUME MachineLife!Crash \/ UNCHANGED MachineLife!vars PROVE RestInv'
  <2>1. vol' = vol /\ mvol' = mvol /\ UNCHANGED <<node, hyper, guest, vm, disk, os, guestrep, data, other, disturbed>>
    BY <1>1 DEF MachineLife!Crash, MachineLife!vars, MachineLife!rows, MachineLife!targets, MachineLife!host,
       MachineLife!history
  <2>. QED
    BY <2>1, CarryingKeeps
<1>2. ASSUME NEW wish \in MachineLife!Asked, MachineLife!UpdateNode(wish) PROVE RestInv'
  BY <1>2, UpdateNodeKeeps
<1>3. ASSUME MachineLife!BuildNode \/ MachineLife!BuildVolume PROVE RestInv'
  <2>1. vol' \in {vol, node.image} /\ mvol' \in {mvol, vol}
        /\ UNCHANGED <<node, hyper, guest, vm, disk, os, guestrep, data, other, disturbed>>
    BY <1>3 DEF MachineLife!BuildNode, MachineLife!BuildVolume, MachineLife!host, MachineLife!history
  <2>. QED
    BY <2>1, CarryingKeeps
<1>4. ASSUME MachineLife!BuildMachine \/ MachineLife!AgentIteration \/ MachineLife!CrashInRecreate \/ MachineLife!Guest
      PROVE  RestInv'
  BY <1>4, BuildMachineKeeps, PoolAgentKeeps, GuestKeeps
<1>. QED
  BY <1>0, <1>1, <1>2, <1>3, <1>4 DEF MachineLife!Next, MachineLife!Process, MachineInv, RestInv

LEMMA MachineInvHolds == MachineLife!MachineAssumption /\ MachineLife!Spec => []MachineInv
<1>. SUFFICES ASSUME MachineLife!MachineAssumption PROVE MachineLife!Spec => []MachineInv
  OBVIOUS
<1>1. MachineLife!Init => MachineInv
  BY InitMachineInv
<1>2. MachineInv /\ [MachineLife!Next]_MachineLife!vars => MachineInv'
  BY MachineInvKept
<1>. QED
  BY <1>1, <1>2, PTL DEF MachineLife!Spec

\* Rows, targets and reports of a machine are well formed, its two targets agree,
\* and what is being flashed is no bootable image.
THEOREM MachineTypes == MachineLife!MachineAssumption /\ MachineLife!Spec => []MachineLife!TypeOK
<1>1. MachineInv => MachineLife!TypeOK
  BY DEF MachineInv, TypeInv
<1>. QED
  BY <1>1, MachineInvHolds, PTL

\* A machine that no change reached in the middle of its installation boots from its
\* disk only when a whole image is on it (builders/pool.py:255), however often and
\* however early its user changes the node otherwise.
THEOREM MachinesAreInstalledThenBooted == MachineLife!MachineAssumption /\ MachineLife!Spec => []MachineLife!InstalledThenBooted
<1>. SUFFICES ASSUME MachineLife!MachineAssumption PROVE MachineLife!Spec => []MachineLife!InstalledThenBooted
  OBVIOUS
<1>1. MachineInv => MachineLife!InstalledThenBooted
  <2>. SUFFICES ASSUME MachineInv, ~disturbed, vm # None, vm.boot = "hd0" PROVE disk \in Images
    BY DEF MachineLife!InstalledThenBooted, MachineLife!BootsWhatIsThere
  <2>1. hyper # None /\ hyper \in MachineLife!Domain
    BY WhatIsCompared DEF MachineInv
  <2>. QED
    BY <2>1 DEF MachineInv, InstallInv, NetworkInv, DiskInv, MachineLife!Domain, MachineLife!Boot
<1>. QED
  BY <1>1, MachineInvHolds, PTL

\* A disk that a system has run from is written again only when another image was
\* asked for since it started, or was on its way then.
THEOREM DataAreKept == MachineLife!MachineAssumption /\ MachineLife!Spec => MachineLife!DataIsKept
<1>. SUFFICES ASSUME MachineLife!MachineAssumption PROVE MachineLife!Spec => MachineLife!DataIsKept
  OBVIOUS
<1>1. MachineInv /\ [MachineLife!Next]_MachineLife!vars =>
        [data # None /\ disk' # disk => other]_MachineLife!vars
  <2>. SUFFICES ASSUME MachineInv, MachineLife!Next, data # None, disk' # disk
                PROVE  other
    OBVIOUS
  <2>1. MachineLife!Flash \/ MachineLife!FlashDone
    <3>1. ASSUME NEW wish, MachineLife!UpdateNode(wish) PROVE disk' = disk
      BY <3>1 DEF MachineLife!UpdateNode, MachineLife!host
    <3>2. MachineLife!BuildMachine \/ MachineLife!BuildNode \/ MachineLife!BuildVolume \/ MachineLife!AgentIteration => disk' = disk
      BY Zenon DEF MachineLife!BuildMachine, MachineLife!BuildNode, MachineLife!BuildVolume, MachineLife!AgentIteration, MachineLife!host
    <3>3. MachineLife!Crash \/ MachineLife!CrashInRecreate \/ MachineLife!BootDisk => disk' = disk
      BY Zenon DEF MachineLife!Crash, MachineLife!CrashInRecreate, MachineLife!BootDisk, MachineLife!host
    <3>. QED
      BY <3>1, <3>2, <3>3 DEF MachineLife!Next, MachineLife!Process, MachineLife!Guest
  <2>2. CASE MachineLife!Flash
    BY <2>2 DEF MachineLife!Flash, MachineInv, KeptInv
  <2>3. CASE MachineLife!FlashDone
    BY <2>3 DEF MachineLife!FlashDone, MachineInv, TypeInv, KeptInv, MachineLife!MachineAssumption
  <2>. QED
    BY <2>1, <2>2, <2>3
<1>. QED
  BY <1>1, MachineInvHolds, PTL DEF MachineLife!Spec, MachineLife!DataIsKept

-----------------------------------------------------------------------------
\* In Services the volumes are as they are by themselves.
LEMMA ServicesRunVolumes == Spec => Volumes!Spec
<1>1. Init => Volumes!Init
  BY DEF Init
<1>2. [Next]_vars => [Volumes!Next]_Volumes!vars
  BY Zenon DEF Next, vars, volumes, Volumes!users, Volumes!targets, Volumes!host, Volumes!vars
<1>. QED
  BY <1>1, <1>2, PTL DEF Spec, Volumes!Spec

\* A disk lives as long as its volume (run services).
COROLLARY DiskIsKeptHolds == Spec => DiskIsKept
BY DisksAreKept, ServicesRunVolumes, ConstantsAssumption, PTL DEF ConstantsAssumption, DiskIsKept

\* In Services the secrets are as they are by themselves.
LEMMA ServicesRunSecrets == Spec => Secrets!Spec
<1>1. Init => Secrets!Init
  BY DEF Init
<1>2. [Next]_vars => [Secrets!Next]_Secrets!vars
  BY Zenon DEF Next, vars, secrets, Secrets!db, Secrets!agent, Secrets!iter, Secrets!vars
<1>. QED
  BY <1>1, <1>2, PTL DEF Spec, Secrets!Spec

\* An ACTIVE row shows what the agent stores (run services).
COROLLARY ActiveIsStoredHolds == Spec => []ActiveIsStored
<1>1. Secrets!ActiveIsStored => ActiveIsStored
  BY DEF ActiveIsStored
<1>. QED
  BY <1>1, ActiveSecretsAreStored, ServicesRunSecrets, ConstantsAssumption, PTL DEF ConstantsAssumption

\* A secret changes only when its user has asked for another (run services).
COROLLARY SecretIsKeptHolds == Spec => SecretIsKept
BY SecretsAreKept, ServicesRunSecrets, ConstantsAssumption, PTL DEF ConstantsAssumption, SecretIsKept

\* In Services the machines are as they are by themselves.
LEMMA ServicesRunMachineLife == Spec => MachineLife!Spec
<1>1. Init => MachineLife!Init
  BY DEF Init
<1>2. [Next]_vars => [MachineLife!Next]_MachineLife!vars
  BY Zenon DEF Next, vars, machines, MachineLife!rows, MachineLife!targets, MachineLife!host, MachineLife!history, MachineLife!vars
<1>. QED
  BY <1>1, <1>2, PTL DEF Spec, MachineLife!Spec

\* Unless it was changed while it was installed, a machine boots from its disk only
\* when a whole image is on it (run services).
COROLLARY InstalledThenBootedHolds == Spec => []InstalledThenBooted
<1>1. MachineLife!InstalledThenBooted => InstalledThenBooted
  BY DEF InstalledThenBooted
<1>. QED
  BY <1>1, MachinesAreInstalledThenBooted, ServicesRunMachineLife, ConstantsAssumption, PTL DEF ConstantsAssumption

\* A disk a system runs from is wiped only for another image (run services).
COROLLARY DataIsKeptHolds == Spec => DataIsKept
BY DataAreKept, ServicesRunMachineLife, ConstantsAssumption, PTL DEF ConstantsAssumption, DataIsKept
=============================================================================
