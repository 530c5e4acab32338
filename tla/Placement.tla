----------------------------- MODULE Placement -----------------------------
(***************************************************************************)
(* Placement of virtual machines: the scheduler chooses a pool for every   *)
(* node (compute/scheduler/service.py), the pool builder checks the        *)
(* capacity again and writes target resources (compute/builders/pool.py),  *)
(* the pool agent checks it a third time against the hypervisor            *)
(* (compute/agents/universal/drivers/pool.py), and what the agent reports  *)
(* becomes the availability the scheduler reads an iteration later.        *)
(*                                                                         *)
(* All of them run one after another in one process (gservice/service.py), *)
(* the variable `turn`; users act between any two steps and the process    *)
(* may crash between any two.  A node has one disk, of size 1, its root.   *)
(***************************************************************************)
EXTENDS Naturals, FiniteSets, FiniteSetsExt

CONSTANTS
    Nodes,
    Mates,         \* nodes that share an anti-affinity policy
    Pools,         \* hypervisors
    Caps,          \* what the hypervisors may have: pool -> [cores, store]
    MaxCores,      \* bound: size of a node
    NoRow,
    MaxEvents      \* bound: requests of users and crashes

ASSUME PlacementAssumption ==
    /\ Mates \subseteq Nodes
    /\ IsFiniteSet(Nodes) /\ IsFiniteSet(Pools)
    /\ Caps \subseteq [Pools -> [cores : Nat, store : Nat]]
    /\ MaxCores \in Nat /\ MaxEvents \in Nat

VARIABLES
    cap,           \* capacity of the hypervisors, fixed
    cores,         \* table nodes: the size asked for; 0 before creation
    gone,          \* nodes deleted
    port,          \* nodes whose port is ACTIVE
    machine, vol,  \* tables machines and compute_machine_volumes
    managed,       \* pools the scheduler gave a builder and an agent
    row,           \* availability in the row of a pool
    rep            \* availability the agent last reported

VARIABLES
    nres, mres, vres,  \* target resources of nodes, machines and volumes
    dpm, dpv           \* hypervisors: cores of each domain, disks

VARIABLES
    turn,          \* the service that is running
    todo,          \* what its loop has still to handle
    free,          \* its availability in memory
    got, placed,   \* scheduler: nodes as read, machines it inserted
    aborted,       \* scheduler: a statement failed in this transaction
    events

asked == <<cores, gone>>
rows == <<port, machine, vol, managed, row>>
targets == <<nres, mres, vres>>
host == <<cap, dpm, dpv, rep>>
locals == <<todo, free, got, placed, aborted>>
vars == <<asked, rows, targets, host, turn, locals, events>>

Live == {n \in Nodes : cores[n] > 0} \ gone
Used(p) == MapThenSumSet(LAMBDA n : dpm[p][n], Nodes)
Fresh(p) == [cores |-> cap[p].cores - Used(p),
             store |-> cap[p].store - Cardinality(dpv[p])]
Empty == [n \in {} |-> 0]
\* The function f with the values of g for the members of S.
Update(f, S, g(_)) == [n \in DOMAIN f \union S |-> IF n \in S THEN g(n) ELSE f[n]]
Restricted(f, S) == [n \in DOMAIN f \intersect S |-> f[n]]

Place == [pool : Pools, cores : 1 .. MaxCores]
Disk == [pool : Pools, attached : BOOLEAN]
Avail == [cores : Nat, store : Nat]

\* NoRow is no row, no report and no pool.
ASSUME NoRowAssumption ==
    NoRow \notin Place /\ NoRow \notin Disk /\ NoRow \notin Avail /\ NoRow \notin Pools

Turns == {"schedule", "placing", "network", "pools", "volumes", "machines",
          "nodes", "agent", "agent_volumes", "agent_machines"}

PartialFunction(f, S, T) == DOMAIN f \subseteq S /\ f \in [DOMAIN f -> T]

TypeOK ==
    /\ cap \in Caps
    /\ cores \in [Nodes -> 0 .. MaxCores]
    /\ gone \subseteq Nodes /\ port \subseteq Nodes
    /\ machine \in [Nodes -> Place \union {NoRow}]
    /\ vol \in [Nodes -> Disk \union {NoRow}]
    /\ managed \subseteq Pools
    /\ row \in [Pools -> Avail \union {NoRow}]
    /\ rep \in [Pools -> Avail \union {NoRow}]
    /\ PartialFunction(nres, Nodes, 1 .. MaxCores)
    /\ PartialFunction(mres, Nodes, Place)
    /\ PartialFunction(vres, Nodes, Disk)
    /\ dpm \in [Pools -> [Nodes -> 0 .. MaxCores]]
    /\ dpv \in [Pools -> SUBSET Nodes]
    /\ turn \in Turns
    /\ todo \subseteq Nodes
    /\ PartialFunction(free, Pools, Avail)
    /\ PartialFunction(got, Nodes, 1 .. MaxCores)
    /\ PartialFunction(placed, Nodes, Place)
    /\ aborted \in BOOLEAN
    /\ events \in 0 .. MaxEvents

Init ==
    /\ cap \in Caps
    /\ cores = [n \in Nodes |-> 0]
    /\ gone = {} /\ port = {}
    /\ machine = [n \in Nodes |-> NoRow]
    /\ vol = [n \in Nodes |-> NoRow]
    /\ managed = {}
    /\ row = [p \in Pools |-> NoRow] /\ rep = row
    /\ nres = Empty /\ mres = Empty /\ vres = Empty
    /\ dpm = [p \in Pools |-> [n \in Nodes |-> 0]]
    /\ dpv = [p \in Pools |-> {}]
    /\ turn = "schedule"
    /\ todo = {} /\ free = Empty /\ got = Empty /\ placed = Empty
    /\ aborted = FALSE
    /\ events = 0

-----------------------------------------------------------------------------
(* Users.  The scheduler writes the row of a node it places, so requests   *)
(* about that node wait for its transaction.                               *)

Tick == events < MaxEvents /\ events' = events + 1

CreateNode(n, c) ==
    /\ Tick
    /\ cores[n] = 0
    /\ cores' = [cores EXCEPT ![n] = c]
    /\ UNCHANGED <<gone, rows, targets, host, turn, locals>>

ResizeNode(n, c) ==
    /\ Tick
    /\ n \in Live \ DOMAIN placed
    /\ cores[n] # c
    /\ cores' = [cores EXCEPT ![n] = c]
    /\ UNCHANGED <<gone, rows, targets, host, turn, locals>>

\* The machine, the volumes and the port of the node go with it.
DeleteNode(n) ==
    /\ Tick
    /\ n \in Live \ DOMAIN placed
    /\ gone' = gone \union {n}
    /\ port' = port \ {n}
    /\ machine' = [machine EXCEPT ![n] = NoRow]
    /\ vol' = [vol EXCEPT ![n] = NoRow]
    /\ UNCHANGED <<cores, managed, row, targets, host, turn, locals>>

-----------------------------------------------------------------------------
(* The scheduler: one transaction per iteration.                            *)

Unscheduled == {n \in Live : machine[n] = NoRow}

\* Pools that were reported, with their availability as of that report.
ScheduleBegin ==
    /\ turn = "schedule"
    /\ turn' = "placing"
    /\ todo' = Unscheduled
    /\ got' = Restricted(cores, Unscheduled)
    /\ free' = Restricted(row, {p \in managed : row[p] # NoRow})
    /\ placed' = Empty
    /\ aborted' = FALSE
    /\ UNCHANGED <<asked, rows, targets, host, events>>

PoolOf(n) == IF n \in DOMAIN placed THEN placed[n].pool
             ELSE IF machine[n] # NoRow THEN machine[n].pool ELSE NoRow

\* Mutant of Apart: the filter sees only machines of earlier iterations.
ApartFromCommitted(n, pools) ==
    LET taken == {machine[m].pool : m \in {k \in Mates \ {n} : machine[k] # NoRow}}
    IN  IF n \notin Mates \/ pools \subseteq taken THEN pools ELSE pools \ taken

\* Soft anti-affinity: pools without a machine of a mate, if any is left.
Apart(n, pools) ==
    LET taken == {PoolOf(m) : m \in Mates \ {n}}
    IN  IF n \notin Mates \/ pools \subseteq taken THEN pools ELSE pools \ taken

\* Mutant of Suitable: the filter for capacity is left out.
AnyPool(n) == Apart(n, DOMAIN free)

Suitable(n) == Apart(n, {p \in DOMAIN free : free[p].cores >= got[n]})

\* A node without a pool, or deleted since it was read, is left for another
\* iteration; after a failed statement all the others fail too.
SchedulePass(n) ==
    /\ turn = "placing" /\ n \in todo
    /\ aborted \/ Suitable(n) = {} \/ n \in gone
    /\ todo' = todo \ {n}
    /\ UNCHANGED <<asked, rows, targets, host, turn, free, got, placed, aborted, events>>

\* The machine volume takes the uuid of the volume, so its insert fails when
\* one is left from an earlier placement.
PlaceNode(n, p) ==
    /\ turn = "placing" /\ n \in todo
    /\ ~aborted /\ n \notin gone
    /\ p \in Suitable(n)
    /\ todo' = todo \ {n}
    /\ aborted' = (vol[n] # NoRow)
    /\ placed' = Update(placed, {n}, LAMBDA k : [pool |-> p, cores |-> got[k]])
    /\ free' = [free EXCEPT ![p].cores = @ - got[n]]
    /\ UNCHANGED <<asked, rows, targets, host, turn, got, events>>

\* Pools nobody looks after get a builder and an agent.
Assigned == IF aborted THEN managed ELSE Pools

RootVolume(p) == [pool |-> p, attached |-> TRUE]

\* The rows of placed nodes are written whole, as they were read.
ScheduleCommit ==
    /\ turn = "placing" /\ todo = {}
    /\ turn' = "network"
    /\ managed' = Assigned
    /\ LET done == IF aborted THEN {} ELSE DOMAIN placed IN
        /\ cores' = Update(cores, done, LAMBDA n : got[n])
        /\ machine' = Update(machine, done, LAMBDA n : placed[n])
        /\ vol' = Update(vol, done, LAMBDA n : RootVolume(placed[n].pool))
    /\ free' = Empty /\ got' = Empty /\ placed' = Empty /\ aborted' = FALSE
    /\ UNCHANGED <<gone, port, row, targets, host, todo, events>>

-----------------------------------------------------------------------------
(* The network service: see NetworkService for how it may fail.            *)

Network ==
    /\ turn = "network"
    /\ turn' = "pools"
    /\ port' = port \union Live
    /\ UNCHANGED <<asked, machine, vol, managed, row, targets, host, locals, events>>

-----------------------------------------------------------------------------
(* The pool builder: pools, then volumes, then machines; for each kind the *)
(* new instances, the changed ones and the deleted ones.                   *)

BuildPools ==
    /\ turn = "pools"
    /\ turn' = "volumes"
    /\ row' = [p \in Pools |-> IF p \in managed /\ rep[p] # NoRow THEN rep[p] ELSE row[p]]
    /\ UNCHANGED <<asked, port, machine, vol, managed, targets, host, locals, events>>

NewVolumes == {n \in Nodes \ DOMAIN vres : vol[n] # NoRow}
\* No new volume is counted before the agent has made it.
NoSpace == {n \in NewVolumes : row[vol[n].pool].store < 1}

\* A root volume without space takes its machine with it.
BuildVolumes ==
    /\ turn = "volumes"
    /\ turn' = "machines"
    /\ LET kept == {n \in Nodes : vol[n] # NoRow} \ NoSpace IN
        /\ vres' = [n \in kept |-> vol[n]]
        /\ vol' = [n \in Nodes |-> IF n \in NoSpace THEN NoRow ELSE vol[n]]
        /\ machine' = [n \in Nodes |->
               IF n \in NoSpace /\ vol[n].attached THEN NoRow ELSE machine[n]]
    /\ UNCHANGED <<asked, port, managed, row, nres, mres, host, locals, events>>

NewMachines == {n \in Nodes \ DOMAIN mres : machine[n] # NoRow}
NotEnough == {n \in NewMachines : row[machine[n].pool].cores < machine[n].cores}
DepsReady(n) == n \in port /\ vol[n] # NoRow /\ vol[n].attached
Changed == {n \in DOMAIN mres : machine[n] # NoRow /\ machine[n] # mres[n]}
CannotGrow == {n \in Changed :
    machine[n].cores > mres[n].cores + row[machine[n].pool].cores}

\* Mutant of Rescheduled: a running machine that cannot grow is placed anew.
RescheduledRunning == NotEnough \union CannotGrow

\* Machines given back to the scheduler: deleted, their volumes detached.  A
\* machine that exists already is left as it is (and its status is ERROR).
Rescheduled == NotEnough

BuildMachines ==
    /\ turn = "machines"
    /\ turn' = "nodes"
    /\ LET created == {n \in NewMachines \ Rescheduled : DepsReady(n)}
           updated == Changed \ CannotGrow
           kept == {n \in DOMAIN mres : machine[n] # NoRow} \ Rescheduled
       IN  mres' = [n \in kept \union created |->
                       IF n \in created \union updated THEN machine[n] ELSE mres[n]]
    /\ machine' = Update(machine, Rescheduled, LAMBDA n : NoRow)
    /\ vol' = Update(vol, {n \in Rescheduled : vol[n] # NoRow},
                     LAMBDA n : [vol[n] EXCEPT !.attached = FALSE])
    /\ UNCHANGED <<asked, port, managed, row, nres, vres, host, locals, events>>

-----------------------------------------------------------------------------
(* The node builder: the target of a node is made when the target of its   *)
(* machine exists, from the node as it is then; a later change of the node *)
(* is carried over to the machine.                                         *)

BuildNodes ==
    /\ turn = "nodes"
    /\ turn' = "agent"
    /\ LET created == {n \in Live \ DOMAIN nres : n \in DOMAIN mres}
           updated == {n \in Live \intersect DOMAIN nres : nres[n] # cores[n]}
       IN  /\ nres' = [n \in created \union (Live \intersect DOMAIN nres) |-> cores[n]]
           /\ machine' = Update(machine, {n \in updated : machine[n] # NoRow},
                                LAMBDA n : [machine[n] EXCEPT !.cores = cores[n]])
    /\ UNCHANGED <<asked, port, vol, managed, row, mres, vres, host, locals, events>>

-----------------------------------------------------------------------------
(* The pool agent.                                                          *)

\* Availability is computed from the domains and disks that are there, and
\* kept in memory for the rest of the iteration.
AgentStart ==
    /\ turn = "agent"
    /\ turn' = "agent_volumes"
    /\ free' = [p \in managed |-> Fresh(p)]
    /\ todo' = Nodes
    /\ UNCHANGED <<asked, rows, targets, host, got, placed, aborted, events>>

\* Mutant of KeepsDisk: a disk whose machine is absent is not looked at.
KeepsDiskWithoutMachine(n, p) ==
    \/ n \in DOMAIN vres /\ vres[n].pool = p
    \/ dpm[p][n] = 0 /\ n \notin DOMAIN mres

KeepsDisk(n, p) == n \in DOMAIN vres /\ vres[n].pool = p
\* Mutant of MakesDisk: a disk is made only for a machine that exists.
MakesDiskForMachine(n, p) ==
    KeepsDisk(n, p) /\ n \notin dpv[p] /\ dpm[p][n] > 0 /\ free[p].store >= 1

MakesDisk(n, p) == KeepsDisk(n, p) /\ n \notin dpv[p] /\ p \in managed /\ free[p].store >= 1

AgentVolume(n) ==
    /\ turn = "agent_volumes" /\ n \in todo
    /\ todo' = todo \ {n}
    /\ dpv' = [p \in Pools |->
           IF MakesDisk(n, p) THEN dpv[p] \union {n}
           ELSE IF KeepsDisk(n, p) THEN dpv[p] ELSE dpv[p] \ {n}]
    /\ free' = [p \in DOMAIN free |->
           IF MakesDisk(n, p) THEN [free[p] EXCEPT !.store = @ - 1] ELSE free[p]]
    /\ UNCHANGED <<asked, rows, targets, cap, dpm, rep, turn, got, placed, aborted, events>>

AgentVolumesDone ==
    /\ turn = "agent_volumes" /\ todo = {}
    /\ turn' = "agent_machines"
    /\ todo' = Nodes
    /\ UNCHANGED <<asked, rows, targets, host, free, got, placed, aborted, events>>

\* Mutant of Fits: what runs already is not counted.
FitsHost(n, p) == mres[n].cores <= cap[p].cores

\* Room for a new machine, or for what a machine grows by.
Fits(n, p) == mres[n].cores <= dpm[p][n] + free[p].cores

Wanted(n, p) == n \in DOMAIN mres /\ mres[n].pool = p /\ p \in DOMAIN free

\* Mutant of Startable: the target of the disk is enough.
StartableWithTarget(n, p) == n \in DOMAIN vres /\ vres[n].attached

\* A new machine also needs its root disk.
Startable(n, p) == n \in dpv[p] /\ n \in DOMAIN vres /\ vres[n].attached

SetCores(n, p) ==
    /\ dpm' = [dpm EXCEPT ![p][n] = mres[n].cores]
    /\ free' = [free EXCEPT ![p].cores = @ + dpm[p][n] - mres[n].cores]

CreateOrUpdateMachine(n, p) ==
    /\ turn = "agent_machines" /\ n \in todo
    /\ Wanted(n, p) /\ Fits(n, p)
    /\ dpm[p][n] # mres[n].cores
    /\ dpm[p][n] = 0 => Startable(n, p)
    /\ SetCores(n, p)
    /\ todo' = todo \ {n}
    /\ UNCHANGED <<asked, rows, targets, cap, dpv, rep, turn, got, placed, aborted, events>>

\* A machine that is as it should be, has no root disk yet, or does not fit
\* (NEED_RESCHEDULE, ERROR: statuses nobody acts on) stays as it is.
LeaveMachine(n, p) ==
    /\ turn = "agent_machines" /\ n \in todo
    /\ Wanted(n, p)
    /\ \/ ~Fits(n, p)
       \/ dpm[p][n] = mres[n].cores
       \/ dpm[p][n] = 0 /\ ~Startable(n, p)
    /\ todo' = todo \ {n}
    /\ UNCHANGED <<asked, rows, targets, host, turn, free, got, placed, aborted, events>>

\* The disks stay: delete_machine lists those of the domain when it has undefined
\* it, so it finds none.  The memory of the iteration does not get back what a
\* deletion frees.
DeleteMachine(n) ==
    /\ turn = "agent_machines" /\ n \in todo
    /\ n \notin DOMAIN mres
    /\ dpm' = [p \in Pools |-> [dpm[p] EXCEPT ![n] = 0]]
    /\ todo' = todo \ {n}
    /\ UNCHANGED <<asked, rows, targets, cap, dpv, rep, turn, free, got, placed, aborted, events>>

\* The pool is read again for the report.
AgentReport ==
    /\ turn = "agent_machines" /\ todo = {}
    /\ turn' = "schedule"
    /\ rep' = [p \in Pools |-> IF p \in DOMAIN free THEN Fresh(p) ELSE rep[p]]
    /\ free' = Empty
    /\ UNCHANGED <<asked, rows, targets, cap, dpm, dpv, todo, got, placed, aborted, events>>

-----------------------------------------------------------------------------
(* Crashes: what is not committed is lost.                                  *)

Restarted ==
    /\ turn' = "schedule"
    /\ todo' = {} /\ free' = Empty /\ got' = Empty /\ placed' = Empty
    /\ aborted' = FALSE

Crash ==
    /\ Tick
    /\ turn # "schedule"
    /\ Restarted
    /\ UNCHANGED <<asked, rows, targets, host>>

\* A change of cores deletes the domain and defines it again.
CrashInUpdate(n, p) ==
    /\ Tick
    /\ turn = "agent_machines" /\ n \in todo
    /\ Wanted(n, p) /\ Fits(n, p)
    /\ dpm[p][n] \notin {0, mres[n].cores}
    /\ dpm' = [dpm EXCEPT ![p][n] = 0]
    /\ Restarted
    /\ UNCHANGED <<asked, rows, targets, cap, dpv, rep>>

-----------------------------------------------------------------------------
Scheduler ==
    \/ ScheduleBegin \/ ScheduleCommit
    \/ \E n \in Nodes : SchedulePass(n) \/ \E p \in Pools : PlaceNode(n, p)

Agent ==
    \/ AgentStart \/ AgentVolumesDone \/ AgentReport
    \/ \E n \in Nodes :
        \/ AgentVolume(n) \/ DeleteMachine(n)
        \/ \E p \in Pools : CreateOrUpdateMachine(n, p) \/ LeaveMachine(n, p)

Process ==
    \/ Scheduler \/ Network
    \/ BuildPools \/ BuildVolumes \/ BuildMachines \/ BuildNodes
    \/ Agent

User ==
    \E n \in Nodes :
        \/ DeleteNode(n)
        \/ \E c \in 1 .. MaxCores : CreateNode(n, c) \/ ResizeNode(n, c)

Crashes == Crash \/ \E n \in Nodes, p \in Pools : CrashInUpdate(n, p)

Next == Process \/ User \/ Crashes

Spec == Init /\ [][Next]_vars
\* The process runs its services again and again.
FairSpec == Spec /\ WF_vars(Process)

-----------------------------------------------------------------------------
Runs(n) == \E p \in Pools : dpm[p][n] > 0

\* No hypervisor runs more cores or holds more disks than it has, although
\* scheduler and builder decide on availability that is one report old and
\* count nothing of what they let through (builders/pool.py:161).
NotOvercommitted == \A p \in Pools :
    Used(p) <= cap[p].cores /\ Cardinality(dpv[p]) <= cap[p].store

\* A machine runs only on the hypervisor its row and its volume's row name,
\* where its root disk is; placing it again never leaves the first one behind.
RunsWhereItsDiskIs == \A n \in Live, p \in Pools : dpm[p][n] > 0 =>
    /\ machine[n] # NoRow /\ machine[n].pool = p
    /\ vol[n] = [pool |-> p, attached |-> TRUE]
    /\ n \in dpv[p]

\* Every pool could take every node at its largest.
Roomy == \A p \in Pools : /\ cap[p].cores >= MaxCores * Cardinality(Nodes)
                          /\ cap[p].store >= Cardinality(Nodes)

\* Where there is room, two nodes of a policy do not share a hypervisor, even
\* when one iteration places both (filters/affinity.py).
MatesApart == (Roomy /\ Cardinality(Mates) <= Cardinality(Pools)) =>
    \A m, n \in Mates : m # n /\ machine[m] # NoRow /\ machine[n] # NoRow =>
        machine[m].pool # machine[n].pool

\* A machine that runs keeps running until its user deletes it, whatever
\* capacity its changes ask for; only a crash between the two halves of a
\* change takes it down (builders/pool.py:215, "It's more safer do nothing").
RunningStays == [][\A n \in Live : Runs(n) =>
    Runs(n)' \/ \E p \in Pools : CrashInUpdate(n, p)]_vars

\* Once users and crashes leave the system alone (MaxEvents bounds them) every
\* node has its machine and keeps it, when every pool has room.
NodesRun == <>[](Roomy => \A n \in Live : Runs(n))

\* What deleted nodes had on the hypervisors is taken away in the end, also
\* what a crash left between the tables and the hypervisor.
Reclaimed == <>[](\A n \in gone, p \in Pools : dpm[p][n] = 0 /\ n \notin dpv[p])

Room(n) == \E p \in Pools : row[p] # NoRow /\ row[p].cores >= cores[n]

\* A machine the builder sends back is placed again while a pool has room for
\* it (builders/pool.py:143, "The scheduler will try to schedule the node again").
RescheduledIsPlaced == \A n \in Nodes :
    (n \in Unscheduled /\ Room(n)) ~> (n \notin Unscheduled \/ ~Room(n))
=============================================================================
