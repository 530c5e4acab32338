--------------------------- MODULE NetworkService ---------------------------
(***************************************************************************)
(* The network service (network/service.py) on one subnet: the tables it   *)
(* reconciles, the users and agents that change them meanwhile, one        *)
(* iteration as the sequence of its reads, allocations and data-plane      *)
(* calls, and the DHCP server behind the flat driver                       *)
(* (network/driver/flat.py).                                               *)
(*                                                                         *)
(* An iteration is one database transaction.  Its writes stay in memory    *)
(* here (netPorts, written, netWrites) and reach the tables at Commit; a   *)
(* statement that fails makes PostgreSQL refuse the rest of the            *)
(* transaction (aborted), and then the commit writes nothing.  DHCP is     *)
(* reconfigured before the commit.                                         *)
(***************************************************************************)
EXTENDS IpRanges, FiniteSets

CONSTANTS
    VmNode, HwNode,          \* nodes that users create
    Target,                  \* default_network["target_ipv4"] of a VM node, or NoIp
    NoIp,
    RangeFirst, RangeLast,   \* ip_range of the subnet
    Uuid,                    \* identifiers of ports
    NoPort,                  \* the Python local `port` not yet bound; no default_network
    MaxMoves,                \* bound: how often HW nodes lose their machine
    MaxFaults                \* bound: crashes and failed DHCP restarts

Node == VmNode \union HwNode

ASSUME NetworkAssumption ==
    /\ VmNode \intersect HwNode = {}
    /\ NoIp \notin Int
    /\ Target \in [VmNode -> Int \union {NoIp}]
    /\ RangeFirst \in Int /\ RangeLast \in Int /\ RangeFirst <= RangeLast
    /\ MaxMoves \in Nat /\ MaxFaults \in Nat

Port == [id : Uuid, node : Node, ip : Int, status : {"NEW", "ACTIVE"}]

ASSUME NoPortAssumption == NoPort \notin Port

\* default_network of a node: the port it names and its address.
NodeNetwork == [id : Uuid, ip : Int]

VARIABLES
    life,        \* row of table nodes: "none", "live", "gone"
    placed,      \* HW nodes with a machine whose interface is in the cidr
    ports,       \* table compute_ports
    defaultNet   \* column nodes.default_network

db == <<life, placed, ports, defaultNet>>

VARIABLES
    pc,          \* where the iteration is
    newVm,       \* new_vm_nodes still to serve
    newHw,       \* nodes of new_hw_ports still to serve
    netPorts,    \* subnet_map[subnet]
    todo,        \* ports the IPAM constructor has still to exclude
    pool,        \* ipam._pool_map[subnet]
    port,        \* the local `port`, which outlives the loop turn that set it
    actual       \* actual_ports of _actualize_subnet

iter == <<pc, newVm, newHw, netPorts, todo, pool, port, actual>>

VARIABLES
    written,     \* ids of the rows this transaction inserted or updated
    netWrites,   \* default_network values it wrote
    aborted      \* a statement failed, PostgreSQL refuses the others

tx == <<written, netWrites, aborted>>

VARIABLES
    ctx,         \* the DHCP context file: [subnet, ports]
    ctxValid,    \* its hash matches the configuration file
    served       \* the hosts the running DHCP server knows

plane == <<ctx, ctxValid, served>>

VARIABLES
    moves, faults,  \* counters of the bounds
    staleFreed      \* history: an address went back to the pool for the
                    \* sake of another node's failure

vars == <<db, iter, tx, plane, moves, faults, staleFreed>>

-----------------------------------------------------------------------------
Ids(ps) == {p.id : p \in ps}
NodesOf(ps) == {p.node : p \in ps}

EmptyCtx == [subnet |-> FALSE, ports |-> {}]

\* DHCPContext as _load_ctx returns it: a hash mismatch reads as empty.
LoadCtx == IF ctxValid THEN ctx ELSE EmptyCtx

NoNets == [n \in Node |-> NoPort]

\* Rows the transaction has locked: a concurrent delete of such a node, or of
\* its machine, waits for the commit.
WrittenPorts == {p \in netPorts : p.id \in written}
LockedNodes == NodesOf(WrittenPorts) \union {n \in Node : netWrites[n] # NoPort}

\* uuid4: an identifier nothing refers to.
UsedIds ==
    Ids(ports) \union Ids(netPorts) \union Ids(ctx.ports) \union Ids(served)
        \union {defaultNet[n].id : n \in {m \in Node : defaultNet[m] # NoPort}}
HasFreshId == ~(Uuid \subseteq UsedIds)
FreshId == CHOOSE u \in Uuid \ UsedIds : TRUE

TypeOK ==
    /\ life \in [Node -> {"none", "live", "gone"}]
    /\ placed \subseteq HwNode
    /\ ports \subseteq Port
    /\ defaultNet \in [Node -> NodeNetwork \union {NoPort}]
    /\ pc \in {"idle", "map", "hw", "alloc", "insert", "delete", "status", "commit"}
    /\ newVm \subseteq VmNode
    /\ newHw \subseteq HwNode
    /\ netPorts \subseteq Port
    /\ todo \subseteq Port
    /\ pool \in Seq(IpRange)
    /\ port \in Port \union {NoPort}
    /\ actual \subseteq Port
    /\ written \subseteq Uuid
    /\ netWrites \in [Node -> NodeNetwork \union {NoPort}]
    /\ aborted \in BOOLEAN
    /\ ctx \in [subnet : BOOLEAN, ports : SUBSET Port]
    /\ ctxValid \in BOOLEAN
    /\ served \subseteq Port
    /\ moves \in 0 .. MaxMoves
    /\ faults \in 0 .. MaxFaults
    /\ staleFreed \in BOOLEAN

\* What the locals are between iterations.
ResetLocals ==
    /\ pc' = "idle"
    /\ newVm' = {}
    /\ newHw' = {}
    /\ netPorts' = {}
    /\ todo' = {}
    /\ pool' = << >>
    /\ port' = NoPort
    /\ actual' = {}
    /\ written' = {}
    /\ netWrites' = NoNets
    /\ aborted' = FALSE

Init ==
    /\ life = [n \in Node |-> "none"]
    /\ placed = {}
    /\ ports = {}
    /\ defaultNet = NoNets
    /\ pc = "idle"
    /\ newVm = {} /\ newHw = {} /\ netPorts = {} /\ todo = {} /\ actual = {}
    /\ pool = << >>
    /\ port = NoPort
    /\ written = {} /\ netWrites = NoNets /\ aborted = FALSE
    /\ ctx = EmptyCtx /\ ctxValid = FALSE /\ served = {}
    /\ moves = 0 /\ faults = 0
    /\ staleFreed = FALSE

-----------------------------------------------------------------------------
(* The other users of the tables.                                          *)

CreateNode(n) ==
    /\ life[n] = "none"
    /\ life' = [life EXCEPT ![n] = "live"]
    /\ UNCHANGED <<placed, ports, defaultNet, iter, tx, plane, moves, faults, staleFreed>>

\* compute_ports.node references nodes ON DELETE CASCADE.
DeleteNode(n) ==
    /\ life[n] = "live"
    /\ n \notin LockedNodes
    /\ life' = [life EXCEPT ![n] = "gone"]
    /\ placed' = placed \ {n}
    /\ ports' = {p \in ports : p.node # n}
    /\ defaultNet' = [defaultNet EXCEPT ![n] = NoPort]
    /\ UNCHANGED <<iter, tx, plane, moves, faults, staleFreed>>

\* The scheduler gives a HW node its machine, whose interface has an address
\* of the cidr.
PlaceHw(n) ==
    /\ life[n] = "live"
    /\ n \notin placed
    /\ placed' = placed \union {n}
    /\ UNCHANGED <<life, ports, defaultNet, iter, tx, plane, moves, faults, staleFreed>>

\* The machine of a HW node is deleted: compute_ports.machine references
\* machines ON DELETE CASCADE.
LoseMachine(n) ==
    /\ moves < MaxMoves
    /\ n \in placed
    /\ n \notin NodesOf(WrittenPorts)
    /\ placed' = placed \ {n}
    /\ ports' = {p \in ports : p.node # n}
    /\ moves' = moves + 1
    /\ UNCHANGED <<life, defaultNet, iter, tx, plane, faults, staleFreed>>

-----------------------------------------------------------------------------
(* The reads at the start of an iteration, three statements under READ     *)
(* COMMITTED.                                                              *)

\* Mutant of Begin: nodes that have their port are not left out.
BeginWithEveryNode ==
    /\ pc = "idle"
    /\ pc' = "map"
    /\ newVm' = {n \in VmNode : life[n] = "live"}
    /\ UNCHANGED <<db, newHw, netPorts, todo, pool, port, actual, tx, plane,
                   moves, faults, staleFreed>>

\* View compute_nodes_without_ports.
Begin ==
    /\ pc = "idle"
    /\ pc' = "map"
    /\ newVm' = {n \in VmNode : life[n] = "live"} \ NodesOf(ports)
    /\ UNCHANGED <<db, newHw, netPorts, todo, pool, port, actual, tx, plane,
                   moves, faults, staleFreed>>

\* Mutant of ReadSubnetMap: ports not yet active are not counted.
ReadActivePorts ==
    /\ pc = "map"
    /\ pc' = "hw"
    /\ netPorts' = {p \in ports : p.status = "ACTIVE"}
    /\ UNCHANGED <<db, newVm, newHw, todo, pool, port, actual, tx, plane,
                   moves, faults, staleFreed>>

ReadSubnetMap ==
    /\ pc = "map"
    /\ pc' = "hw"
    /\ netPorts' = ports
    /\ UNCHANGED <<db, newVm, newHw, todo, pool, port, actual, tx, plane,
                   moves, faults, staleFreed>>

\* View compute_hw_nodes_without_ports.  The IPAM is built only when a port is
\* needed, from the subnet map as read.
ReadHwNodes ==
    /\ pc = "hw"
    /\ pc' = "alloc"
    /\ newHw' = placed \ NodesOf(ports)
    /\ todo' = IF newVm = {} /\ newHw' = {} THEN {} ELSE netPorts
    /\ pool' = << <<RangeFirst, RangeLast>> >>
    /\ UNCHANGED <<db, newVm, netPorts, port, actual, tx, plane, moves, faults, staleFreed>>

(* Ipam.calculate_pool.  Ports come in no particular order.                *)
ExcludePort ==
    /\ pc = "alloc"
    /\ todo # {}
    /\ LET p == CHOOSE q \in todo : TRUE
       IN  /\ todo' = todo \ {p}
           /\ pool' = OccupyIp(pool, p.ip)
    /\ UNCHANGED <<db, pc, newVm, newHw, netPorts, port, actual, tx, plane,
                   moves, faults, staleFreed>>

-----------------------------------------------------------------------------
(* Allocation: _allocate_port and the handlers around it.                  *)

TargetOf(n) == IF n \in VmNode THEN Target[n] ELSE NoIp

\* Ipam.allocate_ip: the address and what it leaves.
AddressFor(n) == IF TargetOf(n) = NoIp THEN FirstFree(pool) ELSE TargetOf(n)

PoolWithout(n) == IF TargetOf(n) = NoIp THEN TakeFirst(pool)
                                        ELSE OccupyIp(pool, TargetOf(n))

\* Mutant of NewPort: a status the port's lifecycle does not have.
NewPortInProgress(n) ==
    [id |-> FreshId, node |-> n, ip |-> AddressFor(n), status |-> "IN_PROGRESS"]

NewPort(n) == [id |-> FreshId, node |-> n, ip |-> AddressFor(n), status |-> "NEW"]

Serving(n) == pc = "alloc" /\ todo = {} /\ n \in newVm

\* IpamNoIPsAvailable, or the lookup of the node by restore_from_simple_view
\* finds no row (the user deleted it) or a transaction that refuses to read.
CannotAllocate(n) == pool = << >> \/ aborted \/ life[n] # "live"

(* _allocate_port returns: the port is in the subnet map before the insert *)
(* is tried.                                                               *)
AllocatePort(n) ==
    /\ Serving(n)
    /\ ~CannotAllocate(n)
    /\ HasFreshId
    /\ pc' = "insert"
    /\ newVm' = newVm \ {n}
    /\ port' = NewPort(n)
    /\ pool' = PoolWithout(n)
    /\ netPorts' = netPorts \union {NewPort(n)}
    /\ UNCHANGED <<db, newHw, todo, actual, tx, plane, moves, faults, staleFreed>>

(* _allocate_port raises.  The handler gives back the address of `port`,   *)
(* which is still the port of an earlier turn of the loop.                 *)
FailAllocation(n) ==
    /\ Serving(n)
    /\ CannotAllocate(n)
    /\ port # NoPort
    /\ newVm' = newVm \ {n}
    /\ pool' = DeallocateIp(IF pool = << >> THEN pool ELSE PoolWithout(n), port.ip)
    /\ staleFreed' = TRUE
    /\ UNCHANGED <<db, pc, newHw, netPorts, todo, port, actual, tx, plane, moves, faults>>

(* In the first turn `port` is unbound: the handler itself raises, and the *)
(* session manager rolls the iteration back.                               *)
FailUnbound(n) ==
    /\ Serving(n)
    /\ CannotAllocate(n)
    /\ port = NoPort
    /\ ResetLocals
    /\ UNCHANGED <<db, plane, moves, faults, staleFreed>>

\* Rows the transaction sees: committed ones and its own.
VisiblePorts == ports \union WrittenPorts

\* The unique index on (target_ipv4, subnet).
TargetInUse(n) ==
    TargetOf(n) # NoIp /\ \E q \in VisiblePorts : TargetOf(q.node) = TargetOf(n)

CanInsert(n) == ~aborted /\ life[n] = "live" /\ ~TargetInUse(n)

InsertPort ==
    /\ pc = "insert"
    /\ CanInsert(port.node)
    /\ pc' = "alloc"
    /\ written' = written \union {port.id}
    /\ UNCHANGED <<db, newVm, newHw, netPorts, todo, pool, port, actual, netWrites,
                   aborted, plane, moves, faults, staleFreed>>

(* The insert raises: the address goes back, the port stays in the subnet  *)
(* map.                                                                    *)
FailInsert ==
    /\ pc = "insert"
    /\ ~CanInsert(port.node)
    /\ pc' = "alloc"
    /\ aborted' = TRUE
    /\ pool' = DeallocateIp(pool, port.ip)
    /\ UNCHANGED <<db, newVm, newHw, netPorts, todo, port, actual, written, netWrites,
                   plane, moves, faults, staleFreed>>

\* The second loop: ports of HW nodes.
ServingHw(n) == pc = "alloc" /\ todo = {} /\ newVm = {} /\ n \in newHw

AllocateHw(n) ==
    /\ ServingHw(n)
    /\ pool # << >>
    /\ ~aborted
    /\ n \in placed
    /\ HasFreshId
    /\ newHw' = newHw \ {n}
    /\ pool' = TakeFirst(pool)
    /\ netPorts' = netPorts \union {NewPort(n)}
    /\ written' = written \union {FreshId}
    /\ UNCHANGED <<db, pc, newVm, todo, port, actual, netWrites, aborted, plane,
                   moves, faults, staleFreed>>

\* No address left, or the insert raises (the machine is gone, or the
\* transaction had failed): only logged.
FailHw(n) ==
    /\ ServingHw(n)
    /\ pool = << >> \/ aborted \/ n \notin placed
    /\ newHw' = newHw \ {n}
    /\ pool' = IF pool = << >> THEN pool ELSE TakeFirst(pool)
    /\ aborted' = (aborted \/ pool # << >>)
    /\ UNCHANGED <<db, pc, newVm, netPorts, todo, port, actual, written, netWrites,
                   plane, moves, faults, staleFreed>>

-----------------------------------------------------------------------------
(* The data plane: _actualize_network on the flat driver.                  *)

\* Mutant of Applied: the server is restarted before the configuration is
\* written.
AppliedAfterRestart(c) ==
    ctx' = c /\ ctxValid' = TRUE /\ served' = ctx.ports /\ UNCHANGED faults

\* _apply_cfg: configuration written, server restarted, context saved.
Applied(c) == ctx' = c /\ ctxValid' = TRUE /\ served' = c.ports /\ UNCHANGED faults

\* _apply_cfg raises half way: the configuration is not the one the context
\* was saved with, and the server may or may not have survived.
NotApplied == /\ faults < MaxFaults
              /\ faults' = faults + 1
              /\ ctxValid' = FALSE
              /\ served' \in {served, {}}
              /\ UNCHANGED ctx

Activated(ps) == {[p EXCEPT !.status = "ACTIVE"] : p \in ps}

Allocated == pc = "alloc" /\ todo = {} /\ newVm = {} /\ newHw = {}

\* The subnet is not on the data plane: create it, without ports, and leave
\* the rest to the next iteration.
CreateSubnet ==
    /\ Allocated
    /\ ~LoadCtx.subnet
    /\ Applied([LoadCtx EXCEPT !.subnet = TRUE]) \/ NotApplied
    /\ pc' = "commit"
    /\ UNCHANGED <<db, newVm, newHw, netPorts, todo, pool, port, actual, tx, moves, staleFreed>>

\* Ports of the map that the data plane does not have.
Missing == {p \in netPorts : p.id \notin Ids(LoadCtx.ports)}

\* Mutant of ExistingIds: only the rows of this transaction are updated.
OwnIds(ps) == Ids(ps) \intersect written

\* Their rows, updated after the driver call: those that still exist.
ExistingIds(ps) == Ids(ps) \intersect (Ids(ports) \union written)

(* `default_network` is written only if it names no port yet, and the port *)
(* row after it.                                                           *)
WriteCreated(ps) ==
    /\ netPorts' = (netPorts \ ps) \union Activated(ps)
    /\ written' = written \union ExistingIds(ps)
    /\ netWrites' = [n \in Node |->
           IF defaultNet[n] = NoPort /\ life[n] = "live" /\ n \in NodesOf(ps)
           THEN LET p == CHOOSE q \in ps : q.node = n IN [id |-> p.id, ip |-> p.ip]
           ELSE netWrites[n]]

CreatePorts ==
    /\ Allocated
    /\ LoadCtx.subnet
    /\ actual' = LoadCtx.ports
    /\ pc' = "delete"
    /\ \/ /\ Missing = {}
          /\ UNCHANGED <<plane, faults, netPorts, written, netWrites>>
       \/ /\ Missing # {}
          /\ Applied([LoadCtx EXCEPT !.ports = @ \union Activated(Missing)])
          /\ WriteCreated(Missing)
       \/ /\ Missing # {}
          /\ NotApplied
          /\ UNCHANGED <<netPorts, written, netWrites>>
    /\ UNCHANGED <<db, newVm, newHw, todo, pool, port, aborted, moves, staleFreed>>

(* Mutant of DeletePorts: the operands of the difference swapped.          *)
DeleteNewPorts ==
    /\ pc = "delete"
    /\ pc' = "status"
    /\ LET gone == Ids(netPorts) \ Ids(actual)
       IN  IF gone = {} THEN UNCHANGED <<plane, faults>>
           ELSE \/ Applied([LoadCtx EXCEPT !.ports = {p \in @ : p.id \notin gone}])
                \/ NotApplied
    /\ UNCHANGED <<db, newVm, newHw, netPorts, todo, pool, port, actual, tx, moves, staleFreed>>

\* Ports of the data plane that the map does not have.  The context is read
\* again: after a failed creation it reads as empty and is applied as such.
DeletePorts ==
    /\ pc = "delete"
    /\ pc' = "status"
    /\ LET gone == Ids(actual) \ Ids(netPorts)
       IN  IF gone = {} THEN UNCHANGED <<plane, faults>>
           ELSE \/ Applied([LoadCtx EXCEPT !.ports = {p \in @ : p.id \notin gone}])
                \/ NotApplied
    /\ UNCHANGED <<db, newVm, newHw, netPorts, todo, pool, port, actual, tx, moves, staleFreed>>

\* Ports that both have: addresses never differ (nothing rewrites the address
\* of a port), so what is left is the status.
ActualizePorts ==
    /\ pc = "status"
    /\ pc' = "commit"
    /\ LET late == {p \in netPorts : p.id \in Ids(actual) /\ p.status # "ACTIVE"}
       IN  /\ netPorts' = (netPorts \ late) \union Activated(late)
           /\ written' = written \union ExistingIds(late)
           /\ netWrites' = [n \in Node |->
                  IF \E p \in late : p.node = n /\ defaultNet[n] # NoPort
                                     /\ defaultNet[n].id = p.id /\ life[n] = "live"
                  THEN defaultNet[n] ELSE netWrites[n]]
    /\ UNCHANGED <<db, newVm, newHw, todo, pool, port, actual, aborted, plane,
                   moves, faults, staleFreed>>

(* The session manager commits; a transaction that failed commits nothing. *)
Commit ==
    /\ pc = "commit"
    /\ ports' = IF aborted THEN ports
                ELSE {p \in ports : p.id \notin written} \union WrittenPorts
    /\ defaultNet' = IF aborted THEN defaultNet
                     ELSE [n \in Node |-> IF netWrites[n] # NoPort THEN netWrites[n]
                                          ELSE defaultNet[n]]
    /\ ResetLocals
    /\ UNCHANGED <<life, placed, plane, moves, faults, staleFreed>>

(* The process dies and is started again: PostgreSQL rolls back, and the   *)
(* hash of the configuration, which Python salts per process, no longer    *)
(* matches the saved one.  The DHCP server keeps running.                  *)
Crash ==
    /\ faults < MaxFaults
    /\ faults' = faults + 1
    /\ ctxValid' = FALSE
    /\ ResetLocals
    /\ UNCHANGED <<db, ctx, served, moves, staleFreed>>

Service ==
    \/ Begin \/ ReadSubnetMap \/ ReadHwNodes \/ ExcludePort
    \/ \E n \in VmNode : AllocatePort(n) \/ FailAllocation(n) \/ FailUnbound(n)
    \/ InsertPort \/ FailInsert
    \/ \E n \in HwNode : AllocateHw(n) \/ FailHw(n)
    \/ CreateSubnet \/ CreatePorts \/ DeletePorts \/ ActualizePorts \/ Commit

Environment ==
    \/ \E n \in Node : CreateNode(n) \/ DeleteNode(n)
    \/ \E n \in HwNode : PlaceHw(n) \/ LoseMachine(n)

Next == Service \/ Environment \/ Crash

Spec == Init /\ [][Next]_vars

(* The service loop is scheduled for ever; users, agents and crashes are   *)
(* under no obligation.                                                    *)
FairSpec == Spec /\ WF_vars(Service)

-----------------------------------------------------------------------------
(* Properties.                                                             *)

\* The node asked for its address itself.
Chosen(p) == TargetOf(p.node) # NoIp

SharedIp(p, q) == p # q /\ p.ip = q.ip

(* Two ports of the subnet have the same address only if one of their      *)
(* nodes asked for it (nothing checks a target, ipam.py:153-156), or if a  *)
(* failed allocation gave back the address of another node's port          *)
(* (service.py:315-316): no interleaving with users, rollback or restart   *)
(* makes the service give one address to two ports of its own accord.      *)
UniqueIp ==
    \A p, q \in ports : SharedIp(p, q) => staleFreed \/ Chosen(p) \/ Chosen(q)

(* What a VM node is told about its network is true: the port its          *)
(* default_network names is in the table, is active, and has that address, *)
(* although the node, the port and DHCP are written by different steps.    *)
VmNetworkIsTrue ==
    \A n \in VmNode : defaultNet[n] # NoPort =>
        \E p \in ports : /\ p.node = n
                         /\ p.status = "ACTIVE"
                         /\ defaultNet[n] = [id |-> p.id, ip |-> p.ip]

(* The node of an active port is told: "Update `default_network` for the   *)
(* node" (service.py:191, 235).                                            *)
VmKnowsItsPort ==
    \A p \in ports : p.node \in VmNode /\ p.status = "ACTIVE" => defaultNet[p.node] # NoPort

(* Every row the service has committed as ACTIVE is one the DHCP context   *)
(* on disk holds, as long as nothing failed: the data plane is configured  *)
(* before the commit, never after it.                                      *)
ActiveIsServed ==
    faults = 0 => \A p \in ports : p.status = "ACTIVE" => p \in served

(* A node never has two ports, whatever rolls back or restarts.            *)
OnePortPerNode == \A p, q \in ports : p.node = q.node => p = q

(* Without a crash or a failed restart the service never interrupts the    *)
(* DHCP service of a port that stays in the table.                         *)
NoInterruption ==
    [][\A p \in ports : p \in served /\ p.id \in Ids(ports') /\ p \notin served'
                          => faults' > 0]_vars

\* The tables and the data plane agree, and every node that can has a port.
Settled ==
    /\ \A n \in VmNode : life[n] = "live" => n \in NodesOf(ports)
    /\ placed \subseteq NodesOf(ports)
    /\ \A p \in ports : p.status = "ACTIVE"
    /\ ctxValid /\ ctx.ports = ports /\ served = ports

(* Once users and failures leave the subnet alone, every node gets its     *)
(* port and DHCP serves exactly the ports of the table.                    *)
Settles == <>[]Settled

(* flat.py:176-177: a configuration that is not valid is taken as empty    *)
(* "in order to rebuild the networks": the hosts come back.                *)
HostsComeBack == \A u \in Uuid : (u \in Ids(ports)) ~> (u \in Ids(served) \/ u \notin Ids(ports))
=============================================================================
