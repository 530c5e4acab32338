------------------------ MODULE NetworkServiceProofs ------------------------
(***************************************************************************)
(* For every set of nodes and every range of addresses: the variables keep *)
(* their types, and the service never gives one address to two ports of    *)
(* its own accord.                                                         *)
(***************************************************************************)
EXTENDS NetworkService, IpRangesProofs

\* A port that holds an integer address.
LEMMA PortFields ==
    ASSUME NEW p \in Port
    PROVE  p.id \in Uuid /\ p.node \in Node /\ p.ip \in Int /\ p.status \in {"NEW", "ACTIVE"}
BY DEF Port

LEMMA FreshIdIsFresh ==
    ASSUME HasFreshId
    PROVE  FreshId \in Uuid /\ FreshId \notin UsedIds
BY DEF HasFreshId, FreshId

\* Types of what _allocate_port computes.
LEMMA AllocationTypes ==
    ASSUME TypeOK, NEW n \in Node, pool # << >>, HasFreshId
    PROVE  /\ PoolWithout(n) \in Seq(IpRange)
           /\ AddressFor(n) \in Int
           /\ NewPort(n) \in Port
<1>1. pool \in Seq(IpRange)
  BY DEF TypeOK
<1>2. TargetOf(n) \in Int \union {NoIp}
  BY NetworkAssumption DEF TargetOf
<1>3. PoolWithout(n) \in Seq(IpRange) /\ AddressFor(n) \in Int
  <2>1. CASE TargetOf(n) = NoIp
    BY <1>1, <2>1, TakeFirstType DEF PoolWithout, AddressFor
  <2>2. CASE TargetOf(n) # NoIp
    BY <1>1, <1>2, <2>2, OccupyIpType DEF PoolWithout, AddressFor
  <2>. QED
    BY <2>1, <2>2
<1>4. NewPort(n) \in Port
  BY <1>3, FreshIdIsFresh DEF NewPort, Port
<1>. QED
  BY <1>3, <1>4

LEMMA PoolWithoutType ==
    ASSUME TypeOK, NEW n \in Node, pool # << >>
    PROVE  PoolWithout(n) \in Seq(IpRange)
<1>1. pool \in Seq(IpRange)
  BY DEF TypeOK
<1>2. TargetOf(n) \in Int \union {NoIp}
  BY NetworkAssumption DEF TargetOf
<1>3. CASE TargetOf(n) = NoIp
  BY <1>1, <1>3, TakeFirstType DEF PoolWithout
<1>4. CASE TargetOf(n) # NoIp
  BY <1>1, <1>2, <1>4, OccupyIpType DEF PoolWithout
<1>. QED
  BY <1>3, <1>4

LEMMA ActivatedType ==
    ASSUME NEW ps \in SUBSET Port
    PROVE  Activated(ps) \subseteq Port
BY DEF Activated, Port

LEMMA WholeRangeType == << <<RangeFirst, RangeLast>> >> \in Seq(IpRange)
<1>1. <<RangeFirst, RangeLast>> \in IpRange
  BY NetworkAssumption DEF IpRange
<1>. QED
  BY <1>1

LEMMA EmptyPoolType == << >> \in Seq(IpRange)
OBVIOUS

-----------------------------------------------------------------------------
(* Types, and what the insert step relies on: the port to be inserted is   *)
(* in the subnet map, and nothing has failed since it was allocated.       *)

InsertInv == pc = "insert" => port \in netPorts /\ todo = {} /\ ~aborted

TypeInv == TypeOK /\ InsertInv

LEMMA InitTypeInv == Init => TypeInv
<1>. SUFFICES ASSUME Init PROVE TypeInv
  OBVIOUS
<1>1. NoNets \in [Node -> NodeNetwork \union {NoPort}]
  BY DEF NoNets
<1>2. moves \in 0 .. MaxMoves /\ faults \in 0 .. MaxFaults
  BY NetworkAssumption DEF Init
<1>3. EmptyCtx \in [subnet : BOOLEAN, ports : SUBSET Port]
  BY DEF EmptyCtx
<1>4. life \in [Node -> {"none", "live", "gone"}]
  BY DEF Init
<1>5. InsertInv
  BY DEF Init, InsertInv
<1>. QED
  BY <1>1, <1>2, <1>3, <1>4, <1>5, EmptyPoolType DEF Init, TypeInv, TypeOK

LEMMA LoadCtxType ==
    ASSUME TypeOK
    PROVE  LoadCtx \in [subnet : BOOLEAN, ports : SUBSET Port]
BY DEF TypeOK, LoadCtx, EmptyCtx

LEMMA EnvironmentTypeInv == TypeInv /\ Environment => TypeInv'
<1>. SUFFICES ASSUME TypeInv, Environment PROVE TypeInv'
  OBVIOUS
<1>. USE DEF TypeInv, TypeOK, InsertInv, db, iter, tx, plane
<1>1. ASSUME NEW n \in Node, CreateNode(n) PROVE TypeInv'
  BY <1>1 DEF CreateNode
<1>2. ASSUME NEW n \in Node, DeleteNode(n) PROVE TypeInv'
  BY <1>2 DEF DeleteNode
<1>3. ASSUME NEW n \in HwNode, PlaceHw(n) PROVE TypeInv'
  BY <1>3 DEF PlaceHw
<1>4. ASSUME NEW n \in HwNode, LoseMachine(n) PROVE TypeInv'
  BY <1>4, NetworkAssumption DEF LoseMachine
<1>. QED
  BY <1>1, <1>2, <1>3, <1>4 DEF Environment

\* What an end of the iteration leaves behind.
LEMMA ResetTypes ==
    ASSUME ResetLocals
    PROVE  /\ pc' = "idle"
           /\ newVm' \subseteq VmNode /\ newHw' \subseteq HwNode
           /\ netPorts' \subseteq Port /\ todo' \subseteq Port /\ actual' \subseteq Port
           /\ pool' \in Seq(IpRange)
           /\ port' \in Port \union {NoPort}
           /\ written' \subseteq Uuid
           /\ netWrites' \in [Node -> NodeNetwork \union {NoPort}]
           /\ aborted' \in BOOLEAN
BY EmptyPoolType DEF ResetLocals, NoNets

LEMMA AllocationTypeInv ==
    ASSUME TypeInv,
           \/ Begin \/ ReadSubnetMap \/ ReadHwNodes \/ ExcludePort
           \/ \E n \in VmNode : AllocatePort(n) \/ FailAllocation(n) \/ FailUnbound(n)
           \/ InsertPort \/ FailInsert
           \/ \E n \in HwNode : AllocateHw(n) \/ FailHw(n)
    PROVE  TypeInv'
<1>. USE DEF db, iter, tx, plane
<1>0. TypeOK
  BY DEF TypeInv
<1>1. CASE Begin
  BY <1>1 DEF TypeInv, InsertInv, TypeOK, Begin
<1>2. CASE ReadSubnetMap
  BY <1>2 DEF TypeInv, InsertInv, TypeOK, ReadSubnetMap
<1>3. CASE ReadHwNodes
  BY <1>3, WholeRangeType DEF TypeInv, InsertInv, TypeOK, ReadHwNodes
<1>4. CASE ExcludePort
  <2>. DEFINE p == CHOOSE q \in todo : TRUE
  <2>1. p \in Port /\ p.ip \in Int
    BY <1>4, PortFields DEF TypeInv, InsertInv, TypeOK, ExcludePort
  <2>2. OccupyIp(pool, p.ip) \in Seq(IpRange)
    BY <2>1, OccupyIpType DEF TypeInv, InsertInv, TypeOK
  <2>. QED
    BY <1>4, <2>2 DEF TypeInv, InsertInv, TypeOK, ExcludePort
<1>5. ASSUME NEW n \in VmNode, AllocatePort(n) PROVE TypeInv'
  <2>1. /\ PoolWithout(n) \in Seq(IpRange)
        /\ NewPort(n) \in Port
    BY <1>0, <1>5, AllocationTypes DEF AllocatePort, CannotAllocate, Node, TypeInv
  <2>. QED
    BY <1>5, <2>1 DEF TypeInv, InsertInv, TypeOK, AllocatePort, Serving, CannotAllocate
<1>6. ASSUME NEW n \in VmNode, FailAllocation(n) PROVE TypeInv'
  <2>1. port \in Port /\ port.ip \in Int
    BY <1>6, PortFields DEF TypeInv, InsertInv, TypeOK, FailAllocation
  <2>. DEFINE rest == IF pool = << >> THEN pool ELSE PoolWithout(n)
  <2>2. rest \in Seq(IpRange)
    BY <1>0, PoolWithoutType DEF TypeInv, InsertInv, TypeOK, Node
  <2>. HIDE DEF rest
  <2>3. DeallocateIp(rest, port.ip) \in Seq(IpRange)
    BY <2>1, <2>2, DeallocateIpType
  <2>. QED
    BY <1>6, <2>3 DEF TypeInv, InsertInv, TypeOK, FailAllocation, rest
<1>7. ASSUME NEW n \in VmNode, FailUnbound(n) PROVE TypeInv'
  BY <1>7, ResetTypes DEF TypeInv, InsertInv, TypeOK, FailUnbound
<1>8. CASE InsertPort
  <2>1. port.id \in Uuid
    BY <1>8, PortFields DEF TypeInv, InsertInv, TypeOK, InsertPort
  <2>. QED
    BY <1>8, <2>1 DEF TypeInv, InsertInv, TypeOK, InsertPort
<1>9. CASE FailInsert
  <2>1. port.ip \in Int
    BY <1>9, PortFields DEF TypeInv, InsertInv, TypeOK, FailInsert
  <2>2. DeallocateIp(pool, port.ip) \in Seq(IpRange)
    BY <2>1, DeallocateIpType DEF TypeInv, TypeOK
  <2>. QED
    BY <1>9, <2>2 DEF TypeInv, InsertInv, TypeOK, FailInsert
<1>10. ASSUME NEW n \in HwNode, AllocateHw(n) PROVE TypeInv'
  <2>1. /\ NewPort(n) \in Port
        /\ FreshId \in Uuid
        /\ TakeFirst(pool) \in Seq(IpRange)
    BY <1>0, <1>10, AllocationTypes, FreshIdIsFresh, TakeFirstType DEF AllocateHw, Node, TypeInv, TypeOK
  <2>. QED
    BY <1>10, <2>1 DEF TypeInv, InsertInv, TypeOK, AllocateHw
<1>11. ASSUME NEW n \in HwNode, FailHw(n) PROVE TypeInv'
  <2>1. pool # << >> => TakeFirst(pool) \in Seq(IpRange)
    BY TakeFirstType DEF TypeInv, InsertInv, TypeOK
  <2>2. aborted' \in BOOLEAN
    BY <1>11 DEF FailHw
  <2>3. pool' \in Seq(IpRange)
    BY <1>11, <2>1 DEF FailHw, TypeInv, TypeOK
  <2>4. pc' = "alloc"
    BY <1>11 DEF FailHw, ServingHw
  <2>5. newHw' \subseteq HwNode
    BY <1>11 DEF FailHw, TypeInv, TypeOK
  <2>. QED
    BY <1>11, <2>2, <2>3, <2>4, <2>5 DEF TypeInv, InsertInv, TypeOK, FailHw
<1>. QED
  BY <1>1, <1>2, <1>3, <1>4, <1>5, <1>6, <1>7, <1>8, <1>9, <1>10, <1>11

LEMMA AppliedTypes ==
    ASSUME TypeOK, NEW c \in [subnet : BOOLEAN, ports : SUBSET Port],
           Applied(c) \/ NotApplied
    PROVE  /\ ctx' \in [subnet : BOOLEAN, ports : SUBSET Port]
           /\ ctxValid' \in BOOLEAN
           /\ served' \subseteq Port
           /\ faults' \in 0 .. MaxFaults
<1>1. CASE Applied(c)
  BY <1>1 DEF TypeOK, Applied
<1>2. CASE NotApplied
  <2>1. faults' \in 0 .. MaxFaults
    BY <1>2, NetworkAssumption DEF TypeOK, NotApplied
  <2>. QED
    BY <1>2, <2>1 DEF TypeOK, NotApplied
<1>. QED
  BY <1>1, <1>2

LEMMA ExistingIdsType ==
    ASSUME NEW ps \in SUBSET Port
    PROVE  ExistingIds(ps) \subseteq Uuid
BY PortFields DEF ExistingIds, Ids

LEMMA WriteCreatedTypes ==
    ASSUME TypeOK, NEW ps \in SUBSET Port, WriteCreated(ps)
    PROVE  /\ netPorts' \subseteq Port
           /\ written' \subseteq Uuid
           /\ netWrites' \in [Node -> NodeNetwork \union {NoPort}]
<1>1. netPorts' \subseteq Port
  BY ActivatedType DEF WriteCreated, TypeOK
<1>2. written' \subseteq Uuid
  BY ExistingIdsType DEF WriteCreated, TypeOK
<1>3. ASSUME NEW n \in Node, n \in NodesOf(ps)
      PROVE  (LET p == CHOOSE q \in ps : q.node = n IN [id |-> p.id, ip |-> p.ip]) \in NodeNetwork
  <2>. DEFINE p == CHOOSE q \in ps : q.node = n
  <2>1. p \in ps
    BY <1>3 DEF NodesOf
  <2>2. p.id \in Uuid /\ p.ip \in Int
    BY <2>1, PortFields
  <2>. QED
    BY <2>2 DEF NodeNetwork
<1>4. netWrites' \in [Node -> NodeNetwork \union {NoPort}]
  BY <1>3 DEF WriteCreated, TypeOK
<1>. QED
  BY <1>1, <1>2, <1>4

LEMMA DataPlaneTypeInv ==
    ASSUME TypeInv,
           CreateSubnet \/ CreatePorts \/ DeletePorts \/ ActualizePorts \/ Commit \/ Crash
    PROVE  TypeInv'
<1>. USE DEF db, iter, tx
<1>0. TypeOK /\ LoadCtx \in [subnet : BOOLEAN, ports : SUBSET Port]
  BY LoadCtxType DEF TypeInv
<1>1. CASE CreateSubnet
  <2>1. [LoadCtx EXCEPT !.subnet = TRUE] \in [subnet : BOOLEAN, ports : SUBSET Port]
    BY <1>0
  <2>2. /\ ctx' \in [subnet : BOOLEAN, ports : SUBSET Port]
        /\ ctxValid' \in BOOLEAN
        /\ served' \subseteq Port
        /\ faults' \in 0 .. MaxFaults
    BY <1>0, <1>1, <2>1, AppliedTypes DEF CreateSubnet
  <2>. QED
    BY <1>0, <1>1, <2>2 DEF TypeInv, InsertInv, TypeOK, CreateSubnet
<1>2. CASE CreatePorts
  <2>. DEFINE c == [LoadCtx EXCEPT !.ports = @ \union Activated(Missing)]
  <2>1. Missing \subseteq Port /\ LoadCtx.ports \subseteq Port
    BY <1>0 DEF Missing, TypeOK
  <2>2. c \in [subnet : BOOLEAN, ports : SUBSET Port]
    BY <1>0, <2>1, ActivatedType
  <2>. HIDE DEF c
  <2>3. /\ ctx' \in [subnet : BOOLEAN, ports : SUBSET Port]
        /\ ctxValid' \in BOOLEAN
        /\ served' \subseteq Port
        /\ faults' \in 0 .. MaxFaults
    <3>1. CASE Missing = {}
      BY <1>0, <1>2, <3>1 DEF CreatePorts, TypeOK, plane
    <3>2. CASE Applied(c) \/ NotApplied
      BY <1>0, <2>2, <3>2, AppliedTypes
    <3>. QED
      BY <1>2, <3>1, <3>2 DEF CreatePorts, c
  <2>4. /\ netPorts' \subseteq Port
        /\ written' \subseteq Uuid
        /\ netWrites' \in [Node -> NodeNetwork \union {NoPort}]
    <3>1. CASE WriteCreated(Missing)
      BY <1>0, <2>1, <3>1, WriteCreatedTypes
    <3>2. CASE UNCHANGED <<netPorts, written, netWrites>>
      BY <1>0, <3>2 DEF TypeOK
    <3>. QED
      BY <1>2, <3>1, <3>2 DEF CreatePorts
  <2>. QED
    BY <1>0, <1>2, <2>1, <2>3, <2>4 DEF TypeInv, InsertInv, TypeOK, CreatePorts
<1>3. CASE DeletePorts
  <2>. DEFINE gone == Ids(actual) \ Ids(netPorts)
              c == [LoadCtx EXCEPT !.ports = {p \in @ : p.id \notin gone}]
  <2>1. c \in [subnet : BOOLEAN, ports : SUBSET Port]
    BY <1>0
  <2>. HIDE DEF c, gone
  <2>2. /\ ctx' \in [subnet : BOOLEAN, ports : SUBSET Port]
        /\ ctxValid' \in BOOLEAN
        /\ served' \subseteq Port
        /\ faults' \in 0 .. MaxFaults
    <3>1. CASE UNCHANGED <<plane, faults>>
      BY <1>0, <3>1 DEF TypeOK, plane
    <3>2. CASE Applied(c) \/ NotApplied
      BY <1>0, <2>1, <3>2, AppliedTypes
    <3>. QED
      BY <1>3, <3>1, <3>2 DEF DeletePorts, c, gone
  <2>. QED
    BY <1>0, <1>3, <2>2 DEF TypeInv, InsertInv, TypeOK, DeletePorts
<1>4. CASE ActualizePorts
  <2>. DEFINE late == {p \in netPorts : p.id \in Ids(actual) /\ p.status # "ACTIVE"}
  <2>1. late \subseteq Port
    BY <1>0 DEF TypeOK
  <2>2. netPorts' = (netPorts \ late) \union Activated(late)
    BY <1>4 DEF ActualizePorts
  <2>3. written' = written \union ExistingIds(late)
    BY <1>4 DEF ActualizePorts
  <2>4. netWrites' \in [Node -> NodeNetwork \union {NoPort}]
    BY <1>0, <1>4 DEF ActualizePorts, TypeOK
  <2>. HIDE DEF late
  <2>5. netPorts' \subseteq Port /\ written' \subseteq Uuid
    BY <1>0, <2>1, <2>2, <2>3, ActivatedType, ExistingIdsType DEF TypeOK
  <2>. QED
    BY <1>0, <1>4, <2>4, <2>5 DEF TypeInv, InsertInv, TypeOK, ActualizePorts, plane
<1>5. CASE Commit
  <2>1. ports' \subseteq Port
    BY <1>0, <1>5 DEF Commit, WrittenPorts, TypeOK
  <2>2. defaultNet' \in [Node -> NodeNetwork \union {NoPort}]
    BY <1>0, <1>5 DEF Commit, TypeOK
  <2>3. ResetLocals
    BY <1>5 DEF Commit
  <2>. QED
    BY <1>0, <1>5, <2>1, <2>2, <2>3, ResetTypes DEF TypeInv, InsertInv, TypeOK, Commit, plane
<1>6. CASE Crash
  <2>1. faults' \in 0 .. MaxFaults
    BY <1>0, <1>6, NetworkAssumption DEF Crash, TypeOK
  <2>2. ResetLocals
    BY <1>6 DEF Crash
  <2>. QED
    BY <1>0, <1>6, <2>1, <2>2, ResetTypes DEF TypeInv, InsertInv, TypeOK, Crash
<1>. QED
  BY <1>1, <1>2, <1>3, <1>4, <1>5, <1>6

LEMMA StepTypeInv == TypeInv /\ [Next]_vars => TypeInv'
<1>. SUFFICES ASSUME TypeInv, [Next]_vars PROVE TypeInv'
  OBVIOUS
<1>1. CASE UNCHANGED vars
  BY <1>1 DEF vars, db, iter, tx, plane, TypeInv, InsertInv, TypeOK
<1>2. CASE Service
  BY <1>2, AllocationTypeInv, DataPlaneTypeInv DEF Service
<1>3. CASE Environment
  BY <1>3, EnvironmentTypeInv
<1>4. CASE Crash
  BY <1>4, DataPlaneTypeInv
<1>. QED
  BY <1>1, <1>2, <1>3, <1>4 DEF Next

(* Every variable of the service, the tables and the data plane keeps its  *)
(* type.  The insert step is why this is not immediate: it reads the local *)
(* `port`, which is bound only because an allocation preceded it.          *)
THEOREM TypesHold == Spec => []TypeOK
<1>1. TypeInv => TypeOK
  BY DEF TypeInv
<1>. QED
  BY InitTypeInv, StepTypeInv, <1>1, PTL DEF Spec

-----------------------------------------------------------------------------
(* Unique addresses.                                                       *)

\* An identifier names one row, in the table, in the subnet map, and between
\* the two, whatever its status.
IdInv == /\ \A p, q \in ports : p.id = q.id => p = q
         /\ \A p, q \in netPorts : p.id = q.id => p = q
         /\ \A p \in ports, q \in netPorts : p.id = q.id => p.node = q.node /\ p.ip = q.ip

\* Once read, the subnet map has every port of the table: only this service
\* adds ports.
MapInv == pc \notin {"idle", "map"} => \A p \in ports : \E q \in netPorts : q.id = p.id

Apart(p, q) == p.ip = q.ip => staleFreed \/ Chosen(p) \/ Chosen(q)

NetInv == \A p, q \in netPorts : p # q => Apart(p, q)

\* While ports are still to be allocated, the free list offers no address of
\* the subnet map, except those the constructor has yet to exclude.
PoolInv ==
    pc \in {"alloc", "insert"} /\ ~staleFreed =>
        /\ WellFormed(pool)
        /\ ~aborted /\ (newVm # {} \/ newHw # {} \/ pc = "insert") =>
               \A p \in netPorts \ todo : p.ip \notin FreeAddresses(pool)

AddressInv == IdInv /\ MapInv /\ NetInv /\ PoolInv /\ UniqueIp

LEMMA InitAddressInv == Init => AddressInv
BY DEF Init, AddressInv, IdInv, MapInv, NetInv, PoolInv, UniqueIp

\* Changing the status of some rows changes no identifier, node or address.
LEMMA Rewritten ==
    ASSUME NEW S \in SUBSET Port, NEW P \in SUBSET S,
           \A p, q \in S : p.id = q.id => p = q
    PROVE  LET T == (S \ P) \union Activated(P)
           IN  /\ \A t \in T : \E s \in S : s.id = t.id /\ s.node = t.node /\ s.ip = t.ip
               /\ \A s \in S : \E t \in T : t.id = s.id
               /\ \A t, u \in T : t.id = u.id => t = u
<1>. DEFINE act(p) == [p EXCEPT !.status = "ACTIVE"]
            T == (S \ P) \union Activated(P)
<1>1. \A p \in P : act(p).id = p.id /\ act(p).node = p.node /\ act(p).ip = p.ip
  BY DEF Port
<1>2. Activated(P) = {act(p) : p \in P}
  BY DEF Activated
<1>. HIDE DEF act
<1>3. \A t \in T : \/ t \in S /\ t \notin P
                   \/ \E p \in P : t = act(p)
  BY <1>2
<1>4. \A t \in T : \E s \in S : s.id = t.id /\ s.node = t.node /\ s.ip = t.ip
  BY <1>1, <1>3
<1>5. \A s \in S : \E t \in T : t.id = s.id
  BY <1>1, <1>2
<1>6. \A t, u \in T : t.id = u.id => t = u
  BY <1>1, <1>3
<1>. QED
  BY <1>4, <1>5, <1>6

\* Such a change, with the table and the allocation state as they were.
LEMMA RewrittenAddressInv ==
    ASSUME TypeInv, AddressInv, NEW P \in SUBSET netPorts,
           netPorts' = (netPorts \ P) \union Activated(P),
           ports' = ports, staleFreed' = staleFreed,
           pc \notin {"idle", "map"}, pc' \notin {"alloc", "insert"}
    PROVE  AddressInv'
<1>1. netPorts \in SUBSET Port /\ \A p, q \in netPorts : p.id = q.id => p = q
  BY DEF TypeInv, TypeOK, AddressInv, IdInv
<1>2. /\ \A t \in netPorts' : \E s \in netPorts : s.id = t.id /\ s.node = t.node /\ s.ip = t.ip
      /\ \A s \in netPorts : \E t \in netPorts' : t.id = s.id
      /\ \A t, u \in netPorts' : t.id = u.id => t = u
  BY <1>1, Rewritten
<1>3. IdInv'
  BY <1>2 DEF AddressInv, IdInv
<1>4. MapInv'
  BY <1>2 DEF AddressInv, MapInv
<1>5. NetInv'
  <2>. SUFFICES ASSUME NEW t \in netPorts', NEW u \in netPorts', t # u PROVE Apart(t, u)'
    BY DEF NetInv
  <2>1. PICK p \in netPorts : p.id = t.id /\ p.node = t.node /\ p.ip = t.ip
    BY <1>2
  <2>2. PICK q \in netPorts : q.id = u.id /\ q.node = u.node /\ q.ip = u.ip
    BY <1>2
  <2>3. p # q
    BY <1>2, <2>1, <2>2
  <2>4. Apart(p, q)
    BY <2>3 DEF AddressInv, NetInv
  <2>. QED
    BY <2>1, <2>2, <2>4 DEF Apart, Chosen
<1>6. PoolInv'
  BY DEF PoolInv
<1>7. UniqueIp'
  BY DEF AddressInv, UniqueIp, SharedIp, Chosen
<1>. QED
  BY <1>3, <1>4, <1>5, <1>6, <1>7 DEF AddressInv

\* A port with a fresh identifier whose address, unless its node chose it, was
\* on offer.
LEMMA AddedPort ==
    ASSUME TypeInv, AddressInv, NEW n \in Node, HasFreshId, pool # << >>,
           pc = "alloc", todo = {}, ~aborted, newVm # {} \/ newHw # {},
           netPorts' = netPorts \union {NewPort(n)},
           ports' = ports, staleFreed' = staleFreed, todo' = todo,
           pool' = PoolWithout(n), pc' \in {"alloc", "insert"}
    PROVE  AddressInv'
<1>. DEFINE r == NewPort(n)
<1>1. TypeOK /\ pool \in Seq(IpRange)
  BY DEF TypeInv, TypeOK
<1>2. r.id = FreshId /\ r.node = n /\ r.ip = AddressFor(n) /\ r \in Port
  BY <1>1, AllocationTypes DEF NewPort
<1>3. \A p \in ports \union netPorts : p.id # r.id
  BY <1>2, FreshIdIsFresh DEF UsedIds, Ids
<1>. HIDE DEF r
<1>4. netPorts' = netPorts \union {r}
  BY DEF r
<1>5. IdInv'
  BY <1>3, <1>4 DEF AddressInv, IdInv
<1>6. MapInv'
  BY <1>4 DEF AddressInv, MapInv
<1>7. ASSUME ~staleFreed
      PROVE  /\ WellFormed(pool')
             /\ FreeAddresses(pool') = FreeAddresses(pool) \ {r.ip}
             /\ ~Chosen(r) => r.ip \in FreeAddresses(pool)
  <2>1. WellFormed(pool)
    BY <1>7 DEF AddressInv, PoolInv
  <2>2. TargetOf(n) \in Int \union {NoIp}
    BY NetworkAssumption DEF TargetOf
  <2>3. CASE TargetOf(n) = NoIp
    <3>1. r.ip = FirstFree(pool) /\ pool' = TakeFirst(pool)
      BY <1>2, <2>3 DEF AddressFor, PoolWithout
    <3>. QED
      BY <2>1, <3>1, TakeFirstCorrect
  <2>4. CASE TargetOf(n) # NoIp
    <3>1. r.ip = TargetOf(n) /\ pool' = OccupyIp(pool, TargetOf(n)) /\ Chosen(r)
      BY <1>2, <2>4 DEF AddressFor, PoolWithout, Chosen
    <3>. QED
      BY <2>1, <2>2, <2>4, <3>1, OccupyIpCorrect
  <2>. QED
    BY <2>3, <2>4
<1>8. ~staleFreed => \A p \in netPorts : p.ip \notin FreeAddresses(pool)
  BY DEF AddressInv, PoolInv
<1>9. NetInv'
  <2>1. ASSUME NEW p \in netPorts PROVE Apart(p, r) /\ Apart(r, p)
    <3>1. CASE staleFreed
      BY <3>1 DEF Apart
    <3>2. CASE ~staleFreed
      BY <1>7, <1>8, <3>2 DEF Apart
    <3>. QED
      BY <3>1, <3>2
  <2>2. \A p, q \in netPorts' : p # q => Apart(p, q)
    BY <1>4, <2>1 DEF AddressInv, NetInv
  <2>. QED
    BY <2>2 DEF NetInv, Apart, Chosen
<1>10. PoolInv'
  <2>. SUFFICES ASSUME ~staleFreed
                PROVE  WellFormed(pool') /\ \A p \in netPorts' : p.ip \notin FreeAddresses(pool')
    BY DEF PoolInv
  <2>. QED
    BY <1>4, <1>7, <1>8
<1>11. UniqueIp'
  BY DEF AddressInv, UniqueIp, SharedIp, Chosen
<1>. QED
  BY <1>5, <1>6, <1>9, <1>10, <1>11 DEF AddressInv

\* Nothing that AddressInv speaks of grows.
LEMMA ShrunkTable ==
    ASSUME AddressInv, ports' \subseteq ports, netPorts' = netPorts, pc' = pc,
           pool' = pool, todo' = todo, newVm' = newVm, newHw' = newHw,
           aborted' = aborted, staleFreed' = staleFreed
    PROVE  AddressInv'
<1>1. IdInv' /\ MapInv'
  BY DEF AddressInv, IdInv, MapInv
<1>2. NetInv' /\ UniqueIp'
  BY DEF AddressInv, NetInv, UniqueIp, Apart, SharedIp, Chosen
<1>3. PoolInv'
  BY DEF AddressInv, PoolInv
<1>. QED
  BY <1>1, <1>2, <1>3 DEF AddressInv

\* The end of an iteration that leaves the table as it is.
LEMMA Forgotten ==
    ASSUME AddressInv, ResetLocals, ports' = ports, staleFreed' = staleFreed
    PROVE  AddressInv'
<1>1. pc' = "idle" /\ netPorts' = {}
  BY DEF ResetLocals
<1>2. IdInv' /\ MapInv'
  BY <1>1 DEF AddressInv, IdInv, MapInv
<1>3. NetInv' /\ UniqueIp'
  BY <1>1 DEF AddressInv, NetInv, UniqueIp, Apart, SharedIp, Chosen
<1>4. PoolInv'
  BY <1>1 DEF PoolInv
<1>. QED
  BY <1>2, <1>3, <1>4 DEF AddressInv

LEMMA AllocationAddressInv ==
    ASSUME TypeInv, AddressInv,
           \/ Begin \/ ReadSubnetMap \/ ReadHwNodes \/ ExcludePort
           \/ \E n \in VmNode : AllocatePort(n) \/ FailAllocation(n) \/ FailUnbound(n)
           \/ InsertPort \/ FailInsert
           \/ \E n \in HwNode : AllocateHw(n) \/ FailHw(n)
    PROVE  AddressInv'
<1>. USE DEF db, iter, tx
<1>0. TypeOK
  BY DEF TypeInv
<1>1. CASE Begin
  <2>1. IdInv' /\ MapInv' /\ PoolInv'
    BY <1>1 DEF Begin, AddressInv, IdInv, MapInv, PoolInv
  <2>2. NetInv' /\ UniqueIp'
    BY <1>1 DEF Begin, AddressInv, NetInv, UniqueIp, Apart, SharedIp, Chosen
  <2>. QED
    BY <2>1, <2>2 DEF AddressInv
<1>2. CASE ReadSubnetMap
  <2>1. IdInv' /\ MapInv' /\ PoolInv'
    BY <1>2 DEF ReadSubnetMap, AddressInv, IdInv, MapInv, PoolInv
  <2>2. NetInv' /\ UniqueIp'
    BY <1>2 DEF ReadSubnetMap, AddressInv, NetInv, UniqueIp, Apart, SharedIp, Chosen
  <2>. QED
    BY <2>1, <2>2 DEF AddressInv
<1>3. CASE ReadHwNodes
  <2>1. IdInv' /\ MapInv'
    BY <1>3 DEF ReadHwNodes, AddressInv, IdInv, MapInv
  <2>2. NetInv' /\ UniqueIp'
    BY <1>3 DEF ReadHwNodes, AddressInv, NetInv, UniqueIp, Apart, SharedIp, Chosen
  <2>3. WellFormed(pool')
    BY <1>3, SingleRange, NetworkAssumption DEF ReadHwNodes
  <2>4. newVm' # {} \/ newHw' # {} => netPorts' \ todo' = {}
    BY <1>3 DEF ReadHwNodes
  <2>5. pc' = "alloc"
    BY <1>3 DEF ReadHwNodes
  <2>6. PoolInv'
    BY <2>3, <2>4, <2>5 DEF PoolInv
  <2>. QED
    BY <2>1, <2>2, <2>6 DEF AddressInv
<1>4. CASE ExcludePort
  <2>. DEFINE p == CHOOSE q \in todo : TRUE
  <2>1. p \in todo /\ p.ip \in Int
    BY <1>0, <1>4, PortFields DEF TypeOK, ExcludePort
  <2>2. IdInv' /\ MapInv'
    BY <1>4 DEF ExcludePort, AddressInv, IdInv, MapInv
  <2>3. NetInv' /\ UniqueIp'
    BY <1>4 DEF ExcludePort, AddressInv, NetInv, UniqueIp, Apart, SharedIp, Chosen
  <2>4. pc = "alloc" /\ todo' = todo \ {p} /\ pool' = OccupyIp(pool, p.ip)
    BY <1>4 DEF ExcludePort
  <2>. HIDE DEF p
  <2>5. PoolInv'
    <3>. SUFFICES ASSUME ~staleFreed PROVE PoolInv'
      BY <1>4 DEF PoolInv, ExcludePort
    <3>1. WellFormed(pool)
      BY <2>4 DEF AddressInv, PoolInv
    <3>2. /\ WellFormed(pool')
          /\ FreeAddresses(pool') = FreeAddresses(pool) \ {p.ip}
      BY <2>1, <2>4, <3>1, OccupyIpCorrect
    <3>. QED
      BY <1>4, <2>4, <3>2 DEF AddressInv, PoolInv, ExcludePort
  <2>. QED
    BY <2>2, <2>3, <2>5 DEF AddressInv
<1>5. ASSUME NEW n \in VmNode, AllocatePort(n) PROVE AddressInv'
  <2>1. /\ n \in Node /\ HasFreshId /\ pool # << >>
        /\ pc = "alloc" /\ todo = {} /\ ~aborted /\ newVm # {}
    BY <1>5 DEF AllocatePort, Serving, CannotAllocate, Node
  <2>2. /\ netPorts' = netPorts \union {NewPort(n)}
        /\ ports' = ports /\ staleFreed' = staleFreed /\ todo' = todo
        /\ pool' = PoolWithout(n) /\ pc' \in {"alloc", "insert"}
    BY <1>5 DEF AllocatePort
  <2>. QED
    BY <2>1, <2>2, AddedPort
<1>6. ASSUME NEW n \in VmNode, FailAllocation(n) PROVE AddressInv'
  <2>1. IdInv' /\ MapInv'
    BY <1>6 DEF FailAllocation, AddressInv, IdInv, MapInv
  <2>2. staleFreed'
    BY <1>6 DEF FailAllocation
  <2>3. NetInv' /\ UniqueIp' /\ PoolInv'
    BY <2>2 DEF NetInv, Apart, UniqueIp, PoolInv
  <2>. QED
    BY <2>1, <2>3 DEF AddressInv
<1>7. ASSUME NEW n \in VmNode, FailUnbound(n) PROVE AddressInv'
  BY <1>7, Forgotten DEF FailUnbound
<1>8. CASE InsertPort
  <2>1. IdInv' /\ MapInv'
    BY <1>8 DEF InsertPort, AddressInv, IdInv, MapInv
  <2>2. NetInv' /\ UniqueIp'
    BY <1>8 DEF InsertPort, AddressInv, NetInv, UniqueIp, Apart, SharedIp, Chosen
  <2>3. PoolInv'
    BY <1>8 DEF InsertPort, AddressInv, PoolInv
  <2>. QED
    BY <2>1, <2>2, <2>3 DEF AddressInv
<1>9. CASE FailInsert
  <2>1. IdInv' /\ MapInv'
    BY <1>9 DEF FailInsert, AddressInv, IdInv, MapInv
  <2>2. NetInv' /\ UniqueIp'
    BY <1>9 DEF FailInsert, AddressInv, NetInv, UniqueIp, Apart, SharedIp, Chosen
  <2>3. port \in netPorts /\ todo = {} /\ ~aborted /\ port.ip \in Int
    BY <1>9, PortFields DEF FailInsert, TypeInv, TypeOK, InsertInv
  <2>4. ~staleFreed => WellFormed(pool) /\ port.ip \notin FreeAddresses(pool)
    BY <1>9, <2>3 DEF FailInsert, AddressInv, PoolInv
  <2>5. ~staleFreed => WellFormed(pool')
    BY <1>9, <2>3, <2>4, DeallocateIpCorrect DEF FailInsert
  <2>6. aborted' /\ staleFreed' = staleFreed
    BY <1>9 DEF FailInsert
  <2>7. PoolInv'
    BY <2>5, <2>6 DEF PoolInv
  <2>. QED
    BY <2>1, <2>2, <2>7 DEF AddressInv
<1>10. ASSUME NEW n \in HwNode, AllocateHw(n) PROVE AddressInv'
  <2>1. /\ n \in Node /\ HasFreshId /\ pool # << >>
        /\ pc = "alloc" /\ todo = {} /\ ~aborted /\ newHw # {}
    BY <1>10 DEF AllocateHw, ServingHw, Node
  <2>2. PoolWithout(n) = TakeFirst(pool)
    BY NetworkAssumption DEF PoolWithout, TargetOf
  <2>3. /\ netPorts' = netPorts \union {NewPort(n)}
        /\ ports' = ports /\ staleFreed' = staleFreed /\ todo' = todo
        /\ pool' = PoolWithout(n) /\ pc' \in {"alloc", "insert"}
    BY <1>10, <2>1, <2>2 DEF AllocateHw
  <2>. QED
    BY <2>1, <2>3, AddedPort
<1>11. ASSUME NEW n \in HwNode, FailHw(n) PROVE AddressInv'
  <2>1. IdInv' /\ MapInv'
    BY <1>11 DEF FailHw, AddressInv, IdInv, MapInv
  <2>2. NetInv' /\ UniqueIp'
    BY <1>11 DEF FailHw, AddressInv, NetInv, UniqueIp, Apart, SharedIp, Chosen
  <2>3. pc = "alloc" /\ pc' = "alloc" /\ staleFreed' = staleFreed
    BY <1>11 DEF FailHw, ServingHw
  <2>4. CASE pool = << >>
    <3>1. pool' = pool /\ (~aborted' => ~aborted) /\ newHw' \subseteq newHw
      BY <1>11, <2>4 DEF FailHw
    <3>2. PoolInv'
      BY <1>11, <2>3, <3>1 DEF FailHw, AddressInv, PoolInv
    <3>. QED
      BY <2>1, <2>2, <3>2 DEF AddressInv
  <2>5. CASE pool # << >>
    <3>1. pool' = TakeFirst(pool) /\ aborted'
      BY <1>11, <2>5 DEF FailHw
    <3>2. ~staleFreed => WellFormed(pool')
      BY <2>3, <2>5, <3>1, TakeFirstCorrect DEF AddressInv, PoolInv
    <3>3. PoolInv'
      BY <2>3, <3>1, <3>2 DEF PoolInv
    <3>. QED
      BY <2>1, <2>2, <3>3 DEF AddressInv
  <2>. QED
    BY <2>4, <2>5
<1>. QED
  BY <1>1, <1>2, <1>3, <1>4, <1>5, <1>6, <1>7, <1>8, <1>9, <1>10, <1>11

LEMMA DataPlaneAddressInv ==
    ASSUME TypeInv, AddressInv,
           CreateSubnet \/ CreatePorts \/ DeletePorts \/ ActualizePorts
    PROVE  AddressInv'
<1>. USE DEF db, iter, tx
<1>1. \A S : {} \in SUBSET S /\ S = (S \ {}) \union Activated({})
  BY DEF Activated
<1>2. CASE CreateSubnet
  <2>1. /\ netPorts' = netPorts /\ ports' = ports /\ staleFreed' = staleFreed
        /\ pc \notin {"idle", "map"} /\ pc' \notin {"alloc", "insert"}
    BY <1>2 DEF CreateSubnet, Allocated
  <2>. QED
    BY <1>1, <2>1, RewrittenAddressInv
<1>3. CASE CreatePorts
  <2>1. /\ ports' = ports /\ staleFreed' = staleFreed
        /\ pc \notin {"idle", "map"} /\ pc' \notin {"alloc", "insert"}
    BY <1>3 DEF CreatePorts, Allocated
  <2>2. CASE netPorts' = netPorts
    BY <1>1, <2>1, <2>2, RewrittenAddressInv
  <2>3. CASE WriteCreated(Missing)
    <3>1. Missing \in SUBSET netPorts
      BY DEF Missing
    <3>2. netPorts' = (netPorts \ Missing) \union Activated(Missing)
      BY <2>3 DEF WriteCreated
    <3>. QED
      BY <2>1, <3>1, <3>2, RewrittenAddressInv
  <2>. QED
    BY <1>3, <2>2, <2>3 DEF CreatePorts
<1>4. CASE DeletePorts
  <2>1. /\ netPorts' = netPorts /\ ports' = ports /\ staleFreed' = staleFreed
        /\ pc \notin {"idle", "map"} /\ pc' \notin {"alloc", "insert"}
    BY <1>4 DEF DeletePorts
  <2>. QED
    BY <1>1, <2>1, RewrittenAddressInv
<1>5. CASE ActualizePorts
  <2>. DEFINE late == {p \in netPorts : p.id \in Ids(actual) /\ p.status # "ACTIVE"}
  <2>1. /\ ports' = ports /\ staleFreed' = staleFreed
        /\ pc \notin {"idle", "map"} /\ pc' \notin {"alloc", "insert"}
        /\ netPorts' = (netPorts \ late) \union Activated(late)
    BY <1>5 DEF ActualizePorts
  <2>2. late \in SUBSET netPorts
    OBVIOUS
  <2>. HIDE DEF late
  <2>. QED
    BY <2>1, <2>2, RewrittenAddressInv
<1>. QED
  BY <1>2, <1>3, <1>4, <1>5

(***************************************************************************)
(* The commit: rows of this iteration against rows it did not touch.  An   *)
(* untouched row has its copy in the subnet map, and there the addresses   *)
(* are apart.                                                              *)
(***************************************************************************)
LEMMA CommitAddressInv ==
    ASSUME TypeInv, AddressInv, Commit
    PROVE  AddressInv'
<1>1. ResetLocals /\ staleFreed' = staleFreed /\ pc = "commit"
  BY DEF Commit
<1>2. CASE aborted
  <2>1. ports' = ports
    BY <1>2 DEF Commit
  <2>. QED
    BY <1>1, <2>1, Forgotten
<1>3. CASE ~aborted
  <2>1. ports' = {p \in ports : p.id \notin written} \union {p \in netPorts : p.id \in written}
    BY <1>3 DEF Commit, WrittenPorts
  <2>2. \A p \in ports' : \E q \in netPorts : q.id = p.id /\ q.node = p.node /\ q.ip = p.ip
    BY <1>1, <2>1 DEF AddressInv, IdInv, MapInv
  <2>3. \A p, q \in ports' : p.id = q.id => p = q
    BY <2>1 DEF AddressInv, IdInv
  <2>4. pc' = "idle" /\ netPorts' = {}
    BY <1>1 DEF ResetLocals
  <2>5. IdInv' /\ MapInv' /\ PoolInv' /\ NetInv'
    BY <2>3, <2>4 DEF IdInv, MapInv, PoolInv, NetInv
  <2>6. ASSUME NEW p \in ports', NEW q \in ports', SharedIp(p, q)
        PROVE  staleFreed \/ Chosen(p) \/ Chosen(q)
    <3>1. PICK r \in netPorts : r.id = p.id /\ r.node = p.node /\ r.ip = p.ip
      BY <2>2
    <3>2. PICK t \in netPorts : t.id = q.id /\ t.node = q.node /\ t.ip = q.ip
      BY <2>2
    <3>3. r # t
      BY <2>3, <2>6, <3>1, <3>2 DEF SharedIp
    <3>4. Apart(r, t)
      BY <3>3 DEF AddressInv, NetInv
    <3>. QED
      BY <2>6, <3>1, <3>2, <3>4 DEF SharedIp, Apart, Chosen
  <2>7. UniqueIp'
    BY <1>1, <2>6 DEF UniqueIp, SharedIp, Chosen
  <2>. QED
    BY <2>5, <2>7 DEF AddressInv
<1>. QED
  BY <1>2, <1>3

LEMMA StepAddressInv == TypeInv /\ AddressInv /\ [Next]_vars => AddressInv'
<1>. SUFFICES ASSUME TypeInv, AddressInv, [Next]_vars PROVE AddressInv'
  OBVIOUS
<1>. USE DEF db, iter, tx
<1>1. CASE UNCHANGED vars
  BY <1>1, ShrunkTable DEF vars
<1>2. CASE Service
  BY <1>2, AllocationAddressInv, DataPlaneAddressInv, CommitAddressInv DEF Service
<1>3. CASE Environment
  <2>1. ASSUME NEW n \in Node, CreateNode(n) PROVE AddressInv'
    BY <2>1, ShrunkTable DEF CreateNode
  <2>2. ASSUME NEW n \in Node, DeleteNode(n) PROVE AddressInv'
    BY <2>2, ShrunkTable DEF DeleteNode
  <2>3. ASSUME NEW n \in HwNode, PlaceHw(n) PROVE AddressInv'
    BY <2>3, ShrunkTable DEF PlaceHw
  <2>4. ASSUME NEW n \in HwNode, LoseMachine(n) PROVE AddressInv'
    BY <2>4, ShrunkTable DEF LoseMachine
  <2>. QED
    BY <1>3, <2>1, <2>2, <2>3, <2>4 DEF Environment
<1>4. CASE Crash
  BY <1>4, Forgotten DEF Crash
<1>. QED
  BY <1>1, <1>2, <1>3, <1>4 DEF Next

(* No interleaving with users and agents, no failed statement and no       *)
(* restart makes the service give one address to two ports: two ports      *)
(* share an address only if a node chose it, or after the handler of a     *)
(* failed allocation gave back the address of another node's port.         *)
THEOREM AddressesAreUnique == Spec => []UniqueIp
<1>1. TypeInv /\ AddressInv => UniqueIp
  BY DEF AddressInv
<1>2. TypeInv /\ AddressInv /\ [Next]_vars => (TypeInv /\ AddressInv)'
  BY StepTypeInv, StepAddressInv
<1>. QED
  BY InitTypeInv, InitAddressInv, <1>1, <1>2, PTL DEF Spec

-----------------------------------------------------------------------------
(* One port per node.                                                      *)

\* A port of the subnet map that is a row of the table or becomes one at the
\* commit.  The others are remains: the row was deleted since it was read, or
\* its insert failed.
Real(p) == p.id \in Ids(ports) \union written

\* A node the iteration has no more port to make for.
Done(n) == n \notin newVm \union newHw

BeforeAllocation == pc \in {"idle", "map", "hw"} => written = {} /\ newHw = {}

\* The reads were made at different times, but each excludes the nodes that
\* have a port: those of newVm against the table, then, as the subnet map is
\* read after them and the HW nodes after it, against the map.
MapTell ==
    /\ pc = "map" => \A p \in ports : p.node \notin newVm
    /\ pc \notin {"idle", "map"} =>
          \A p \in netPorts : Real(p) => Done(p.node)

SoleInv ==
    /\ pc \notin {"idle", "map"} =>
          \A p, q \in netPorts : Real(p) /\ Real(q) /\ p.node = q.node => p = q
    /\ pc = "insert" =>
          /\ Done(port.node)
          /\ \A p \in netPorts : Real(p) /\ p.node = port.node => p = port

NodeInv == /\ written \subseteq Ids(netPorts)
           /\ BeforeAllocation /\ MapTell /\ SoleInv /\ OnePortPerNode

LEMMA InitNodeInv == Init => NodeInv
BY DEF Init, NodeInv, BeforeAllocation, MapTell, SoleInv, OnePortPerNode

\* Rows may go, and nodes be served: nothing new is said.
LEMMA KeptNodeInv ==
    ASSUME NodeInv, ports' \subseteq ports, netPorts' = netPorts, written' = written,
           port' = port, newVm' \subseteq newVm, newHw' \subseteq newHw,
           \/ pc' = pc
           \/ pc \notin {"idle", "map", "hw"} /\ pc' \notin {"idle", "map", "hw", "insert"}
    PROVE  NodeInv'
<1>1. Ids(ports') \subseteq Ids(ports) /\ Ids(netPorts') = Ids(netPorts)
  BY DEF Ids
<1>2. \A p : Real(p)' => Real(p)
  BY <1>1 DEF Real
<1>3. \A n : Done(n) => Done(n)'
  BY DEF Done
<1>4. written' \subseteq Ids(netPorts') /\ BeforeAllocation'
  BY <1>1 DEF NodeInv, BeforeAllocation
<1>5. MapTell'
  BY <1>2, <1>3 DEF NodeInv, MapTell
<1>6. SoleInv'
  BY <1>2, <1>3 DEF NodeInv, SoleInv
<1>7. OnePortPerNode'
  BY DEF NodeInv, OnePortPerNode
<1>. QED
  BY <1>4, <1>5, <1>6, <1>7 DEF NodeInv

LEMMA ForgottenNodeInv ==
    ASSUME NodeInv, ResetLocals, OnePortPerNode'
    PROVE  NodeInv'
BY DEF ResetLocals, NodeInv, BeforeAllocation, MapTell, SoleInv, OnePortPerNode

\* Statuses change and rows of the table join the transaction: no port becomes
\* real, and none takes another node.
LEMMA RewrittenNodeInv ==
    ASSUME TypeInv, AddressInv, NodeInv, NEW P \in SUBSET netPorts,
           netPorts' = (netPorts \ P) \union Activated(P),
           written' = written \union ExistingIds(P),
           ports' = ports, newVm' = newVm, newHw' = newHw,
           pc \notin {"idle", "map", "hw"}, pc' \notin {"idle", "map", "hw", "insert"}
    PROVE  NodeInv'
<1>1. netPorts \in SUBSET Port /\ \A p, q \in netPorts : p.id = q.id => p = q
  BY DEF TypeInv, TypeOK, AddressInv, IdInv
<1>2. /\ \A t \in netPorts' : \E s \in netPorts : s.id = t.id /\ s.node = t.node /\ s.ip = t.ip
      /\ \A s \in netPorts : \E t \in netPorts' : t.id = s.id
      /\ \A t, u \in netPorts' : t.id = u.id => t = u
  BY <1>1, Rewritten
<1>3. Ids(netPorts') = Ids(netPorts) /\ ExistingIds(P) \subseteq Ids(netPorts)
  BY <1>2 DEF Ids, ExistingIds
<1>4. Ids(ports') \union written' = Ids(ports) \union written
  BY DEF ExistingIds
<1>5. \A t \in netPorts' : Real(t)' => \E s \in netPorts : s.id = t.id /\ s.node = t.node /\ Real(s)
  BY <1>2, <1>4 DEF Real
<1>6. written' \subseteq Ids(netPorts') /\ BeforeAllocation'
  BY <1>3 DEF NodeInv, BeforeAllocation
<1>7. MapTell'
  BY <1>5 DEF NodeInv, MapTell, Done
<1>8. SoleInv'
  BY <1>2, <1>5 DEF NodeInv, SoleInv
<1>9. OnePortPerNode'
  BY DEF NodeInv, OnePortPerNode
<1>. QED
  BY <1>6, <1>7, <1>8, <1>9 DEF NodeInv

\* A fresh port for a node that is still to be served; ids of the map are
\* those of the old one and the fresh one.
LEMMA FreshPort ==
    ASSUME TypeInv, NodeInv, NEW n \in Node, HasFreshId
    PROVE  /\ NewPort(n).id = FreshId /\ NewPort(n).node = n
           /\ FreshId \notin Ids(ports) \union Ids(netPorts) \union written
BY FreshIdIsFresh DEF NewPort, UsedIds, NodeInv

LEMMA AllocationNodeInv ==
    ASSUME TypeInv, AddressInv, NodeInv,
           \/ Begin \/ ReadSubnetMap \/ ReadHwNodes \/ ExcludePort
           \/ \E n \in VmNode : AllocatePort(n) \/ FailAllocation(n) \/ FailUnbound(n)
           \/ InsertPort \/ FailInsert
           \/ \E n \in HwNode : AllocateHw(n) \/ FailHw(n)
    PROVE  NodeInv'
<1>. USE DEF db, iter, tx
<1>1. CASE Begin
  BY <1>1 DEF Begin, NodeInv, BeforeAllocation, MapTell, SoleInv, OnePortPerNode, NodesOf
<1>2. CASE ReadSubnetMap
  <2>1. /\ pc = "map" /\ pc' = "hw" /\ written = {} /\ written' = {} /\ newHw = {}
        /\ newHw' = {} /\ newVm' = newVm /\ netPorts' = ports /\ ports' = ports
    BY <1>2 DEF ReadSubnetMap, NodeInv, BeforeAllocation
  <2>. QED
    BY <2>1 DEF NodeInv, BeforeAllocation, MapTell, SoleInv, OnePortPerNode, Done
<1>3. CASE ReadHwNodes
  <2>1. /\ pc = "hw" /\ pc' = "alloc" /\ written = {} /\ written' = {} /\ newHw = {}
        /\ newHw' = placed \ NodesOf(ports) /\ newVm' = newVm
        /\ netPorts' = netPorts /\ ports' = ports
    BY <1>3 DEF ReadHwNodes, NodeInv, BeforeAllocation
  <2>2. \A p \in netPorts : Real(p)' => p.node \notin newHw' /\ Real(p)
    BY <2>1 DEF Real, NodesOf, Ids, AddressInv, IdInv
  <2>3. MapTell' /\ SoleInv'
    BY <2>1, <2>2 DEF NodeInv, MapTell, SoleInv, Done
  <2>. QED
    BY <2>1, <2>3 DEF NodeInv, BeforeAllocation, OnePortPerNode
<1>4. CASE ExcludePort
  BY <1>4, KeptNodeInv DEF ExcludePort
<1>5. ASSUME NEW n \in VmNode, AllocatePort(n) PROVE NodeInv'
  <2>. DEFINE r == NewPort(n)
  <2>1. n \in Node /\ n \notin HwNode /\ newHw \subseteq HwNode
    BY NetworkAssumption DEF Node, TypeInv, TypeOK
  <2>2. /\ pc = "alloc" /\ pc' = "insert" /\ n \in newVm /\ newVm' = newVm \ {n}
        /\ newHw' = newHw /\ port' = r /\ netPorts' = netPorts \union {r}
        /\ written' = written /\ ports' = ports
    BY <1>5 DEF AllocatePort, Serving
  <2>3. r.node = n /\ r.id \notin Ids(ports) \union written
    BY <1>5, <2>1, FreshPort DEF AllocatePort
  <2>. HIDE DEF r
  <2>4. \A p \in netPorts' : Real(p)' => p \in netPorts /\ Real(p)
    BY <2>2, <2>3 DEF Real
  <2>5. \A p \in netPorts : Real(p) => Done(p.node) /\ p.node # n
    BY <2>2 DEF NodeInv, MapTell, Done
  <2>6. MapTell' /\ SoleInv'
    BY <2>1, <2>2, <2>3, <2>4, <2>5 DEF NodeInv, MapTell, SoleInv, Done
  <2>. QED
    BY <2>2, <2>6 DEF NodeInv, BeforeAllocation, OnePortPerNode, Ids
<1>6. ASSUME NEW n \in VmNode, FailAllocation(n) PROVE NodeInv'
  <2>1. newVm' \subseteq newVm
    BY <1>6 DEF FailAllocation
  <2>. QED
    BY <1>6, <2>1, KeptNodeInv DEF FailAllocation
<1>7. ASSUME NEW n \in VmNode, FailUnbound(n) PROVE NodeInv'
  <2>1. OnePortPerNode'
    BY <1>7 DEF FailUnbound, NodeInv, OnePortPerNode
  <2>. QED
    BY <1>7, <2>1, ForgottenNodeInv DEF FailUnbound
<1>8. CASE InsertPort
  <2>1. /\ pc = "insert" /\ pc' = "alloc" /\ written' = written \union {port.id}
        /\ newVm' = newVm /\ newHw' = newHw /\ netPorts' = netPorts /\ ports' = ports
        /\ port \in netPorts
    BY <1>8 DEF InsertPort, TypeInv, InsertInv
  <2>2. \A p \in netPorts' : Real(p)' => p \in netPorts /\ (Real(p) \/ p = port)
    BY <2>1 DEF Real, AddressInv, IdInv
  <2>3. MapTell' /\ SoleInv'
    BY <2>1, <2>2 DEF NodeInv, MapTell, SoleInv, Done
  <2>. QED
    BY <2>1, <2>3 DEF NodeInv, BeforeAllocation, OnePortPerNode, Ids
<1>9. CASE FailInsert
  BY <1>9, KeptNodeInv DEF FailInsert
<1>10. ASSUME NEW n \in HwNode, AllocateHw(n) PROVE NodeInv'
  <2>. DEFINE r == NewPort(n)
  <2>1. n \in Node
    BY DEF Node
  <2>2. /\ pc = "alloc" /\ pc' = "alloc" /\ n \in newHw /\ newVm = {} /\ newHw' = newHw \ {n}
        /\ newVm' = newVm /\ netPorts' = netPorts \union {r}
        /\ written' = written \union {FreshId} /\ ports' = ports
    BY <1>10 DEF AllocateHw, ServingHw
  <2>3. r.node = n /\ r.id = FreshId /\ FreshId \notin Ids(netPorts)
    BY <1>10, <2>1, FreshPort DEF AllocateHw
  <2>. HIDE DEF r
  <2>4. \A p \in netPorts' : Real(p)' => (p \in netPorts /\ Real(p)) \/ p = r
    BY <2>2, <2>3 DEF Real, Ids
  <2>5. \A p \in netPorts : Real(p) => Done(p.node) /\ p.node # n
    BY <2>2 DEF NodeInv, MapTell, Done
  <2>6. MapTell' /\ SoleInv'
    BY <2>2, <2>3, <2>4, <2>5 DEF NodeInv, MapTell, SoleInv, Done
  <2>. QED
    BY <2>2, <2>3, <2>6 DEF NodeInv, BeforeAllocation, OnePortPerNode, Ids
<1>11. ASSUME NEW n \in HwNode, FailHw(n) PROVE NodeInv'
  <2>1. newHw' \subseteq newHw
    BY <1>11 DEF FailHw
  <2>. QED
    BY <1>11, <2>1, KeptNodeInv DEF FailHw
<1>. QED
  BY <1>1, <1>2, <1>3, <1>4, <1>5, <1>6, <1>7, <1>8, <1>9, <1>10, <1>11

LEMMA DataPlaneNodeInv ==
    ASSUME TypeInv, AddressInv, NodeInv,
           CreateSubnet \/ CreatePorts \/ DeletePorts \/ ActualizePorts
    PROVE  NodeInv'
<1>. USE DEF db, iter, tx
<1>1. CASE CreateSubnet
  BY <1>1, KeptNodeInv DEF CreateSubnet, Allocated
<1>2. CASE CreatePorts
  <2>1. /\ pc \notin {"idle", "map", "hw"} /\ pc' \notin {"idle", "map", "hw", "insert"}
        /\ ports' = ports /\ newVm' = newVm /\ newHw' = newHw /\ port' = port
    BY <1>2 DEF CreatePorts, Allocated
  <2>2. CASE UNCHANGED <<netPorts, written>>
    BY <2>1, <2>2, KeptNodeInv
  <2>3. CASE WriteCreated(Missing)
    <3>1. Missing \in SUBSET netPorts
      BY DEF Missing
    <3>. QED
      BY <2>1, <2>3, <3>1, RewrittenNodeInv DEF WriteCreated
  <2>. QED
    BY <1>2, <2>2, <2>3 DEF CreatePorts
<1>3. CASE DeletePorts
  BY <1>3, KeptNodeInv DEF DeletePorts
<1>4. CASE ActualizePorts
  <2>. DEFINE late == {p \in netPorts : p.id \in Ids(actual) /\ p.status # "ACTIVE"}
  <2>1. /\ pc \notin {"idle", "map", "hw"} /\ pc' \notin {"idle", "map", "hw", "insert"}
        /\ ports' = ports /\ newVm' = newVm /\ newHw' = newHw
        /\ netPorts' = (netPorts \ late) \union Activated(late)
        /\ written' = written \union ExistingIds(late)
    BY <1>4 DEF ActualizePorts
  <2>2. late \in SUBSET netPorts
    OBVIOUS
  <2>. HIDE DEF late
  <2>. QED
    BY <2>1, <2>2, RewrittenNodeInv
<1>. QED
  BY <1>1, <1>2, <1>3, <1>4

\* Every row of the committed table is a real port of the subnet map.
LEMMA CommitNodeInv ==
    ASSUME TypeInv, AddressInv, NodeInv, Commit
    PROVE  NodeInv'
<1>1. ResetLocals /\ pc = "commit"
  BY DEF Commit
<1>2. CASE aborted
  <2>1. OnePortPerNode'
    BY <1>2 DEF Commit, NodeInv, OnePortPerNode
  <2>. QED
    BY <1>1, <2>1, ForgottenNodeInv
<1>3. CASE ~aborted
  <2>1. ports' = {p \in ports : p.id \notin written} \union {p \in netPorts : p.id \in written}
    BY <1>3 DEF Commit, WrittenPorts
  <2>2. \A p \in ports' : \E r \in netPorts : Real(r) /\ r.id = p.id /\ r.node = p.node
    BY <1>1, <2>1 DEF AddressInv, MapInv, IdInv, Real, Ids
  <2>3. \A p, q \in ports' : p.id = q.id => p = q
    BY <2>1 DEF AddressInv, IdInv
  <2>4. ASSUME NEW p \in ports', NEW q \in ports', p.node = q.node PROVE p = q
    <3>1. PICK r \in netPorts : Real(r) /\ r.id = p.id /\ r.node = p.node
      BY <2>2
    <3>2. PICK t \in netPorts : Real(t) /\ t.id = q.id /\ t.node = q.node
      BY <2>2
    <3>3. r = t
      BY <1>1, <2>4, <3>1, <3>2 DEF NodeInv, SoleInv
    <3>. QED
      BY <2>3, <3>1, <3>2, <3>3
  <2>5. OnePortPerNode'
    BY <2>4 DEF OnePortPerNode
  <2>. QED
    BY <1>1, <2>5, ForgottenNodeInv
<1>. QED
  BY <1>2, <1>3

LEMMA StepNodeInv == TypeInv /\ AddressInv /\ NodeInv /\ [Next]_vars => NodeInv'
<1>. SUFFICES ASSUME TypeInv, AddressInv, NodeInv, [Next]_vars PROVE NodeInv'
  OBVIOUS
<1>. USE DEF db, iter, tx
<1>1. CASE UNCHANGED vars
  BY <1>1, KeptNodeInv DEF vars
<1>2. CASE Service
  BY <1>2, AllocationNodeInv, DataPlaneNodeInv, CommitNodeInv DEF Service
<1>3. CASE Environment
  <2>1. ASSUME NEW n \in Node, CreateNode(n) PROVE NodeInv'
    BY <2>1, KeptNodeInv DEF CreateNode
  <2>2. ASSUME NEW n \in Node, DeleteNode(n) PROVE NodeInv'
    BY <2>2, KeptNodeInv DEF DeleteNode
  <2>3. ASSUME NEW n \in HwNode, PlaceHw(n) PROVE NodeInv'
    BY <2>3, KeptNodeInv DEF PlaceHw
  <2>4. ASSUME NEW n \in HwNode, LoseMachine(n) PROVE NodeInv'
    BY <2>4, KeptNodeInv DEF LoseMachine
  <2>. QED
    BY <1>3, <2>1, <2>2, <2>3, <2>4 DEF Environment
<1>4. CASE Crash
  <2>1. ports' = ports /\ ResetLocals
    BY <1>4 DEF Crash
  <2>. QED
    BY <2>1, ForgottenNodeInv DEF NodeInv, OnePortPerNode
<1>. QED
  BY <1>1, <1>2, <1>3, <1>4 DEF Next

LEMMA NetworkInv == Spec => [](TypeInv /\ AddressInv /\ NodeInv)
<1>1. Init => TypeInv /\ AddressInv /\ NodeInv
  BY InitTypeInv, InitAddressInv, InitNodeInv
<1>2. TypeInv /\ AddressInv /\ NodeInv /\ [Next]_vars => (TypeInv /\ AddressInv /\ NodeInv)'
  BY StepTypeInv, StepAddressInv, StepNodeInv
<1>. QED
  BY <1>1, <1>2, PTL DEF Spec

(* A node never has two ports: not when users delete it or its machine     *)
(* between the reads of an iteration, not when an insert fails and leaves  *)
(* its port in the subnet map, and not when an iteration is rolled back or *)
(* the process dies after it told the DHCP server of the port.             *)
THEOREM NodesHaveOnePort == Spec => []OnePortPerNode
<1>1. NodeInv => OnePortPerNode
  BY DEF NodeInv
<1>. QED
  BY NetworkInv, <1>1, PTL

-----------------------------------------------------------------------------
(* What a VM node is told about its network is true.                       *)

\* A port belongs to a node that was created, and a node that still exists
\* keeps its rows: only the port about to be inserted, or a failed insert, is
\* in the subnet map without being real.
LifeInv ==
    /\ \A n \in newVm : life[n] # "none"
    /\ \A p \in ports \union netPorts : p.node \in VmNode => life[p.node] # "none"
    /\ \A p \in netPorts :
          p.node \in VmNode /\ life[p.node] = "live" /\ ~aborted =>
              Real(p) \/ (pc = "insert" /\ p = port)

\* A row is never ahead of its copy in the subnet map.
StatusInv ==
    \A p \in ports, q \in netPorts : p.id = q.id /\ p.status = "ACTIVE" => q.status = "ACTIVE"

\* What the transaction writes to a node is true of the rows it commits.
WriteInv ==
    /\ pc \notin {"delete", "status", "commit"} => netWrites = NoNets
    /\ ~aborted => \A n \in VmNode : netWrites[n] # NoPort =>
           \E p \in netPorts : /\ p.id \in written
                               /\ p.node = n /\ p.status = "ACTIVE"
                               /\ netWrites[n] = [id |-> p.id, ip |-> p.ip]

VmInv == LifeInv /\ StatusInv /\ WriteInv /\ VmNetworkIsTrue

LEMMA InitVmInv == Init => VmInv
<1>. SUFFICES ASSUME Init PROVE VmInv
  OBVIOUS
<1>1. LifeInv /\ StatusInv
  BY DEF Init, LifeInv, StatusInv
<1>2. WriteInv /\ VmNetworkIsTrue
  BY DEF Init, WriteInv, VmNetworkIsTrue, NoNets, Node
<1>. QED
  BY <1>1, <1>2 DEF VmInv

\* The iteration goes on without touching ports, statuses or rows.
LEMMA KeptVmInv ==
    ASSUME VmInv, life' = life, ports' = ports, defaultNet' = defaultNet,
           netPorts' = netPorts, written' = written, netWrites' = netWrites,
           newVm' \subseteq newVm, port' = port,
           aborted => aborted', pc' = pc \/ (pc' # "insert" /\ (pc = "insert" => aborted')),
           pc \in {"delete", "status", "commit"} => pc' \in {"delete", "status", "commit"}
    PROVE  VmInv'
<1>1. LifeInv'
  <2>1. \A p : Real(p) => Real(p)'
    BY DEF Real
  <2>. QED
    BY <2>1 DEF VmInv, LifeInv
<1>2. StatusInv' /\ VmNetworkIsTrue'
  BY DEF VmInv, StatusInv, VmNetworkIsTrue
<1>3. WriteInv'
  BY DEF VmInv, WriteInv
<1>. QED
  BY <1>1, <1>2, <1>3 DEF VmInv

LEMMA ForgottenVmInv ==
    ASSUME TypeInv, VmInv, ResetLocals, life' = life, VmNetworkIsTrue',
           \A p \in ports' : p.node \in VmNode => life[p.node] # "none"
    PROVE  VmInv'
<1>1. pc' = "idle" /\ newVm' = {} /\ netPorts' = {} /\ netWrites' = NoNets
  BY DEF ResetLocals
<1>2. LifeInv' /\ StatusInv'
  BY <1>1 DEF LifeInv, StatusInv
<1>3. WriteInv'
  BY <1>1 DEF WriteInv, NoNets, Node
<1>. QED
  BY <1>2, <1>3 DEF VmInv

LEMMA EnvironmentVmInv ==
    ASSUME TypeInv, AddressInv, VmInv, Environment
    PROVE  VmInv'
<1>. USE DEF iter, tx
<1>1. ASSUME NEW n \in Node, CreateNode(n) PROVE VmInv'
  <2>1. /\ life[n] = "none" /\ life' = [life EXCEPT ![n] = "live"]
        /\ life \in [Node -> {"none", "live", "gone"}]
    BY <1>1 DEF CreateNode, TypeInv, TypeOK
  <2>2. newVm \subseteq VmNode /\ VmNode \subseteq Node
    BY DEF TypeInv, TypeOK, Node
  <2>3. \A m \in VmNode : life[m] # "none" => life'[m] = life[m]
    BY <2>1, <2>2
  <2>4. LifeInv'
    <3>1. \A p : Real(p)' <=> Real(p)
      BY <1>1 DEF CreateNode, Real
    <3>2. /\ netPorts' = netPorts /\ newVm' = newVm /\ aborted' = aborted /\ pc' = pc
          /\ port' = port /\ ports' = ports
      BY <1>1 DEF CreateNode
    <3>. QED
      BY <2>2, <2>3, <3>1, <3>2 DEF VmInv, LifeInv
  <2>5. StatusInv' /\ VmNetworkIsTrue' /\ WriteInv'
    BY <1>1 DEF CreateNode, VmInv, StatusInv, VmNetworkIsTrue, WriteInv
  <2>. QED
    BY <2>4, <2>5 DEF VmInv
<1>2. ASSUME NEW n \in Node, DeleteNode(n) PROVE VmInv'
  <2>1. /\ life' = [life EXCEPT ![n] = "gone"] /\ ports' = {p \in ports : p.node # n}
        /\ defaultNet' = [defaultNet EXCEPT ![n] = NoPort]
        /\ life \in [Node -> {"none", "live", "gone"}]
        /\ defaultNet \in [Node -> NodeNetwork \union {NoPort}]
    BY <1>2 DEF DeleteNode, TypeInv, TypeOK
  <2>2. newVm \subseteq VmNode /\ VmNode \subseteq Node
    BY DEF TypeInv, TypeOK, Node
  <2>3. \A m \in VmNode : life[m] # "none" => life'[m] # "none" /\ (life'[m] = "live" => life[m] = "live" /\ m # n)
    BY <2>1, <2>2
  <2>4. LifeInv'
    <3>1. \A p \in netPorts : Real(p) /\ p.node # n => Real(p)'
      BY <1>2, <2>1 DEF DeleteNode, Real, Ids, AddressInv, IdInv
    <3>2. netPorts' = netPorts /\ newVm' = newVm /\ aborted' = aborted /\ pc' = pc /\ port' = port
      BY <1>2 DEF DeleteNode
    <3>3. \A p \in ports' : p \in ports
      BY <2>1
    <3>. QED
      BY <2>2, <2>3, <3>1, <3>2, <3>3 DEF VmInv, LifeInv
  <2>5. StatusInv' /\ WriteInv'
    BY <1>2, <2>1 DEF DeleteNode, VmInv, StatusInv, WriteInv
  <2>6. VmNetworkIsTrue'
    BY <2>1, <2>2 DEF VmInv, VmNetworkIsTrue
  <2>. QED
    BY <2>4, <2>5, <2>6 DEF VmInv
<1>3. ASSUME NEW n \in HwNode, PlaceHw(n) PROVE VmInv'
  <2>1. /\ life' = life /\ ports' = ports /\ defaultNet' = defaultNet /\ pc' = pc
        /\ netPorts' = netPorts /\ written' = written /\ netWrites' = netWrites
        /\ newVm' = newVm /\ port' = port /\ aborted' = aborted
    BY <1>3 DEF PlaceHw
  <2>. QED
    BY <2>1, KeptVmInv
<1>4. ASSUME NEW n \in HwNode, LoseMachine(n) PROVE VmInv'
  <2>1. /\ n \notin VmNode /\ ports' = {p \in ports : p.node # n}
        /\ life' = life /\ defaultNet' = defaultNet
        /\ netPorts' = netPorts /\ newVm' = newVm /\ aborted' = aborted /\ pc' = pc /\ port' = port
        /\ written' = written /\ netWrites' = netWrites
    BY <1>4, NetworkAssumption DEF LoseMachine
  <2>2. \A p \in netPorts : Real(p) /\ p.node # n => Real(p)'
    BY <2>1 DEF Real, Ids, AddressInv, IdInv
  <2>3. LifeInv'
    BY <2>1, <2>2 DEF VmInv, LifeInv
  <2>4. StatusInv' /\ WriteInv' /\ VmNetworkIsTrue'
    BY <2>1 DEF VmInv, StatusInv, WriteInv, VmNetworkIsTrue
  <2>. QED
    BY <2>3, <2>4 DEF VmInv
<1>. QED
  BY <1>1, <1>2, <1>3, <1>4 DEF Environment

LEMMA AllocationVmInv ==
    ASSUME TypeInv, AddressInv, NodeInv, VmInv,
           \/ Begin \/ ReadSubnetMap \/ ReadHwNodes \/ ExcludePort
           \/ \E n \in VmNode : AllocatePort(n) \/ FailAllocation(n) \/ FailUnbound(n)
           \/ InsertPort \/ FailInsert
           \/ \E n \in HwNode : AllocateHw(n) \/ FailHw(n)
    PROVE  VmInv'
<1>. USE DEF db, iter, tx
<1>1. CASE Begin
  <2>1. /\ life' = life /\ ports' = ports /\ defaultNet' = defaultNet
        /\ netPorts' = netPorts /\ written' = written /\ netWrites' = netWrites
        /\ newVm' = {n \in VmNode : life[n] = "live"} \ NodesOf(ports)
        /\ port' = port /\ aborted' = aborted /\ pc = "idle" /\ pc' = "map"
    BY <1>1 DEF Begin
  <2>2. \A p : Real(p) <=> Real(p)'
    BY <2>1 DEF Real
  <2>3. LifeInv'
    BY <2>1, <2>2 DEF VmInv, LifeInv
  <2>4. StatusInv' /\ WriteInv' /\ VmNetworkIsTrue'
    BY <2>1 DEF VmInv, StatusInv, WriteInv, VmNetworkIsTrue
  <2>. QED
    BY <2>3, <2>4 DEF VmInv
<1>2. CASE ReadSubnetMap
  <2>1. /\ life' = life /\ ports' = ports /\ defaultNet' = defaultNet
        /\ netPorts' = ports /\ written' = written /\ netWrites' = NoNets
        /\ newVm' = newVm /\ pc' = "hw"
    BY <1>2 DEF ReadSubnetMap, VmInv, WriteInv
  <2>2. \A p \in netPorts' : Real(p)'
    BY <2>1 DEF Real, Ids
  <2>3. LifeInv'
    BY <2>1, <2>2 DEF VmInv, LifeInv
  <2>4. StatusInv' /\ VmNetworkIsTrue'
    BY <2>1 DEF VmInv, StatusInv, VmNetworkIsTrue, AddressInv, IdInv
  <2>5. WriteInv'
    BY <2>1 DEF WriteInv, NoNets, Node
  <2>. QED
    BY <2>3, <2>4, <2>5 DEF VmInv
<1>3. CASE ReadHwNodes
  BY <1>3, KeptVmInv DEF ReadHwNodes
<1>4. CASE ExcludePort
  BY <1>4, KeptVmInv DEF ExcludePort
<1>5. ASSUME NEW n \in VmNode, AllocatePort(n) PROVE VmInv'
  <2>. DEFINE r == NewPort(n)
  <2>1. n \in Node
    BY DEF Node
  <2>2. /\ pc = "alloc" /\ pc' = "insert" /\ port' = r /\ netPorts' = netPorts \union {r}
        /\ newVm' \subseteq newVm /\ life' = life /\ ports' = ports /\ defaultNet' = defaultNet
        /\ written' = written /\ netWrites' = netWrites /\ aborted' = aborted /\ life[n] = "live"
    BY <1>5 DEF AllocatePort, CannotAllocate, Serving
  <2>3. r.node = n /\ r.id \notin Ids(ports)
    BY <1>5, <2>1, FreshPort DEF AllocatePort
  <2>. HIDE DEF r
  <2>4. \A p : Real(p) <=> Real(p)'
    BY <2>2 DEF Real
  <2>5. LifeInv'
    BY <2>2, <2>3, <2>4 DEF VmInv, LifeInv
  <2>6. StatusInv'
    BY <2>2, <2>3 DEF VmInv, StatusInv, Ids
  <2>7. WriteInv' /\ VmNetworkIsTrue'
    BY <2>2 DEF VmInv, WriteInv, VmNetworkIsTrue
  <2>. QED
    BY <2>5, <2>6, <2>7 DEF VmInv
<1>6. ASSUME NEW n \in VmNode, FailAllocation(n) PROVE VmInv'
  <2>1. newVm' \subseteq newVm
    BY <1>6 DEF FailAllocation
  <2>. QED
    BY <1>6, <2>1, KeptVmInv DEF FailAllocation
<1>7. ASSUME NEW n \in VmNode, FailUnbound(n) PROVE VmInv'
  <2>1. life' = life /\ ports' = ports /\ defaultNet' = defaultNet /\ ResetLocals
    BY <1>7 DEF FailUnbound
  <2>2. VmNetworkIsTrue' /\ \A p \in ports' : p.node \in VmNode => life[p.node] # "none"
    BY <2>1 DEF VmInv, VmNetworkIsTrue, LifeInv
  <2>. QED
    BY <2>1, <2>2, ForgottenVmInv
<1>8. CASE InsertPort
  <2>1. /\ life' = life /\ ports' = ports /\ defaultNet' = defaultNet
        /\ netPorts' = netPorts /\ written' = written \union {port.id} /\ netWrites' = netWrites
        /\ newVm' = newVm /\ aborted' = aborted /\ pc = "insert" /\ pc' = "alloc"
    BY <1>8 DEF InsertPort
  <2>2. \A p : (Real(p) => Real(p)') /\ (p = port => Real(p)')
    BY <2>1 DEF Real
  <2>3. LifeInv'
    BY <2>1, <2>2 DEF VmInv, LifeInv
  <2>4. StatusInv' /\ WriteInv' /\ VmNetworkIsTrue'
    BY <2>1 DEF VmInv, StatusInv, WriteInv, VmNetworkIsTrue
  <2>. QED
    BY <2>3, <2>4 DEF VmInv
<1>9. CASE FailInsert
  BY <1>9, KeptVmInv DEF FailInsert
<1>10. ASSUME NEW n \in HwNode, AllocateHw(n) PROVE VmInv'
  <2>. DEFINE r == NewPort(n)
  <2>1. n \in Node /\ n \notin VmNode
    BY NetworkAssumption DEF Node
  <2>2. /\ pc = "alloc" /\ pc' = pc /\ netPorts' = netPorts \union {r}
        /\ newVm' = newVm /\ life' = life /\ ports' = ports /\ defaultNet' = defaultNet
        /\ written' = written \union {FreshId} /\ netWrites' = netWrites /\ aborted' = aborted
        /\ port' = port
    BY <1>10 DEF AllocateHw, ServingHw
  <2>3. r.node = n /\ r.id \notin Ids(ports)
    BY <1>10, <2>1, FreshPort DEF AllocateHw
  <2>. HIDE DEF r
  <2>4. \A p : Real(p) => Real(p)'
    BY <2>2 DEF Real
  <2>5. LifeInv'
    BY <2>1, <2>2, <2>3, <2>4 DEF VmInv, LifeInv
  <2>6. StatusInv'
    BY <2>2, <2>3 DEF VmInv, StatusInv, Ids
  <2>7. WriteInv' /\ VmNetworkIsTrue'
    BY <2>2 DEF VmInv, WriteInv, VmNetworkIsTrue
  <2>. QED
    BY <2>5, <2>6, <2>7 DEF VmInv
<1>11. ASSUME NEW n \in HwNode, FailHw(n) PROVE VmInv'
  <2>1. /\ life' = life /\ ports' = ports /\ defaultNet' = defaultNet /\ pc' = pc
        /\ netPorts' = netPorts /\ written' = written /\ netWrites' = netWrites
        /\ newVm' = newVm /\ port' = port /\ (aborted => aborted')
    BY <1>11 DEF FailHw
  <2>. QED
    BY <2>1, KeptVmInv
<1>. QED
  BY <1>1, <1>2, <1>3, <1>4, <1>5, <1>6, <1>7, <1>8, <1>9, <1>10, <1>11

\* Statuses change: a port of the map keeps its place, and what is not
\* activated is as it was.
LEMMA RewrittenVmInv ==
    ASSUME TypeInv, AddressInv, NodeInv, VmInv, NEW P \in SUBSET netPorts,
           netPorts' = (netPorts \ P) \union Activated(P),
           written' = written \union ExistingIds(P),
           ports' = ports, newVm' = newVm, life' = life, defaultNet' = defaultNet,
           aborted' = aborted,
           pc \notin {"idle", "map", "hw", "insert"}, pc' \in {"delete", "status", "commit"},
           \A n \in VmNode : netWrites'[n] # NoPort =>
               \/ netWrites'[n] = netWrites[n]
               \/ \E p \in P : p.node = n /\ netWrites'[n] = [id |-> p.id, ip |-> p.ip]
                               /\ (~aborted => p.id \in ExistingIds(P))
    PROVE  VmInv'
<1>. DEFINE act(p) == [p EXCEPT !.status = "ACTIVE"]
<1>1. \A p \in P : act(p).id = p.id /\ act(p).node = p.node /\ act(p).ip = p.ip
                   /\ act(p).status = "ACTIVE"
  BY DEF Port, TypeInv, TypeOK
<1>2. Activated(P) = {act(p) : p \in P}
  BY DEF Activated
<1>. HIDE DEF act
<1>3. \A t \in netPorts' : \/ t \in netPorts /\ t \notin P
                           \/ \E p \in P : t = act(p)
  BY <1>2
<1>4. Ids(ports') \union written' = Ids(ports) \union written
  BY DEF ExistingIds
<1>5. LifeInv'
  <2>1. \A t \in netPorts' : \E s \in netPorts : s.id = t.id /\ s.node = t.node
    BY <1>1, <1>3
  <2>2. \A t, s : t.id = s.id /\ Real(s) => Real(t)'
    BY <1>4 DEF Real
  <2>. QED
    BY <2>1, <2>2 DEF VmInv, LifeInv
<1>6. StatusInv'
  BY <1>1, <1>3 DEF VmInv, StatusInv
<1>7. ASSUME ~aborted, NEW n \in VmNode, netWrites'[n] # NoPort
      PROVE  \E p \in netPorts' : /\ p.id \in written'
                                  /\ p.node = n /\ p.status = "ACTIVE"
                                  /\ netWrites'[n] = [id |-> p.id, ip |-> p.ip]
  <2>1. CASE netWrites'[n] = netWrites[n]
    <3>1. PICK p \in netPorts : /\ p.id \in written /\ p.node = n /\ p.status = "ACTIVE"
                                /\ netWrites[n] = [id |-> p.id, ip |-> p.ip]
      BY <1>7, <2>1 DEF VmInv, WriteInv
    <3>2. CASE p \in P
      <4>1. act(p) \in netPorts'
        BY <1>2, <3>2
      <4>. QED
        BY <1>1, <2>1, <3>1, <3>2, <4>1
    <3>3. CASE p \notin P
      BY <2>1, <3>1, <3>3
    <3>. QED
      BY <3>2, <3>3
  <2>2. ASSUME NEW p \in P, p.node = n, netWrites'[n] = [id |-> p.id, ip |-> p.ip],
               p.id \in ExistingIds(P)
        PROVE  \E q \in netPorts' : /\ q.id \in written' /\ q.node = n /\ q.status = "ACTIVE"
                                    /\ netWrites'[n] = [id |-> q.id, ip |-> q.ip]
    <3>1. act(p) \in netPorts'
      BY <1>2
    <3>. QED
      BY <1>1, <2>2, <3>1
  <2>. QED
    BY <1>7, <2>1, <2>2
<1>8. WriteInv'
  BY <1>7 DEF WriteInv
<1>9. VmNetworkIsTrue'
  BY DEF VmInv, VmNetworkIsTrue
<1>. QED
  BY <1>5, <1>6, <1>8, <1>9 DEF VmInv

LEMMA DataPlaneVmInv ==
    ASSUME TypeInv, AddressInv, NodeInv, VmInv,
           CreateSubnet \/ CreatePorts \/ DeletePorts \/ ActualizePorts
    PROVE  VmInv'
<1>. USE DEF db, iter, tx
<1>1. CASE CreateSubnet
  BY <1>1, KeptVmInv DEF CreateSubnet, Allocated
<1>2. CASE CreatePorts
  <2>1. /\ ports' = ports /\ newVm' = newVm /\ life' = life /\ defaultNet' = defaultNet
        /\ aborted' = aborted /\ pc = "alloc" /\ pc' = "delete" /\ port' = port
    BY <1>2 DEF CreatePorts, Allocated
  <2>2. CASE UNCHANGED <<netPorts, written, netWrites>>
    BY <2>1, <2>2, KeptVmInv
  <2>3. CASE WriteCreated(Missing)
    <3>1. Missing \in SUBSET netPorts
      BY DEF Missing
    <3>2. ASSUME NEW n \in VmNode, netWrites'[n] # NoPort
          PROVE  \/ netWrites'[n] = netWrites[n]
                 \/ \E p \in Missing : p.node = n /\ netWrites'[n] = [id |-> p.id, ip |-> p.ip]
                                       /\ (~aborted => p.id \in ExistingIds(Missing))
      <4>. DEFINE told == defaultNet[n] = NoPort /\ life[n] = "live" /\ n \in NodesOf(Missing)
                  p == CHOOSE q \in Missing : q.node = n
      <4>1. netWrites'[n] = IF told THEN [id |-> p.id, ip |-> p.ip] ELSE netWrites[n]
        BY <2>3 DEF WriteCreated, Node
      <4>2. ASSUME told PROVE p \in Missing /\ p.node = n
        BY <4>2 DEF NodesOf
      <4>3. ASSUME told, ~aborted PROVE p.id \in ExistingIds(Missing)
        <5>1. p \in netPorts /\ p.node \in VmNode /\ life[p.node] = "live"
          BY <3>1, <4>2, <4>3
        <5>2. Real(p)
          BY <2>1, <4>3, <5>1 DEF VmInv, LifeInv
        <5>. QED
          BY <4>2, <4>3, <5>2 DEF Real, ExistingIds, Ids
      <4>. QED
        BY <4>1, <4>2, <4>3
    <3>. QED
      BY <2>1, <2>3, <3>1, <3>2, RewrittenVmInv DEF WriteCreated
  <2>. QED
    BY <1>2, <2>2, <2>3 DEF CreatePorts
<1>3. CASE DeletePorts
  BY <1>3, KeptVmInv DEF DeletePorts
<1>4. CASE ActualizePorts
  <2>. DEFINE late == {p \in netPorts : p.id \in Ids(actual) /\ p.status # "ACTIVE"}
  <2>1. /\ ports' = ports /\ newVm' = newVm /\ life' = life /\ defaultNet' = defaultNet
        /\ aborted' = aborted /\ pc = "status" /\ pc' = "commit"
        /\ netPorts' = (netPorts \ late) \union Activated(late)
        /\ written' = written \union ExistingIds(late)
    BY <1>4 DEF ActualizePorts
  <2>2. late \in SUBSET netPorts
    OBVIOUS
  <2>3. \A n \in VmNode : netWrites'[n] =
           IF \E p \in late : p.node = n /\ defaultNet[n] # NoPort
                              /\ defaultNet[n].id = p.id /\ life[n] = "live"
           THEN defaultNet[n] ELSE netWrites[n]
    BY <1>4 DEF ActualizePorts, Node
  <2>. HIDE DEF late
  <2>4. ASSUME NEW n \in VmNode, netWrites'[n] # NoPort
        PROVE  \/ netWrites'[n] = netWrites[n]
               \/ \E p \in late : p.node = n /\ netWrites'[n] = [id |-> p.id, ip |-> p.ip]
                                  /\ (~aborted => p.id \in ExistingIds(late))
    <3>1. ASSUME NEW p \in late, p.node = n, defaultNet[n] # NoPort, defaultNet[n].id = p.id,
                 netWrites'[n] = defaultNet[n]
          PROVE  netWrites'[n] = [id |-> p.id, ip |-> p.ip] /\ p.id \in ExistingIds(late)
      <4>1. PICK r \in ports : defaultNet[n] = [id |-> r.id, ip |-> r.ip]
        BY <3>1 DEF VmInv, VmNetworkIsTrue
      <4>2. r.id = p.id
        BY <3>1, <4>1
      <4>3. r.ip = p.ip
        BY <2>2, <4>2 DEF AddressInv, IdInv
      <4>4. p.id \in ExistingIds(late)
        BY <4>2 DEF ExistingIds, Ids
      <4>. QED
        BY <3>1, <4>1, <4>2, <4>3, <4>4
    <3>. QED
      BY <2>3, <3>1
  <2>. QED
    BY <2>1, <2>2, <2>4, RewrittenVmInv
<1>. QED
  BY <1>1, <1>2, <1>3, <1>4

\* A row the transaction does not touch stays; one it touches is replaced by
\* its copy, at least as far in its lifecycle.
LEMMA CommitVmInv ==
    ASSUME TypeInv, AddressInv, NodeInv, VmInv, Commit
    PROVE  VmInv'
<1>1. ResetLocals /\ pc = "commit" /\ life' = life
  BY DEF Commit
<1>2. CASE aborted
  <2>1. ports' = ports /\ defaultNet' = defaultNet
    BY <1>2 DEF Commit
  <2>2. VmNetworkIsTrue' /\ \A p \in ports' : p.node \in VmNode => life[p.node] # "none"
    BY <2>1 DEF VmInv, VmNetworkIsTrue, LifeInv
  <2>. QED
    BY <1>1, <2>2, ForgottenVmInv
<1>3. CASE ~aborted
  <2>1. ports' = {p \in ports : p.id \notin written} \union {p \in netPorts : p.id \in written}
    BY <1>3 DEF Commit, WrittenPorts
  <2>2. \A n \in VmNode : defaultNet'[n] = IF netWrites[n] # NoPort THEN netWrites[n] ELSE defaultNet[n]
    BY <1>3 DEF Commit, Node
  <2>3. ASSUME NEW n \in VmNode, defaultNet'[n] # NoPort
        PROVE  \E p \in ports' : /\ p.node = n /\ p.status = "ACTIVE"
                                 /\ defaultNet'[n] = [id |-> p.id, ip |-> p.ip]
    <3>1. CASE netWrites[n] # NoPort
      BY <1>3, <2>1, <2>2, <3>1 DEF VmInv, WriteInv
    <3>2. CASE netWrites[n] = NoPort
      <4>1. PICK p \in ports : /\ p.node = n /\ p.status = "ACTIVE"
                               /\ defaultNet[n] = [id |-> p.id, ip |-> p.ip]
        BY <2>2, <2>3, <3>2 DEF VmInv, VmNetworkIsTrue
      <4>2. CASE p.id \in written
        <5>1. PICK q \in netPorts : q.id = p.id
          BY <4>2 DEF NodeInv, Ids
        <5>2. q.node = p.node /\ q.ip = p.ip /\ q.status = "ACTIVE"
          BY <4>1, <5>1 DEF AddressInv, IdInv, VmInv, StatusInv
        <5>. QED
          BY <2>1, <2>2, <3>2, <4>1, <4>2, <5>1, <5>2
      <4>3. CASE p.id \notin written
        BY <2>1, <2>2, <3>2, <4>1, <4>3
      <4>. QED
        BY <4>2, <4>3
    <3>. QED
      BY <3>1, <3>2
  <2>4. VmNetworkIsTrue'
    BY <2>3 DEF VmNetworkIsTrue
  <2>5. \A p \in ports' : p.node \in VmNode => life[p.node] # "none"
    BY <2>1 DEF VmInv, LifeInv
  <2>. QED
    BY <1>1, <2>4, <2>5, ForgottenVmInv
<1>. QED
  BY <1>2, <1>3

LEMMA StepVmInv == TypeInv /\ AddressInv /\ NodeInv /\ VmInv /\ [Next]_vars => VmInv'
<1>. SUFFICES ASSUME TypeInv, AddressInv, NodeInv, VmInv, [Next]_vars PROVE VmInv'
  OBVIOUS
<1>. USE DEF db, iter, tx
<1>1. CASE UNCHANGED vars
  BY <1>1, KeptVmInv DEF vars
<1>2. CASE Service
  BY <1>2, AllocationVmInv, DataPlaneVmInv, CommitVmInv DEF Service
<1>3. CASE Environment
  BY <1>3, EnvironmentVmInv
<1>4. CASE Crash
  <2>1. ports' = ports /\ life' = life /\ defaultNet' = defaultNet /\ ResetLocals
    BY <1>4 DEF Crash
  <2>2. VmNetworkIsTrue' /\ \A p \in ports' : p.node \in VmNode => life[p.node] # "none"
    BY <2>1 DEF VmInv, VmNetworkIsTrue, LifeInv
  <2>. QED
    BY <2>1, <2>2, ForgottenVmInv
<1>. QED
  BY <1>1, <1>2, <1>3, <1>4 DEF Next

(* What a VM node is told about its network is true whenever it can be     *)
(* read: the port its default_network names is a row of the table, active, *)
(* and has that address.  The node and its port are written by different   *)
(* statements after the driver call, either may be deleted between them,   *)
(* and a failed transaction must take both back.                           *)
THEOREM VmNetworksAreTrue == Spec => []VmNetworkIsTrue
<1>1. Init => VmInv
  BY InitVmInv
<1>2. VmInv => VmNetworkIsTrue
  BY DEF VmInv
<1>. QED
  BY NetworkInv, StepVmInv, <1>1, <1>2, PTL DEF Spec

-----------------------------------------------------------------------------
(* The data plane runs ahead of the table, never behind it.                *)

SamePort(p, q) == p.node = q.node /\ p.ip = q.ip

\* The context holds active ports, one per identifier, and agrees with the
\* rows and the subnet map on whose they are.
CtxInv == \A c \in ctx.ports :
    /\ c.status = "ACTIVE"
    /\ \A d \in ctx.ports : c.id = d.id => c = d
    /\ \A p \in ports \union netPorts : p.id = c.id => SamePort(p, c)

\* As long as nothing failed: the server runs with the context on disk, it
\* knows every active port, and of the ports that the iteration compares with
\* the data plane it still knows those that the data plane had.
ServedInv == faults = 0 =>
    /\ served = LoadCtx.ports
    /\ \A p \in ports \union netPorts : p.status = "ACTIVE" => p \in served
    /\ pc \in {"delete", "status"} =>
          \A p \in netPorts : p.id \in Ids(actual) => p.id \in Ids(served)

PlaneInv == CtxInv /\ ServedInv

LEMMA PlaneIsActiveIsServed == PlaneInv => ActiveIsServed
BY DEF PlaneInv, ServedInv, ActiveIsServed

LEMMA InitPlaneInv == Init => PlaneInv
BY DEF Init, PlaneInv, CtxInv, ServedInv, LoadCtx, EmptyCtx

LEMMA LoadedPorts == LoadCtx.ports \subseteq ctx.ports
BY DEF LoadCtx, EmptyCtx

\* The data plane is left alone, and the tables and the map only lose ports or
\* gain ports that are not active and whose identifier the context has not.
LEMMA KeptPlaneInv ==
    ASSUME PlaneInv, UNCHANGED plane, faults' = faults,
           \A p \in ports' \union netPorts' :
               \/ p \in ports \union netPorts
               \/ p.status # "ACTIVE" /\ p.id \notin Ids(ctx.ports),
           \/ pc' \notin {"delete", "status"}
           \/ pc' = pc /\ netPorts' = netPorts /\ actual' = actual
    PROVE  PlaneInv'
<1>. USE DEF plane
<1>1. CtxInv'
  BY DEF PlaneInv, CtxInv, SamePort, Ids
<1>2. ServedInv'
  <2>1. LoadCtx' = LoadCtx
    BY DEF LoadCtx, EmptyCtx
  <2>. QED
    BY <2>1 DEF PlaneInv, ServedInv, Ids
<1>. QED
  BY <1>1, <1>2 DEF PlaneInv

\* A failure: nothing is promised about the server any more.
LEMMA FailedPlaneInv ==
    ASSUME TypeInv, PlaneInv, ctx' = ctx, faults' = faults + 1,
           \A p \in ports' \union netPorts' : p \in ports \union netPorts
    PROVE  PlaneInv'
<1>1. CtxInv'
  BY DEF PlaneInv, CtxInv, SamePort
<1>2. ServedInv'
  BY NetworkAssumption DEF ServedInv, TypeInv, TypeOK
<1>. QED
  BY <1>1, <1>2 DEF PlaneInv

LEMMA AllocationPlaneInv ==
    ASSUME TypeInv, PlaneInv,
           \/ Begin \/ ReadSubnetMap \/ ReadHwNodes \/ ExcludePort
           \/ \E n \in VmNode : AllocatePort(n) \/ FailAllocation(n) \/ FailUnbound(n)
           \/ InsertPort \/ FailInsert
           \/ \E n \in HwNode : AllocateHw(n) \/ FailHw(n)
    PROVE  PlaneInv'
<1>. USE DEF db, iter, tx
<1>1. CASE Begin
  BY <1>1, KeptPlaneInv DEF Begin
<1>2. CASE ReadSubnetMap
  BY <1>2, KeptPlaneInv DEF ReadSubnetMap
<1>3. CASE ReadHwNodes
  BY <1>3, KeptPlaneInv DEF ReadHwNodes
<1>4. CASE ExcludePort
  BY <1>4, KeptPlaneInv DEF ExcludePort
<1>5. ASSUME NEW n \in Node, HasFreshId, netPorts' = netPorts \union {NewPort(n)}, ports' = ports
      PROVE  \A p \in ports' \union netPorts' :
                 \/ p \in ports \union netPorts
                 \/ p.status # "ACTIVE" /\ p.id \notin Ids(ctx.ports)
  <2>1. NewPort(n).status = "NEW" /\ NewPort(n).id \notin Ids(ctx.ports)
    BY <1>5, FreshIdIsFresh DEF NewPort, UsedIds
  <2>. QED
    BY <1>5, <2>1
<1>6. ASSUME NEW n \in VmNode, AllocatePort(n) PROVE PlaneInv'
  <2>1. n \in Node
    BY DEF Node
  <2>. QED
    BY <1>5, <1>6, <2>1, KeptPlaneInv DEF AllocatePort
<1>7. ASSUME NEW n \in VmNode, FailAllocation(n) PROVE PlaneInv'
  BY <1>7, KeptPlaneInv DEF FailAllocation, Serving
<1>8. ASSUME NEW n \in VmNode, FailUnbound(n) PROVE PlaneInv'
  BY <1>8, KeptPlaneInv DEF FailUnbound, ResetLocals
<1>9. CASE InsertPort
  BY <1>9, KeptPlaneInv DEF InsertPort
<1>10. CASE FailInsert
  BY <1>10, KeptPlaneInv DEF FailInsert
<1>11. ASSUME NEW n \in HwNode, AllocateHw(n) PROVE PlaneInv'
  <2>1. n \in Node
    BY DEF Node
  <2>. QED
    BY <1>5, <1>11, <2>1, KeptPlaneInv DEF AllocateHw, ServingHw
<1>12. ASSUME NEW n \in HwNode, FailHw(n) PROVE PlaneInv'
  BY <1>12, KeptPlaneInv DEF FailHw, ServingHw
<1>. QED
  BY <1>1, <1>2, <1>3, <1>4, <1>6, <1>7, <1>8, <1>9, <1>10, <1>11, <1>12

LEMMA CreatePortsPlaneInv ==
    ASSUME TypeInv, AddressInv, PlaneInv, CreatePorts
    PROVE  PlaneInv'
<1>. USE DEF plane
<1>1. /\ ports' = ports /\ pc' = "delete" /\ actual' = LoadCtx.ports
  BY DEF CreatePorts, db
<1>2. CASE Missing = {} /\ UNCHANGED <<plane, faults, netPorts, written, netWrites>>
  <2>1. CtxInv'
    BY <1>1, <1>2 DEF PlaneInv, CtxInv, SamePort
  <2>2. LoadCtx' = LoadCtx
    BY <1>2 DEF LoadCtx, EmptyCtx
  <2>3. ServedInv'
    BY <1>1, <1>2, <2>2 DEF PlaneInv, ServedInv, Ids
  <2>. QED
    BY <2>1, <2>3 DEF PlaneInv
<1>3. CASE NotApplied /\ UNCHANGED <<netPorts, written, netWrites>>
  BY <1>1, <1>3, FailedPlaneInv DEF NotApplied
<1>4. CASE /\ Applied([LoadCtx EXCEPT !.ports = @ \union Activated(Missing)])
           /\ WriteCreated(Missing)
  <2>. DEFINE act(p) == [p EXCEPT !.status = "ACTIVE"]
  <2>1. LoadCtx \in [subnet : BOOLEAN, ports : SUBSET Port]
    BY LoadCtxType DEF TypeInv
  <2>2. /\ ctx'.ports = LoadCtx.ports \union Activated(Missing)
        /\ ctxValid' = TRUE /\ served' = ctx'.ports /\ faults' = faults
        /\ netPorts' = (netPorts \ Missing) \union Activated(Missing)
    BY <1>4, <2>1 DEF Applied, WriteCreated
  <2>3. \A p \in Missing : /\ act(p).id = p.id /\ act(p).node = p.node /\ act(p).ip = p.ip
                           /\ act(p).status = "ACTIVE"
    BY DEF Missing, Port, TypeInv, TypeOK
  <2>4. Activated(Missing) = {act(p) : p \in Missing}
    BY DEF Activated
  <2>5. Missing \subseteq netPorts /\ \A p \in Missing : p.id \notin Ids(LoadCtx.ports)
    BY DEF Missing
  <2>. HIDE DEF act
  <2>6. \A t \in netPorts' : \E s \in netPorts : s.id = t.id /\ s.node = t.node /\ s.ip = t.ip
    BY <2>2, <2>3, <2>4, <2>5
  <2>7. \A c \in ctx'.ports : \/ c \in LoadCtx.ports /\ c \in ctx.ports
                              \/ \E m \in Missing : c = act(m)
    BY <2>2, <2>4, LoadedPorts
  <2>8. CtxInv'
    <3>. SUFFICES ASSUME NEW c \in ctx'.ports
                  PROVE  /\ c.status = "ACTIVE"
                         /\ \A d \in ctx'.ports : c.id = d.id => c = d
                         /\ \A p \in ports \union netPorts' : p.id = c.id => SamePort(p, c)
      BY <1>1 DEF CtxInv, SamePort
    <3>1. CASE c \in LoadCtx.ports /\ c \in ctx.ports
      <4>1. c.id \in Ids(LoadCtx.ports)
        BY <3>1 DEF Ids
      <4>2. \A d \in ctx'.ports : c.id = d.id => c = d
        BY <2>3, <2>5, <2>7, <3>1, <4>1 DEF PlaneInv, CtxInv
      <4>. QED
        BY <2>6, <3>1, <4>2 DEF PlaneInv, CtxInv, SamePort
    <3>2. ASSUME NEW m \in Missing, c = act(m)
          PROVE  /\ c.status = "ACTIVE"
                 /\ \A d \in ctx'.ports : c.id = d.id => c = d
                 /\ \A p \in ports \union netPorts' : p.id = c.id => SamePort(p, c)
      <4>1. ASSUME NEW d \in ctx'.ports, c.id = d.id PROVE c = d
        <5>1. d \notin LoadCtx.ports
          BY <2>3, <2>5, <3>2, <4>1 DEF Ids
        <5>2. PICK k \in Missing : d = act(k)
          BY <2>7, <5>1
        <5>3. k = m
          BY <2>3, <2>5, <3>2, <4>1, <5>2 DEF AddressInv, IdInv
        <5>. QED
          BY <3>2, <5>2, <5>3
      <4>2. \A p \in ports \union netPorts : p.id = m.id => SamePort(p, m)
        BY <2>5 DEF AddressInv, IdInv, SamePort
      <4>. QED
        BY <2>3, <2>6, <3>2, <4>1, <4>2 DEF SamePort
    <3>. QED
      BY <2>7, <3>1, <3>2
  <2>9. ServedInv'
    <3>. SUFFICES ASSUME faults = 0
                  PROVE  /\ served' = ctx'.ports
                         /\ \A p \in ports \union netPorts' : p.status = "ACTIVE" => p \in served'
                         /\ Ids(actual') \subseteq Ids(served')
      BY <1>1, <2>2 DEF ServedInv, LoadCtx
    <3>1. \A p \in ports \union netPorts : p.status = "ACTIVE" => p \in LoadCtx.ports
      BY DEF PlaneInv, ServedInv
    <3>. QED
      BY <1>1, <2>2, <3>1 DEF Ids
  <2>. QED
    BY <2>8, <2>9 DEF PlaneInv
<1>. QED
  BY <1>2, <1>3, <1>4 DEF CreatePorts

\* The deletion takes from the context only identifiers the subnet map has
\* not: every row of the table keeps its host.
LEMMA DeletePortsPlaneInv ==
    ASSUME TypeInv, AddressInv, PlaneInv, DeletePorts
    PROVE  PlaneInv'
<1>. USE DEF plane, db, iter, tx
<1>. DEFINE gone == Ids(actual) \ Ids(netPorts)
<1>1. /\ ports' = ports /\ netPorts' = netPorts /\ pc = "delete" /\ pc' = "status"
      /\ actual' = actual
  BY DEF DeletePorts
<1>2. CASE UNCHANGED <<plane, faults>>
  <2>1. CtxInv'
    BY <1>1, <1>2 DEF PlaneInv, CtxInv, SamePort
  <2>2. LoadCtx' = LoadCtx
    BY <1>2 DEF LoadCtx, EmptyCtx
  <2>3. ServedInv'
    BY <1>1, <1>2, <2>2 DEF PlaneInv, ServedInv, Ids
  <2>. QED
    BY <2>1, <2>3 DEF PlaneInv
<1>3. CASE NotApplied
  BY <1>1, <1>3, FailedPlaneInv DEF NotApplied
<1>4. CASE Applied([LoadCtx EXCEPT !.ports = {p \in @ : p.id \notin gone}])
  <2>1. LoadCtx \in [subnet : BOOLEAN, ports : SUBSET Port]
    BY LoadCtxType DEF TypeInv
  <2>2. /\ ctx'.ports = {p \in LoadCtx.ports : p.id \notin gone}
        /\ ctxValid' = TRUE /\ served' = ctx'.ports /\ faults' = faults
    BY <1>4, <2>1 DEF Applied
  <2>3. CtxInv'
    BY <1>1, <2>2, LoadedPorts DEF PlaneInv, CtxInv, SamePort
  <2>4. \A p \in ports \union netPorts : p.id \notin gone
    BY <1>1 DEF AddressInv, MapInv, Ids
  <2>5. ServedInv'
    <3>. SUFFICES ASSUME faults = 0
                  PROVE  /\ served' = ctx'.ports
                         /\ \A p \in ports \union netPorts : p.status = "ACTIVE" => p \in served'
                         /\ \A p \in netPorts : p.id \in Ids(actual) => p.id \in Ids(served')
      BY <1>1, <2>2 DEF ServedInv, LoadCtx
    <3>1. /\ served = LoadCtx.ports
          /\ \A p \in ports \union netPorts : p.status = "ACTIVE" => p \in served
          /\ \A p \in netPorts : p.id \in Ids(actual) => p.id \in Ids(served)
      BY <1>1 DEF PlaneInv, ServedInv
    <3>. HIDE DEF gone
    <3>2. \A p \in ports \union netPorts : p.status = "ACTIVE" => p \in served'
      BY <2>2, <2>4, <3>1
    <3>3. \A p \in netPorts : p.id \in Ids(actual) => p.id \in Ids(served')
      BY <2>2, <2>4, <3>1 DEF Ids
    <3>. QED
      BY <2>2, <3>2, <3>3
  <2>. QED
    BY <2>3, <2>5 DEF PlaneInv
<1>. QED
  BY <1>2, <1>3, <1>4 DEF DeletePorts

\* A port becomes active only when the data plane had it at the comparison,
\* and then its host is the active port itself.
LEMMA ActualizePlaneInv ==
    ASSUME TypeInv, AddressInv, PlaneInv, ActualizePorts
    PROVE  PlaneInv'
<1>. DEFINE late == {p \in netPorts : p.id \in Ids(actual) /\ p.status # "ACTIVE"}
            act(p) == [p EXCEPT !.status = "ACTIVE"]
<1>1. /\ ports' = ports /\ pc = "status" /\ pc' = "commit" /\ ctx' = ctx /\ ctxValid' = ctxValid
      /\ served' = served /\ faults' = faults
      /\ netPorts' = (netPorts \ late) \union Activated(late)
  BY DEF ActualizePorts, plane, db
<1>2. late \subseteq netPorts /\ netPorts \subseteq Port
  BY DEF TypeInv, TypeOK
<1>3. \A p \in late : /\ act(p).id = p.id /\ act(p).node = p.node /\ act(p).ip = p.ip
                      /\ act(p).status = "ACTIVE" /\ act(p) \in Port
  BY <1>2 DEF Port
<1>4. Activated(late) = {act(p) : p \in late}
  BY DEF Activated
<1>5. \A p \in late : p.id \in Ids(actual)
  OBVIOUS
<1>6. \A p, q \in Port : p.id = q.id /\ SamePort(p, q) /\ p.status = q.status => p = q
  BY DEF Port, SamePort
<1>. HIDE DEF late, act
<1>7. \A t \in netPorts' : \/ t \in netPorts
                           \/ \E p \in late : t = act(p)
  BY <1>1, <1>4
<1>8. CtxInv'
  <2>1. \A t \in netPorts' : \E s \in netPorts : s.id = t.id /\ s.node = t.node /\ s.ip = t.ip
    BY <1>2, <1>3, <1>7
  <2>. QED
    BY <1>1, <2>1 DEF PlaneInv, CtxInv, SamePort
<1>9. ASSUME faults = 0, NEW p \in late PROVE act(p) \in served
  <2>1. p \in netPorts /\ p.id \in Ids(served) /\ served = LoadCtx.ports
    BY <1>1, <1>2, <1>5, <1>9 DEF PlaneInv, ServedInv
  <2>2. PICK c \in served : c.id = p.id
    BY <2>1 DEF Ids
  <2>3. c \in ctx.ports /\ c \in Port
    BY <2>1, <2>2, LoadedPorts DEF TypeInv, TypeOK
  <2>4. c.status = "ACTIVE" /\ SamePort(p, c)
    BY <2>1, <2>2, <2>3 DEF PlaneInv, CtxInv
  <2>5. c = act(p)
    BY <1>3, <1>6, <2>2, <2>3, <2>4 DEF SamePort
  <2>. QED
    BY <2>5
<1>10. ServedInv'
  <2>1. LoadCtx' = LoadCtx
    BY <1>1 DEF LoadCtx, EmptyCtx
  <2>. QED
    BY <1>1, <1>7, <1>9, <2>1 DEF PlaneInv, ServedInv
<1>. QED
  BY <1>8, <1>10 DEF PlaneInv

LEMMA StepPlaneInv == TypeInv /\ AddressInv /\ PlaneInv /\ [Next]_vars => PlaneInv'
<1>. SUFFICES ASSUME TypeInv, AddressInv, PlaneInv, [Next]_vars PROVE PlaneInv'
  OBVIOUS
<1>. USE DEF db, iter, tx
<1>1. CASE UNCHANGED vars
  BY <1>1, KeptPlaneInv DEF vars
<1>2. CASE CreateSubnet
  <2>1. /\ ports' = ports /\ netPorts' = netPorts /\ pc' = "commit"
    BY <1>2 DEF CreateSubnet
  <2>2. CASE NotApplied
    BY <2>1, <2>2, FailedPlaneInv DEF NotApplied
  <2>3. CASE Applied([LoadCtx EXCEPT !.subnet = TRUE])
    <3>1. LoadCtx \in [subnet : BOOLEAN, ports : SUBSET Port]
      BY LoadCtxType DEF TypeInv
    <3>2. ctx'.ports = LoadCtx.ports /\ ctxValid' = TRUE /\ served' = ctx'.ports /\ faults' = faults
      BY <2>3, <3>1 DEF Applied
    <3>3. CtxInv'
      BY <2>1, <3>2, LoadedPorts DEF PlaneInv, CtxInv, SamePort
    <3>4. LoadCtx'.ports = LoadCtx.ports
      BY <3>2 DEF LoadCtx
    <3>5. ServedInv'
      BY <2>1, <3>2, <3>4 DEF PlaneInv, ServedInv
    <3>. QED
      BY <3>3, <3>5 DEF PlaneInv
  <2>. QED
    BY <1>2, <2>2, <2>3 DEF CreateSubnet
<1>3. CASE Commit
  <2>1. ports' \subseteq ports \union netPorts /\ netPorts' = {} /\ pc' = "idle"
    BY <1>3 DEF Commit, ResetLocals, WrittenPorts
  <2>. QED
    BY <1>3, <2>1, KeptPlaneInv DEF Commit
<1>4. CASE Environment
  <2>1. ASSUME NEW n \in Node, CreateNode(n) PROVE PlaneInv'
    BY <2>1, KeptPlaneInv DEF CreateNode
  <2>2. ASSUME NEW n \in Node, DeleteNode(n) PROVE PlaneInv'
    BY <2>2, KeptPlaneInv DEF DeleteNode
  <2>3. ASSUME NEW n \in HwNode, PlaceHw(n) PROVE PlaneInv'
    BY <2>3, KeptPlaneInv DEF PlaceHw
  <2>4. ASSUME NEW n \in HwNode, LoseMachine(n) PROVE PlaneInv'
    BY <2>4, KeptPlaneInv DEF LoseMachine
  <2>. QED
    BY <1>4, <2>1, <2>2, <2>3, <2>4 DEF Environment
<1>5. CASE Crash
  BY <1>5, FailedPlaneInv DEF Crash, ResetLocals
<1>. QED
  BY <1>1, <1>2, <1>3, <1>4, <1>5, AllocationPlaneInv, CreatePortsPlaneInv,
     DeletePortsPlaneInv, ActualizePlaneInv DEF Next, Service

LEMMA PlaneInvHolds == Spec => []PlaneInv
BY NetworkInv, InitPlaneInv, StepPlaneInv, PTL DEF Spec

(* As long as nothing failed, a port the table shows as active is one the  *)
(* DHCP server is running with, under the same address: the rows are       *)
(* committed only after the data plane has them, and the deletion between  *)
(* the two takes away no port of the table.                                *)
THEOREM ActivePortsAreServed == Spec => []ActiveIsServed
BY PlaneInvHolds, PlaneIsActiveIsServed, PTL

\* One step: only the creation and the deletion of ports restart the server
\* with other hosts, and neither drops one whose port is in the table.
LEMMA HostsStay ==
    ASSUME TypeInv, AddressInv, PlaneInv, [Next]_vars, NEW p \in ports, p \in served,
           p \notin served', ~(faults' > 0)
    PROVE  FALSE
<1>. USE DEF db, iter, tx, plane
<1>1. served' # served
  OBVIOUS
<1>2. faults \in Nat /\ ~NotApplied
  BY NetworkAssumption DEF TypeInv, TypeOK, NotApplied
<1>3. CreateSubnet \/ CreatePorts \/ DeletePorts
  <2>1. ~UNCHANGED served
    BY <1>1
  <2>2. ~Environment /\ ~Crash
    BY <2>1 DEF Environment, CreateNode, DeleteNode, PlaceHw, LoseMachine, Crash
  <2>3. \A n \in VmNode : ~AllocatePort(n) /\ ~FailAllocation(n) /\ ~FailUnbound(n)
    BY <2>1 DEF AllocatePort, FailAllocation, FailUnbound
  <2>4. \A n \in HwNode : ~AllocateHw(n) /\ ~FailHw(n)
    BY <2>1 DEF AllocateHw, FailHw
  <2>5. ~Begin /\ ~ReadSubnetMap /\ ~ReadHwNodes /\ ~ExcludePort /\ ~InsertPort /\ ~FailInsert
    BY <2>1 DEF Begin, ReadSubnetMap, ReadHwNodes, ExcludePort, InsertPort, FailInsert
  <2>6. ~ActualizePorts /\ ~Commit /\ ~UNCHANGED vars
    BY <2>1 DEF ActualizePorts, Commit, vars
  <2>. QED
    BY <2>2, <2>3, <2>4, <2>5, <2>6 DEF Next, Service
<1>4. faults' = faults /\ faults = 0
  BY <1>2, <1>3 DEF CreateSubnet, CreatePorts, DeletePorts, Applied
<1>5. p \in LoadCtx.ports /\ LoadCtx \in [subnet : BOOLEAN, ports : SUBSET Port]
  BY <1>4, LoadCtxType DEF PlaneInv, ServedInv, TypeInv
<1>6. CASE CreateSubnet
  BY <1>1, <1>2, <1>5, <1>6 DEF CreateSubnet, Applied
<1>7. CASE CreatePorts
  BY <1>1, <1>2, <1>5, <1>7 DEF CreatePorts, Applied
<1>8. CASE DeletePorts
  <2>1. p.id \in Ids(netPorts)
    BY <1>8 DEF DeletePorts, AddressInv, MapInv, Ids
  <2>2. served' = {q \in LoadCtx.ports : q.id \notin Ids(actual) \ Ids(netPorts)}
    BY <1>1, <1>2, <1>5, <1>8 DEF DeletePorts, Applied
  <2>. QED
    BY <1>5, <2>1, <2>2
<1>. QED
  BY <1>3, <1>6, <1>7, <1>8

(* Without a failed restart or a crash, a host whose port is in the table  *)
(* is never taken from the running DHCP server, whatever users delete and  *)
(* however old the subnet map is that the iteration works with.            *)
THEOREM HostsAreNotInterrupted == Spec => NoInterruption
<1>1. TypeInv /\ AddressInv /\ PlaneInv /\ [Next]_vars
        => [\A p \in ports : p \in served /\ p.id \in Ids(ports') /\ p \notin served'
                                => faults' > 0]_vars
  BY HostsStay
<1>. QED
  BY NetworkInv, PlaneInvHolds, <1>1, PTL DEF Spec, NoInterruption
=============================================================================
