----------------------------- MODULE IpamProofs -----------------------------
(***************************************************************************)
(* The IPAM keeps its promise for every subnet, every set of existing      *)
(* ports and every sequence of operations, provided the discovery range    *)
(* lies outside the addresses the pool starts from (MCIpamDiscovery.cfg    *)
(* shows what happens when it does not).                                   *)
(***************************************************************************)
EXTENDS Ipam, IpRangesProofs

DiscoveryBeside == Discovery \intersect (RangeFirst .. RangeLast) = {}

(* While the constructor runs the pool offers addresses of the range only, *)
(* so an address it skips is not on offer; that is what makes              *)
(* NotOfferedTwice inductive.                                              *)
IInv == /\ WellFormed(pool)
        /\ todo \subseteq PortAddress
        /\ held \subseteq Int
        /\ todo # {} => FreeAddresses(pool) \subseteq RangeFirst .. RangeLast
        /\ FreeAddresses(pool) \intersect held = {}

LEMMA InitialPool ==
    /\ WellFormed(<< <<RangeFirst, RangeLast>> >>)
    /\ FreeAddresses(<< <<RangeFirst, RangeLast>> >>) = RangeFirst .. RangeLast
BY SingleRange, IpamAssumption

LEMMA InitIInv == Init => IInv
BY InitialPool DEF Init, IInv

\* What taking an address the pool need not offer does to the free addresses.
LEMMA Occupied ==
    ASSUME IInv, NEW a \in Int
    PROVE  /\ WellFormed(OccupyIp(pool, a))
           /\ FreeAddresses(OccupyIp(pool, a)) = FreeAddresses(pool) \ {a}
BY OccupyIpCorrect DEF IInv

LEMMA StepIInv == DiscoveryBeside /\ IInv /\ [Next]_vars => IInv'
<1>. SUFFICES ASSUME DiscoveryBeside, IInv, [Next]_vars PROVE IInv'
  OBVIOUS
<1>1. ASSUME AllocateIp PROVE IInv'
  <2>1. /\ FirstFree(pool) \in FreeAddresses(pool)
        /\ WellFormed(TakeFirst(pool))
        /\ FreeAddresses(TakeFirst(pool)) = FreeAddresses(pool) \ {FirstFree(pool)}
    BY <1>1, TakeFirstCorrect DEF IInv, AllocateIp
  <2>2. FirstFree(pool) \in Int
    BY <2>1, FreeAddressesOf DEF IInv, WellFormed
  <2>. QED
    BY <1>1, <2>1, <2>2 DEF IInv, AllocateIp, Ready
<1>2. ASSUME NEW a \in PortAddress, ExcludePort(a) PROVE IInv'
  <2>1. a \in Int
    BY IpamAssumption
  <2>2. CASE a \in Discovery
    <3>1. a \notin FreeAddresses(pool)
      BY <1>2, <2>2 DEF IInv, ExcludePort, DiscoveryBeside
    <3>. QED
      BY <1>2, <2>1, <2>2, <3>1 DEF IInv, ExcludePort
  <2>3. CASE a \notin Discovery
    <3>1. pool' = OccupyIp(pool, a)
      BY <1>2, <2>3 DEF ExcludePort
    <3>2. /\ WellFormed(OccupyIp(pool, a))
          /\ FreeAddresses(OccupyIp(pool, a)) = FreeAddresses(pool) \ {a}
      BY <2>1, Occupied
    <3>. QED
      BY <1>2, <2>1, <3>1, <3>2 DEF IInv, ExcludePort
  <2>. QED
    BY <2>2, <2>3
<1>3. ASSUME NEW a \in TargetAddress, AllocateTarget(a) PROVE IInv'
  <2>1. a \in Int
    BY IpamAssumption
  <2>2. /\ WellFormed(OccupyIp(pool, a))
        /\ FreeAddresses(OccupyIp(pool, a)) = FreeAddresses(pool) \ {a}
    BY <2>1, Occupied
  <2>. QED
    BY <1>3, <2>1, <2>2 DEF IInv, AllocateTarget, Ready
<1>4. ASSUME NEW a \in held, DeallocateHeld(a) PROVE IInv'
  <2>1. a \in Int /\ a \notin FreeAddresses(pool)
    BY DEF IInv
  <2>2. /\ WellFormed(DeallocateIp(pool, a))
        /\ FreeAddresses(DeallocateIp(pool, a)) = FreeAddresses(pool) \union {a}
    BY <2>1, DeallocateIpCorrect DEF IInv
  <2>. QED
    BY <1>4, <2>1, <2>2 DEF IInv, DeallocateHeld, Ready
<1>5. ASSUME UNCHANGED vars PROVE IInv'
  BY <1>5 DEF IInv, vars
<1>. QED
  BY <1>1, <1>2, <1>3, <1>4, <1>5 DEF Next

LEMMA Inductive == DiscoveryBeside /\ Spec => []IInv
<1>. SUFFICES ASSUME DiscoveryBeside PROVE Spec => []IInv
  OBVIOUS
<1>1. IInv /\ [Next]_vars => IInv'
  BY StepIInv
<1>. QED
  BY InitIInv, <1>1, PTL DEF Spec

(* The ranges of the free list stay non-empty, ascending and apart, and    *)
(* every variable keeps its type.                                          *)
THEOREM ListStaysWellFormed ==
    DiscoveryBeside /\ Spec => [](TypeOK /\ PoolWellFormed)
<1>1. IInv => TypeOK /\ PoolWellFormed
  BY DEF IInv, TypeOK, PoolWellFormed, WellFormed
<1>. QED
  BY Inductive, <1>1, PTL

(* An address some port of the subnet uses is never on offer.              *)
THEOREM NeverOfferedTwice == DiscoveryBeside /\ Spec => []NotOfferedTwice
<1>1. IInv => NotOfferedTwice
  BY DEF IInv, NotOfferedTwice, Pool!FreeNotHeld
<1>. QED
  BY Inductive, <1>1, PTL

-----------------------------------------------------------------------------
(* Refinement.                                                             *)

\* The address allocate_ip picks is the smallest free one.
LEMMA FirstIsSmallest ==
    ASSUME NEW p, WellFormed(p), p # << >>, NEW b \in FreeAddresses(p)
    PROVE  FirstFree(p) <= b
<1>1. /\ p \in Seq(IpRange)
      /\ 1 \in 1 .. Len(p)
      /\ \A j \in 1 .. Len(p) : p[j][1] \in Int /\ p[j][2] \in Int
      /\ \A j \in 1 .. Len(p) : p[j][1] <= p[j][2]
      /\ \A j, k \in 1 .. Len(p) : j < k => p[j][2] + 1 < p[k][1]
  BY RangeEnds, EmptySeq DEF WellFormed
<1>2. PICK k \in 1 .. Len(p) : b \in Int /\ p[k][1] <= b
  BY <1>1, FreeAddressesOf DEF Within
<1>3. CASE k = 1
  BY <1>2, <1>3 DEF FirstFree
<1>4. CASE 1 < k
  <2>1. p[1][2] + 1 < p[k][1] /\ p[1][1] <= p[1][2]
    BY <1>1, <1>4
  <2>. QED
    BY <1>1, <1>2, <2>1 DEF FirstFree
<1>. QED
  BY <1>2, <1>3, <1>4

LEMMA InitRefines == Init => Pool!Init
BY InitialPool DEF Init, Pool!Init

LEMMA StepRefines ==
    DiscoveryBeside /\ IInv /\ IInv' /\ [Next]_vars => [Pool!Next]_(Pool!vars)
<1>. SUFFICES ASSUME DiscoveryBeside, IInv, IInv', [Next]_vars
              PROVE  [Pool!Next]_(Pool!vars)
  OBVIOUS
<1>1. ASSUME AllocateIp PROVE Pool!Offer
  <2>1. /\ FirstFree(pool) \in FreeAddresses(pool)
        /\ FreeAddresses(TakeFirst(pool)) = FreeAddresses(pool) \ {FirstFree(pool)}
    BY <1>1, TakeFirstCorrect DEF IInv, AllocateIp
  <2>2. \A b \in FreeAddresses(pool) : FirstFree(pool) <= b
    BY <1>1, FirstIsSmallest DEF IInv, AllocateIp
  <2>. QED
    BY <1>1, <2>1, <2>2 DEF AllocateIp, Pool!Offer, Pool!Take
<1>2. ASSUME NEW a \in PortAddress, ExcludePort(a) PROVE Pool!Take(a)
  <2>1. a \in Int
    BY IpamAssumption
  <2>2. FreeAddresses(pool') = FreeAddresses(pool) \ {a}
    <3>1. CASE a \in Discovery
      <4>1. a \notin FreeAddresses(pool)
        BY <1>2, <3>1 DEF IInv, ExcludePort, DiscoveryBeside
      <4>. QED
        BY <1>2, <3>1, <4>1 DEF ExcludePort
    <3>2. CASE a \notin Discovery
      BY <1>2, <2>1, <3>2, Occupied DEF ExcludePort
    <3>. QED
      BY <3>1, <3>2
  <2>. QED
    BY <1>2, <2>2 DEF ExcludePort, Pool!Take
<1>3. ASSUME NEW a \in TargetAddress, AllocateTarget(a) PROVE Pool!Take(a)
  <2>1. a \in Int
    BY IpamAssumption
  <2>. QED
    BY <1>3, <2>1, Occupied DEF AllocateTarget, Pool!Take
<1>4. ASSUME NEW a \in held, DeallocateHeld(a) PROVE Pool!Release(a)
  <2>1. a \in Int /\ a \notin FreeAddresses(pool)
    BY DEF IInv
  <2>2. FreeAddresses(DeallocateIp(pool, a)) = FreeAddresses(pool) \union {a}
    BY <2>1, DeallocateIpCorrect DEF IInv
  <2>. QED
    BY <1>4, <2>2 DEF DeallocateHeld, Pool!Release
<1>5. ASSUME UNCHANGED vars PROVE UNCHANGED Pool!vars
  BY <1>5 DEF vars, Pool!vars
<1>6. \A a : Pool!Take(a) => a \in held'
  BY DEF Pool!Take
<1>. QED
  BY <1>1, <1>2, <1>3, <1>4, <1>5, <1>6 DEF Next, Pool!Next

(* The list of ranges implements the set of free addresses of IpPool.      *)
THEOREM IpamImplementsPool == DiscoveryBeside /\ Spec => ImplementsPool
<1>. SUFFICES ASSUME DiscoveryBeside PROVE Spec => ImplementsPool
  OBVIOUS
<1>1. IInv /\ IInv' /\ [Next]_vars => [Pool!Next]_(Pool!vars)
  BY StepRefines
<1>. QED
  BY Inductive, InitRefines, <1>1, PTL DEF Spec, ImplementsPool, Pool!Spec
=============================================================================
