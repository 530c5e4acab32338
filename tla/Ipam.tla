-------------------------------- MODULE Ipam --------------------------------
(***************************************************************************)
(* The IPAM of one subnet (network/ipam.py, class Ipam), as the network    *)
(* service uses it during one iteration: the constructor takes the         *)
(* addresses of the ports of the subnet out of the pool one by one         *)
(* (calculate_pool), and then addresses are allocated and given back.      *)
(***************************************************************************)
EXTENDS IpRanges, FiniteSets

CONSTANTS
    RangeFirst, RangeLast,  \* ends of ip_range, or of the cidr when there is none
    Discovery,        \* ip_discovery_range: addresses that DHCP hands out itself
    PortAddress,      \* addresses the ports of the subnet may have
    TargetAddress     \* addresses a node may ask for (target_ipv4)

ASSUME IpamAssumption ==
    /\ RangeFirst \in Int /\ RangeLast \in Int /\ RangeFirst <= RangeLast
    /\ Discovery \subseteq Int
    /\ PortAddress \subseteq Int
    /\ TargetAddress \subseteq Int

VARIABLES
    pool,             \* _pool_map[subnet]
    todo,             \* addresses calculate_pool has still to look at
    held              \* addresses that ports of the subnet use

vars == <<pool, todo, held>>

TypeOK == /\ pool \in Seq(IpRange)
          /\ todo \subseteq PortAddress
          /\ held \subseteq Int

Init == /\ pool = << <<RangeFirst, RangeLast>> >>
        /\ todo \in SUBSET PortAddress
        /\ held = {}

(* One turn of the loop of calculate_pool.  An address of the discovery    *)
(* range is skipped: the port has it and the pool does not lose it.        *)
ExcludePort(a) ==
    /\ a \in todo
    /\ todo' = todo \ {a}
    /\ held' = held \union {a}
    /\ pool' = IF a \in Discovery THEN pool ELSE OccupyIp(pool, a)

\* The constructor has returned.
Ready == todo = {}

(* allocate_ip(subnet): an empty pool raises IpamNoIPsAvailable.           *)
AllocateIp ==
    /\ Ready
    /\ pool # << >>
    /\ pool' = TakeFirst(pool)
    /\ held' = held \union {FirstFree(pool)}
    /\ UNCHANGED todo

(* allocate_ip(subnet, target_ip): the target is taken whether or not it   *)
(* is free (occupy_ip only logs), but an empty pool raises here as well.   *)
AllocateTarget(a) ==
    /\ Ready
    /\ pool # << >>
    /\ pool' = OccupyIp(pool, a)
    /\ held' = held \union {a}
    /\ UNCHANGED todo

(* deallocate_ip of an address some port uses.                             *)
DeallocateHeld(a) ==
    /\ Ready
    /\ a \in held
    /\ pool' = DeallocateIp(pool, a)
    /\ held' = held \ {a}
    /\ UNCHANGED todo

Next == \/ AllocateIp
        \/ \E a \in PortAddress : ExcludePort(a)
        \/ \E a \in TargetAddress : AllocateTarget(a)
        \/ \E a \in held : DeallocateHeld(a)

Spec == Init /\ [][Next]_vars

-----------------------------------------------------------------------------
(* The list of ranges is an IpPool: the refinement mapping reads the list  *)
(* as the set of addresses it offers.                                      *)
Pool == INSTANCE IpPool WITH Addresses <- RangeFirst .. RangeLast,
                             free  <- FreeAddresses(pool)

(* Every operation on the list of ranges does to the free addresses what   *)
(* IpPool says: network/ipam.py:109-200 keeps the set it stands for.       *)
ImplementsPool == Pool!Spec

(* The ranges stay in order, apart and never empty, through any sequence   *)
(* of splits, shrinks and merges (the code relies on it: it searches from  *)
(* the left and stops at the first match).                                 *)
PoolWellFormed == WellFormed(pool)

(* An address that a port of the subnet uses is not on offer, so the next  *)
(* allocation cannot give it to a second port (the constructor's promise,  *)
(* network/ipam.py:58-60).                                                 *)
NotOfferedTwice == Pool!FreeNotHeld
=============================================================================
