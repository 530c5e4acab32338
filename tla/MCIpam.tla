------------------------------- MODULE MCIpam -------------------------------
(* Ipam on a subnet of six addresses, with port addresses on both sides of *)
(* the range and targets at both of its ends and outside.                  *)
EXTENDS Ipam

MCRangeFirst == 1
MCRangeLast == 6
MCPortAddress == {0, 1, 3, 4, 6}
MCTargetAddress == {2, 3, 6, 7}

\* ip_range is given: the discovery range lies beside it.
MCDiscoveryBeside == {0, 9}
\* ip_range is not given: the pool is the whole cidr, discovery range included.
MCDiscoveryInside == {3, 4, 5}
=============================================================================
