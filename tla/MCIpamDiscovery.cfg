CONSTANTS
    RangeFirst <- MCRangeFirst
    RangeLast <- MCRangeLast
    Discovery <- MCDiscoveryInside
    PortAddress <- MCPortAddress
    TargetAddress <- MCTargetAddress
SPECIFICATION Spec
INVARIANT NotOfferedTwice
