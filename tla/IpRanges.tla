------------------------------ MODULE IpRanges ------------------------------
(***************************************************************************)
(* The free list of the IPAM (network/ipam.py): the addresses of a subnet  *)
(* that are not given out, kept as an ascending list of inclusive ranges   *)
(* <<start, end>>.  The operators are the list surgery of Ipam; an address *)
(* is an integer, as in the code.                                          *)
(***************************************************************************)
EXTENDS Integers, Sequences, SequencesExt

IpRange == Int \X Int

Within(a, r) == r[1] <= a /\ a <= r[2]

(***************************************************************************)
(* What a free list means: the addresses it offers (the reference against  *)
(* which the surgery is judged), and the shape it must keep.  In a well    *)
(* formed list the ranges are non-empty, ascending and never touch, so an  *)
(* address lies in at most one of them.                                    *)
(***************************************************************************)
FreeAddresses(pool) == UNION {pool[i][1] .. pool[i][2] : i \in DOMAIN pool}

WellFormed(pool) ==
    /\ pool \in Seq(IpRange)
    /\ \A i \in 1 .. Len(pool) : pool[i][1] <= pool[i][2]
    /\ \A i, j \in 1 .. Len(pool) : i < j => pool[i][2] + 1 < pool[j][1]

-----------------------------------------------------------------------------
\* The loops of Ipam act on the first range that meets a condition; 0 is the
\* loop that ran to its end.
FirstIndex(I) == IF I = {} THEN 0 ELSE Min(I)

\* Mutant of OccupyAt: the last address of a range leaves an empty range.
OccupyAtLeavingEmpty(pool, i, a) ==
    LET s == pool[i][1]
        e == pool[i][2]
    IN  IF a = s THEN ReplaceAt(pool, i, <<s + 1, e>>)
        ELSE IF a = e THEN ReplaceAt(pool, i, <<s, e - 1>>)
        ELSE InsertAt(ReplaceAt(pool, i, <<s, a - 1>>), i + 1, <<a + 1, e>>)

(* Ipam.occupy_ip: take one address out of the range that holds it.  An    *)
(* address that is in no range is logged and ignored.                      *)
OccupyAt(pool, i, a) ==
    LET s == pool[i][1]
        e == pool[i][2]
    IN  IF s = e THEN RemoveAt(pool, i)
        ELSE IF a = s THEN ReplaceAt(pool, i, <<s + 1, e>>)
        ELSE IF a = e THEN ReplaceAt(pool, i, <<s, e - 1>>)
        ELSE InsertAt(ReplaceAt(pool, i, <<s, a - 1>>), i + 1, <<a + 1, e>>)

OccupyIp(pool, a) ==
    LET i == FirstIndex({j \in DOMAIN pool : Within(a, pool[j])})
    IN  IF i = 0 THEN pool ELSE OccupyAt(pool, i, a)

(* Ipam.allocate_ip without a target: the first address of the first range *)
(* (the caller has checked that the list is not empty).                    *)
\* Mutant of FirstFree: the other end of the range.
LastOfFirst(pool) == pool[1][2]

FirstFree(pool) == pool[1][1]

TakeFirst(pool) ==
    LET s == pool[1][1]
        e == pool[1][2]
    IN  IF s = e THEN RemoveAt(pool, 1) ELSE ReplaceAt(pool, 1, <<s + 1, e>>)

(* Ipam.deallocate_ip: the loop stops at the first range that starts after *)
(* the address, ends just before it, or holds it strictly inside (logged   *)
(* as "not allocated"); when there is none the address goes to the end.    *)
StopsAt(a, r) == a < r[1] \/ a = r[2] + 1 \/ (r[1] < a /\ a < r[2])

\* Mutant of DeallocateAt: a bare address where a range belongs.
DeallocateBare(pool, i, a) ==
    IF a < pool[i][1] - 1 THEN InsertAt(pool, i, <<a>>) ELSE pool

DeallocateAt(pool, i, a) ==
    LET s == pool[i][1]
        e == pool[i][2]
        joins == i < Len(pool) /\ pool[i + 1][1] - 1 = a
    IN  IF a < s - 1 THEN InsertAt(pool, i, <<a, a>>)
        ELSE IF a = s - 1 THEN ReplaceAt(pool, i, <<a, e>>)
        ELSE IF a # e + 1 THEN pool
        ELSE IF joins
             THEN RemoveAt(ReplaceAt(pool, i, <<s, pool[i + 1][2]>>), i + 1)
             ELSE ReplaceAt(pool, i, <<s, a>>)

\* Mutant of DeallocateIp: an address after the last range is lost.
DeallocateUnlessLast(pool, a) ==
    LET i == FirstIndex({j \in DOMAIN pool : StopsAt(a, pool[j])})
    IN  IF i = 0 THEN pool ELSE DeallocateAt(pool, i, a)

DeallocateIp(pool, a) ==
    LET i == FirstIndex({j \in DOMAIN pool : StopsAt(a, pool[j])})
    IN  IF i = 0 THEN Append(pool, <<a, a>>) ELSE DeallocateAt(pool, i, a)
=============================================================================
