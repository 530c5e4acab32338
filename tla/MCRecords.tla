------------------------------ MODULE MCRecords -----------------------------
(* Records with one or two of everything, on the subnet of MCIpam.         *)
EXTENDS Records, MCIpam

CONSTANTS g1, v1, v2    \* of Global and Vals

\* What is not in focus has one initial state.
MCInit ==
    /\ RecordsInit
    /\ focus # "ipam" => todo = {}
    /\ focus # "dns" => due
    /\ active = {g1}    \* one of two listed, it does not matter which
    /\ IF focus = "profiles" THEN var.setter # "everybody" ELSE var.setter = "selector"
    \* Of the values, all are there or none; none if the setter is to start by profile.
    /\ val[v1] = val[v2]
    /\ val[v1] # None => focus = "profiles" /\ var.setter = "selector"
    /\ focus # "stand" => cdrom

MCSpec == MCInit /\ [][RecordsNext]_recordsVars /\ Fairness
=============================================================================
