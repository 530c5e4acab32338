------------------------------ MODULE SshKeys ------------------------------
(***************************************************************************)
(* An SSH key for a node or for the nodes of a set: the row users write,   *)
(* the resources the service makes of it (secret/service.py), one for the  *)
(* key and one for each node, and what the agents of the nodes report.     *)
(*                                                                         *)
(* The passes over keys are a part of the transaction of the module        *)
(* Secrets; each reads the row and writes it, as it was read, in a later   *)
(* step.  A key that is created again has another uuid: it starts afresh.  *)
(***************************************************************************)
EXTENDS Naturals

CONSTANTS
    Nodes,
    Forms,         \* user, public key and path of the file
    None,
    MaxEvents      \* bound: requests, reports of trouble, rollbacks

VARIABLES
    key,           \* the row in secret_ssh_keys
    nodes,         \* the nodes that exist, all of them in the set
    tables,        \* resources of the key: `master`, `tracked`, `host`
    actual,        \* the last report of each node
    pass,          \* where the iteration is
    work,          \* row and resources as the transaction sees them
    locked,        \* the transaction has written the row
    copy,          \* the row, and the reports, as the pass read them
    events,
    overtaken      \* history: a request came after the pass over changed keys had read

vars == <<key, nodes, tables, actual, pass, work, locked, copy, events, overtaken>>

\* The target is one node, or the set.
Wish == [form : Forms, target : {{n} : n \in Nodes} \union {Nodes}]
Key == [wish : Wish, status : {"NEW", "IN_PROGRESS", "ACTIVE"}]
Report == [form : Forms, status : {"IN_PROGRESS", "ACTIVE", "ERROR"}]
Host == [form : Forms, status : {"IN_PROGRESS", "ACTIVE", "ERROR"}, full : Report \union {None}]
Tables == [master : BOOLEAN, tracked : BOOLEAN, host : [Nodes -> Host \union {None}]]

NoHosts == [n \in Nodes |-> None]
NoResources == [master |-> FALSE, tracked |-> FALSE, host |-> NoHosts]
NoCopy == [key |-> None, reports |-> NoHosts]

\* A bound for the model checker only.
KeysAssumption == MaxEvents \in Nat

TypeOK ==
    /\ key \in Key \union {None}
    /\ nodes \subseteq Nodes
    /\ tables \in Tables /\ work.tables \in Tables
    /\ actual \in [Nodes -> Report \union {None}]
    /\ pass \in {"idle", "new", "changed", "outdated", "commit"}
    /\ work.key \in Key \union {None}
    /\ copy.key \in Key \union {None} /\ copy.reports \in [Nodes -> Report \union {None}]
    /\ locked \in BOOLEAN /\ overtaken \in BOOLEAN /\ events \in 0 .. MaxEvents
    \* A node's resource never outlives the resource of its key.
    /\ \A n \in Nodes : tables.host[n] # None => tables.master

Init ==
    /\ key = None /\ nodes = Nodes
    /\ tables = NoResources /\ actual = NoHosts
    /\ pass = "idle" /\ work = [key |-> None, tables |-> NoResources]
    /\ locked = FALSE /\ copy = NoCopy
    /\ events = 0 /\ overtaken = FALSE

Tick == events < MaxEvents /\ events' = events + 1

-----------------------------------------------------------------------------
(* Users.                                                                   *)

\* Waits for the lock of a row the service has written.
Request(new) ==
    /\ Tick
    /\ ~locked
    /\ key' = new
    /\ tables' = [tables EXCEPT !.tracked = FALSE]
    /\ work' = [work EXCEPT !.tables.tracked = FALSE]
    /\ overtaken' = (overtaken \/ pass \in {"changed", "outdated"})
    /\ UNCHANGED <<nodes, actual, pass, locked, copy>>

CreateKey(wish) ==
    /\ key = None /\ ~tables.master /\ actual = NoHosts /\ pass = "idle"
    /\ Request([wish |-> wish, status |-> "NEW"])

UpdateKey(wish) == key # None /\ key.wish # wish /\ Request([wish |-> wish, status |-> "NEW"])

DeleteKey == key # None /\ Request(None)

\* A node that is created later does not come back under the same uuid.
DeleteNode(n) ==
    /\ Tick
    /\ n \in nodes /\ nodes' = nodes \ {n}
    /\ UNCHANGED <<key, tables, actual, pass, work, locked, copy, overtaken>>

-----------------------------------------------------------------------------
(* The service.                                                             *)

Seen == IF locked THEN work.key ELSE key

Begin ==
    /\ pass = "idle" /\ pass' = "new"
    /\ work' = [key |-> key, tables |-> tables]
    /\ copy' = [NoCopy EXCEPT !.key = IF tables.master THEN None ELSE key]
    /\ UNCHANGED <<key, nodes, tables, actual, locked, events, overtaken>>

\* A row saved over what a user may have committed since it was read; nothing is
\* written if it is as it was read, and a save of a deleted row raises.
Saved(saved, resources) ==
    IF Seen = None
    THEN [key |-> None, tables |-> [resources EXCEPT !.tracked = FALSE]]
    ELSE [key |-> IF saved = copy.key THEN Seen ELSE saved,
          tables |-> [resources EXCEPT !.tracked = saved # copy.key \/ Seen = copy.key]]

HostFor(wish) == [form |-> wish.form, status |-> "IN_PROGRESS", full |-> None]

\* One resource for the key and one for each of its nodes that exist.  A key
\* without such a node is deleted.
Placed ==
    LET targets == copy.key.wish.target \intersect nodes
        hosts == [n \in Nodes |-> IF n \in targets THEN HostFor(copy.key.wish) ELSE None]
    IN  IF targets = {} THEN [key |-> None, tables |-> NoResources]
        ELSE Saved([copy.key EXCEPT !.status = "IN_PROGRESS"],
                   [master |-> TRUE, tracked |-> FALSE, host |-> hosts])

\* The pass over new keys, or over changed ones, whose resources are made anew.
Actualize ==
    /\ work' = IF copy.key = None THEN work ELSE Placed
    /\ locked' = (locked \/ (copy.key # None /\ Seen # None /\ work'.key # Seen))

ActualizeNew ==
    /\ pass = "new" /\ pass' = "changed"
    /\ Actualize
    /\ LET now == IF locked' THEN work'.key ELSE key
           changed == work'.tables.master /\ ~work'.tables.tracked
       IN  copy' = [NoCopy EXCEPT !.key = IF changed THEN now ELSE None]
    /\ UNCHANGED <<key, nodes, tables, actual, events, overtaken>>

\* What differs from the last report that was handled.  With a row deleted and its
\* resource still there nothing is handled.
Outdated(resources) ==
    {n \in Nodes : /\ resources.host[n] # None /\ actual[n] # None
                   /\ resources.host[n].full # actual[n]}

ActualizeChanged ==
    /\ pass = "changed" /\ pass' = "outdated"
    /\ Actualize
    /\ LET now == IF locked' THEN work'.key ELSE key
           outdated == IF now = None THEN {} ELSE Outdated(work'.tables)
       IN  copy' = IF outdated = {} THEN NoCopy
                   ELSE [key |-> now,
                         reports |-> [n \in Nodes |-> IF n \in outdated THEN actual[n] ELSE None]]
    /\ UNCHANGED <<key, nodes, tables, actual, events, overtaken>>

\* `ACTIVE` only if the hash is the same.
Answered(host, report) ==
    [host EXCEPT !.full = report,
                 !.status = IF report.status = "ACTIVE" /\ report.form # host.form
                            THEN @ ELSE report.status]

\* The status of a key follows the hosts that have just answered.
KeyStatus(statuses) ==
    CASE statuses = {"ACTIVE"} -> "ACTIVE"
      [] "IN_PROGRESS" \in statuses -> "IN_PROGRESS"
      [] OTHER -> copy.key.status

ActualizeOutdated ==
    /\ pass = "outdated" /\ pass' = "commit"
    /\ LET answered == {n \in Nodes : copy.reports[n] # None}
           hosts == [n \in Nodes |-> IF n \in answered
                                     THEN Answered(work.tables.host[n], copy.reports[n])
                                     ELSE work.tables.host[n]]
           status == KeyStatus({hosts[n].status : n \in answered})
           marked == [work.tables EXCEPT !.host = hosts]
       IN  IF copy.key = None THEN UNCHANGED <<work, locked>>
           ELSE IF status = copy.key.status
           THEN work' = [work EXCEPT !.tables = marked] /\ UNCHANGED locked
           ELSE /\ work' = Saved([copy.key EXCEPT !.status = status], marked)
                /\ locked' = (Seen # None)
    /\ copy' = NoCopy
    /\ UNCHANGED <<key, nodes, tables, actual, events, overtaken>>

Orphan == Seen = None

\* The pass over deleted keys ends the transaction.
Commit ==
    /\ pass = "commit" /\ pass' = "idle"
    /\ key' = Seen
    /\ tables' = IF Orphan THEN NoResources ELSE work.tables
    /\ locked' = FALSE
    /\ UNCHANGED <<nodes, actual, work, copy, events, overtaken>>

Rollback ==
    /\ Tick
    /\ pass # "idle" /\ pass' = "idle"
    /\ locked' = FALSE /\ copy' = NoCopy
    /\ UNCHANGED <<key, nodes, tables, actual, work, overtaken>>

-----------------------------------------------------------------------------
(* The agents of the nodes, universal agents of gcl_sdk.                    *)

AgentReports(n, status) ==
    /\ n \in nodes
    /\ actual' = [actual EXCEPT ![n] =
                    IF tables.host[n] = None THEN None
                    ELSE [form |-> tables.host[n].form, status |-> status]]
    /\ actual' # actual
    /\ UNCHANGED <<key, nodes, tables, pass, work, locked, copy, overtaken>>

AgentActs(n) == AgentReports(n, "ACTIVE") /\ UNCHANGED events

AgentFails(n) == tables.host[n] # None /\ Tick /\ \E s \in {"IN_PROGRESS", "ERROR"} : AgentReports(n, s)

-----------------------------------------------------------------------------
Service == Begin \/ ActualizeNew \/ ActualizeChanged \/ ActualizeOutdated \/ Commit

Next ==
    \/ \E wish \in Wish : CreateKey(wish) \/ UpdateKey(wish)
    \/ DeleteKey \/ Rollback \/ Service
    \/ \E n \in Nodes : DeleteNode(n) \/ AgentActs(n) \/ AgentFails(n)

-----------------------------------------------------------------------------
\* A deleted key is gone from everywhere; any other, unless a request came in the
\* middle of an iteration, is ACTIVE, as it is on every node it was placed on, if
\* those nodes are all there (secret/service.py:523, "`ACTIVE` only if the hash is
\* the same").
KeySettled ==
    IF key = None THEN tables = NoResources
    ELSE \/ overtaken
         \/ \E n \in Nodes \ nodes : tables.host[n] # None
         \/ /\ tables.tracked /\ key.status = "ACTIVE"
            /\ \A n \in nodes : tables.host[n] # None =>
                 /\ actual[n] = [form |-> key.wish.form, status |-> "ACTIVE"]
                 /\ tables.host[n].status = "ACTIVE"
            /\ nodes \intersect key.wish.target = {n \in Nodes : tables.host[n] # None}

Spec == Init /\ [][Next]_vars

\* The service and the agents are run for ever.
FairSpec == Spec /\ WF_vars(Service) /\ \A n \in Nodes : WF_vars(AgentActs(n))

\* What is true of a key once requests and failures stop.
KeysSettle == <>[]KeySettled
=============================================================================
