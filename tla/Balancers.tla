------------------------------ MODULE Balancers -----------------------------
(***************************************************************************)
(* A load balancer, its set of nodes and what its nodes serve              *)
(* (network/lb/builders, network/lb/dm/models.py, compute/builders/        *)
(* node_set.py, compute/node_set/dm/models.py, user_api/network/dm).       *)
(*                                                                         *)
(* Two builders look after one row: lb_iaas turns it into a node set,      *)
(* lb_paas into one object for each node of the set.  Each of them sees    *)
(* the row as changed when it was written since its own last turn, by a    *)
(* user or by the other one.  The turn of a service is one step; requests  *)
(* write the whole row from the copy they read.  Balancers of the kind     *)
(* core_agent, and the end of a balancer, are left out.                    *)
(***************************************************************************)
EXTENDS Naturals, FiniteSets

CONSTANTS
    Nodes,         \* identifiers of nodes, drawn at random
    MaxSize,       \* bound: nodes_number
    Contents,      \* vhosts, routes and backend pools, as one
    Underway,      \* bound: requests at one time, no two alike
    MaxEvents,     \* bound: requests and failures
    None

VARIABLES
    lb,            \* the row of net_lb: nodes_number, status, ipsv4
    content,       \* the tables of its children
    underway,      \* requests, with the row they read
    iaasDirty, paasDirty,  \* the row was written since the builder tracked it
    want,          \* target_node_set: replicas
    set,           \* the row of the node set: replicas, nodes, status
    setDirty,
    members,       \* set_agent_node: the nodes the set asks for
    row,           \* their rows in the table of nodes
    setNew, nodesNew,      \* lb_iaas, and the set's builder, have not seen the last report
    served,        \* paas_lb_node: what each node is to serve
    report,        \* what the agents of the nodes reported
    paasSeen,
    turn,          \* the service whose turn it is
    events

vars == <<lb, content, underway, iaasDirty, paasDirty, want, setNew, set, setDirty, members,
          nodesNew, row, served, report, paasSeen, turn, events>>
balancer == <<lb, content, underway, iaasDirty, paasDirty>>
iaas == <<want, setNew>>
nodeset == <<set, setDirty, members>>
infra == <<row, nodesNew>>
paas == <<served, report, paasSeen>>

Status == {"NEW", "IN_PROGRESS", "ACTIVE", "ERROR"}
Balancer == [size : 1 .. MaxSize, status : Status, ips : SUBSET Nodes]
\* SCHEDULED stands for STARTED too; default_network of a node has its address or
\* is still empty.
NodeRow == [status : Status \union {"SCHEDULED"}, ip : BOOLEAN]
Rows == [Nodes -> NodeRow \union {None}]
Set == [replicas : 1 .. MaxSize, nodes : [Nodes -> BOOLEAN \union {None}], status : Status]

There(table) == {n \in Nodes : table[n] # None}
Nowhere == [n \in Nodes |-> None]

\* There are enough identifiers of nodes, and None is no row.
BalancersAssumption ==
    /\ IsFiniteSet(Nodes) /\ MaxSize \in 1 .. Cardinality(Nodes) /\ MaxEvents \in Nat
    /\ Contents # {} /\ None \notin Contents

TypeOK ==
    /\ lb \in Balancer /\ content \in Contents
    /\ \A q \in underway : q.lb \in Balancer
    /\ iaasDirty \in BOOLEAN /\ paasDirty \in BOOLEAN /\ setDirty \in BOOLEAN
    /\ setNew \in BOOLEAN /\ nodesNew \in BOOLEAN
    /\ want \in (1 .. MaxSize) \union {None}
    /\ set \in Set \union {None}
    /\ members \subseteq Nodes /\ Cardinality(members) <= MaxSize
    /\ row \in Rows
    /\ served \in [Nodes -> Contents \union {None}]
    /\ {report, paasSeen} \subseteq
           [Nodes -> [content : Contents, status : {"ACTIVE", "ERROR"}] \union {None}]
    /\ There(report) \subseteq There(served)
    /\ turn \in {"set_builder", "infra_agent", "lb_iaas", "lb_paas"}
    /\ events \in 0 .. MaxEvents

Init ==
    /\ lb = [size |-> 1, status |-> "NEW", ips |-> {}]
    /\ content = CHOOSE c \in Contents : TRUE
    /\ underway = {}
    /\ iaasDirty = TRUE /\ paasDirty = TRUE
    /\ want = None /\ setNew = FALSE
    /\ set = None /\ setDirty = FALSE /\ members = {}
    /\ row = Nowhere /\ nodesNew = FALSE
    /\ served = Nowhere /\ report = Nowhere /\ paasSeen = Nowhere
    /\ turn = "set_builder"
    /\ events = 0

Event == events < MaxEvents /\ events' = events + 1

-----------------------------------------------------------------------------
(* Users.                                                                   *)

\* Only the builders of the balancer read what users write: at the other turns
\* a request would come to the same.
UsersAct == turn \in {"lb_iaas", "lb_paas"}

\* A request for another size, or one that is about a child of the balancer; one
\* that never ends is one that fails.
Begin(kind, x) ==
    /\ UsersAct
    /\ Event
    /\ Cardinality(underway) < Underway
    /\ underway' = underway \union {[kind |-> kind, to |-> x, lb |-> lb]}
    /\ UNCHANGED <<lb, content, iaasDirty, paasDirty, iaas, nodeset, infra, paas, turn>>

Written == iaasDirty' = TRUE /\ paasDirty' = TRUE

Resize(q) ==
    /\ UsersAct /\ q.kind = "resize"
    /\ lb' = [q.lb EXCEPT !.size = q.to]
    /\ Written
    /\ underway' = underway \ {q}
    /\ UNCHANGED <<content, iaas, nodeset, infra, paas, turn, events>>

\* A child makes its balancer changed: a forced update of the row it read.
TouchParent(q) == lb' = q.lb /\ Written

EditChild(q) ==
    /\ UsersAct /\ q.kind = "edit"
    /\ content' = q.to
    /\ TouchParent(q)
    /\ underway' = underway \ {q}
    /\ UNCHANGED <<iaas, nodeset, infra, paas, turn, events>>

-----------------------------------------------------------------------------
(* lb_iaas.                                                                 *)

Turn(service, next) == turn = service /\ turn' = next

CreateInfra ==
    /\ want = None
    /\ want' = lb.size
    /\ iaasDirty' = FALSE
    /\ UNCHANGED <<lb, paasDirty, setNew>>

\* The addresses of the nodes reported, if there are any nodes.
Addresses(nodes) == IF There(nodes) = {} THEN lb.ips ELSE {n \in Nodes : nodes[n] = TRUE}

\* What is reported of the set; nothing yet counts as IN_PROGRESS.
Iaas(reported) ==
    IF reported = None THEN [lb EXCEPT !.status = "IN_PROGRESS"]
    ELSE [lb EXCEPT !.status = reported.status, !.ips = Addresses(reported.nodes)]

\* A node without an address makes the turn fail.
Addressed == set # None => \A n \in Nodes : set.nodes[n] # FALSE

ActualizeInfra ==
    /\ want # None
    /\ want' = lb.size
    /\ lb' = Iaas(set)
    /\ iaasDirty' = FALSE
    /\ paasDirty' = (paasDirty \/ lb' # lb)
    /\ setNew' = FALSE

LbIaas ==
    /\ Turn("lb_iaas", "lb_paas")
    /\ IF (iaasDirty \/ setNew) /\ Addressed
       THEN CreateInfra \/ ActualizeInfra
       ELSE UNCHANGED <<lb, iaasDirty, paasDirty, iaas>>
    /\ UNCHANGED <<content, underway, nodeset, infra, paas, events>>

-----------------------------------------------------------------------------
(* The builder of node sets.                                                *)

\* Mutant of GenNodes: identifiers are drawn anew.
GenFresh(known, k) == {s \in SUBSET (Nodes \ known) : Cardinality(s) = k}

\* As many nodes as asked for, those that exist first, in no order.
GenNodes(known, k) ==
    {s \in SUBSET Nodes : Cardinality(s) = k /\ (s \subseteq known \/ known \subseteq s)}

\* Which identifiers are drawn makes no difference.
CreateSet ==
    /\ members = {}
    /\ members' = CHOOSE s \in GenNodes({}, set.replicas) : TRUE
    /\ UNCHANGED <<set, nodesNew>>

\* ACTIVE if enough nodes are known and all of them are; an undecided set
\* keeps its status.
SetStatus(statuses, known) ==
    IF known >= set.replicas /\ statuses \subseteq {"ACTIVE"} THEN "ACTIVE"
    ELSE IF "ERROR" \in statuses THEN "ERROR"
    ELSE IF "NEW" \in statuses THEN "NEW"
    ELSE IF "IN_PROGRESS" \in statuses THEN "IN_PROGRESS" ELSE set.status

\* Nodes that stay and were reported count.
ActualizeSet ==
    /\ members # {}
    /\ members' \in GenNodes(members, set.replicas)
    /\ LET known == members \intersect members' \intersect There(row)
       IN  set' = [set EXCEPT
               !.nodes = [n \in Nodes |-> IF n \in known THEN row[n].ip ELSE None],
               !.status = SetStatus({row[n].status : n \in known}, Cardinality(known))]
    /\ nodesNew' = FALSE

SetBuilder ==
    /\ Turn("set_builder", "infra_agent")
    /\ IF set # None /\ (setDirty \/ nodesNew)
       THEN (CreateSet \/ ActualizeSet) /\ setDirty' = FALSE
       ELSE UNCHANGED <<nodeset, nodesNew>>
    /\ setNew' = (setNew \/ set' # set)
    /\ UNCHANGED <<balancer, want, row, paas, events>>

-----------------------------------------------------------------------------
(* infra_agent, the nodes themselves and the agents on them.                *)

\* First the nodes, then the set; both are reported.  Nobody writes their rows
\* between this turn and those that read the reports: the rows stand for them.
InfraAgent ==
    /\ Turn("infra_agent", "lb_iaas")
    /\ row' = [n \in Nodes |-> IF n \notin members THEN None
                 ELSE IF row[n] = None THEN [status |-> "NEW", ip |-> FALSE] ELSE row[n]]
    /\ nodesNew' = (nodesNew \/ row' # row)
    /\ IF want = None THEN UNCHANGED <<set, setDirty>>
       ELSE IF set = None
       THEN /\ set' = [replicas |-> want, nodes |-> Nowhere, status |-> "NEW"]
            /\ setDirty' = TRUE
       ELSE /\ set' = [set EXCEPT !.replicas = want]
            /\ setDirty' = (setDirty \/ set.replicas # want)
    /\ setNew' = (setNew \/ set' # set)
    /\ UNCHANGED <<balancer, want, members, paas, events>>

\* Only infra_agent reads the rows of nodes, only lb_paas the reports of agents:
\* each comes just before it is read.
NodesAct == turn = "infra_agent"
AgentsAct == turn = "lb_paas"

\* What a node may be next on its way up.
Ahead(status) ==
    CASE status = "NEW" -> {"SCHEDULED", "IN_PROGRESS", "ACTIVE"}
      [] status = "SCHEDULED" -> {"IN_PROGRESS", "ACTIVE"}
      [] OTHER -> {"ACTIVE"} \ {status}

\* Scheduler, builders, agents and network bring a node up; it may be ACTIVE
\* before it has its address.
NodeProceeds(n) ==
    /\ NodesAct /\ row[n] # None
    /\ \/ \E s \in Ahead(row[n].status) : row' = [row EXCEPT ![n].status = s]
       \/ ~row[n].ip /\ row' = [row EXCEPT ![n].ip = TRUE]
    /\ nodesNew' = TRUE
    /\ UNCHANGED <<balancer, iaas, nodeset, paas, turn, events>>

NodeFails(n) ==
    /\ NodesAct /\ Event
    /\ row[n] # None /\ row[n].status # "ERROR"
    /\ row' = [row EXCEPT ![n].status = "ERROR"]
    /\ nodesNew' = TRUE
    /\ UNCHANGED <<balancer, iaas, nodeset, paas, turn>>

Serve(n) ==
    /\ AgentsAct /\ row[n] # None /\ served[n] # None
    /\ report' = [report EXCEPT ![n] = [content |-> served[n], status |-> "ACTIVE"]]
    /\ report' # report
    /\ UNCHANGED <<balancer, iaas, nodeset, infra, served, paasSeen, turn, events>>

ServeFails(n) ==
    /\ AgentsAct /\ Event
    /\ row[n] # None /\ served[n] # None
    /\ report' = [report EXCEPT ![n] = [content |-> served[n], status |-> "ERROR"]]
    /\ UNCHANGED <<balancer, iaas, nodeset, infra, served, paasSeen, turn>>

-----------------------------------------------------------------------------
(* lb_paas.                                                                 *)

PaasStatus ==
    LET reports == {report[n] : n \in There(served)}
        Some(status) == \E r \in reports : r # None /\ r.status = status
        All(status) == \A r \in reports : r # None /\ r.status = status
    IN  IF reports # {} /\ All("ACTIVE") THEN "ACTIVE"
        ELSE IF Some("ERROR") THEN "ERROR" ELSE "IN_PROGRESS"

\* The status is that of the objects as they were reported, whatever is asked
\* of them now.
ActualizePaas ==
    /\ served' = [n \in Nodes |-> IF n \in There(set.nodes) THEN content ELSE None]
    /\ report' = [n \in Nodes |-> IF n \in There(set.nodes) THEN report[n] ELSE None]
    /\ paasSeen' = report'
    /\ lb' = [lb EXCEPT !.status = PaasStatus]
    /\ paasDirty' = FALSE
    /\ iaasDirty' = (iaasDirty \/ lb' # lb)

\* Until the set is reported the turn fails.
LbPaas ==
    /\ Turn("lb_paas", "set_builder")
    /\ IF (paasDirty \/ report # paasSeen) /\ set # None
       THEN ActualizePaas
       ELSE UNCHANGED <<lb, iaasDirty, paasDirty, paas>>
    /\ UNCHANGED <<content, underway, iaas, nodeset, infra, events>>

-----------------------------------------------------------------------------
Users ==
    \/ \E k \in (1 .. MaxSize) \ {lb.size} : Begin("resize", k)
    \/ \E c \in Contents \ {content} : Begin("edit", c)
    \/ \E q \in underway : Resize(q) \/ EditChild(q)

Process == SetBuilder \/ InfraAgent \/ LbIaas \/ LbPaas

Next ==
    \/ Users \/ Process
    \/ \E n \in Nodes : NodeProceeds(n) \/ NodeFails(n) \/ Serve(n) \/ ServeFails(n)

Spec == Init /\ [][Next]_vars
\* The services take their turns for ever, nodes come up and agents answer.
Fairness ==
    /\ WF_vars(Process)
    /\ \A n \in Nodes : SF_vars(NodeProceeds(n)) /\ SF_vars(Serve(n))
FairSpec == Spec /\ Fairness

-----------------------------------------------------------------------------
\* The set has as many nodes as the row asks for, the row has their addresses,
\* each of them serves what the children say, and the row is ACTIVE.
Balanced ==
    /\ Cardinality(members) = lb.size
    /\ lb.status = "ACTIVE" /\ lb.ips = members
    /\ report = [n \in Nodes |-> IF n \in members
                    THEN [content |-> content, status |-> "ACTIVE"] ELSE None]

\* It comes to that once users and failures stop: the two builders that write
\* the row's status agree in the end.
BalancerSettles == <>[]Balanced

\* A node leaves the set only while there are more of them than asked for: a
\* change of size or content replaces none.
NodesAreKept == [][
    /\ members # {} /\ Cardinality(members) <= set.replicas => members \subseteq members'
    /\ members \subseteq members' \/ members' \subseteq members]_<<members>>
=============================================================================
