--------------------------- MODULE ConfigDelivery ---------------------------
(***************************************************************************)
(* Delivery of configuration files to nodes: the rows users write          *)
(* (config_configs), the service that turns them into renders, one per     *)
(* node and path (config/service.py), and the agents that put renders on   *)
(* disk and report back.                                                   *)
(*                                                                         *)
(* One iteration of the service is one READ COMMITTED transaction: its     *)
(* reads see what users committed meanwhile, its writes stay in `work` and *)
(* `written` until Commit, and after a statement that fails PostgreSQL     *)
(* refuses the others, so the commit rolls back (pass "aborted").          *)
(***************************************************************************)
EXTENDS Naturals, FiniteSets

CONSTANTS
    Config,        \* uuids; their order is the order of Nat
    Node, Path, Body,
    Template,      \* bodies of kind template, which cannot be rendered yet
    PathOf,        \* file a config describes
    TargetOf,      \* its target: a node, or a node set
    NodesOf,       \* nodes of a target, those still to be created included
    FirstNodes,    \* nodes that exist at the start
    NoRow, NoReport, NoBody,
    MaxEvents      \* bound: user requests, node changes, crashes, failed applies

ASSUME ConfigAssumption ==
    /\ Config \subseteq Nat
    /\ Template \subseteq Body
    /\ PathOf \in [Config -> Path]
    /\ NodesOf \in [{TargetOf[c] : c \in Config} -> SUBSET Node]
    /\ FirstNodes \subseteq Node
    /\ MaxEvents \in Nat

Status == {"NEW", "IN_PROGRESS", "ACTIVE", "ERROR"}
Row == [body : Body, status : Status]
Report == [body : Body \union {NoBody}, status : Status]
\* A target resource of kind render; `full` is the full_hash of the report
\* it was last brought up to date with.
Render == [node : Node, path : Path, master : Config, body : Body,
           status : Status, full : Report \union {NoReport}]
\* Target resources: those of configs, those among them whose tracked_at is
\* the updated_at of the row, and the renders.
Tables == [res : SUBSET Config, tracked : SUBSET Config, rend : SUBSET Render]

VARIABLES
    conf,       \* table config_configs
    born,       \* configs ever created
    life,       \* row of a node: "none", "live", "gone"
    store,      \* committed target resources
    disk, act   \* per node and path: the file, and the agent's last report

VARIABLES
    pass,       \* where the iteration is
    work,       \* store as the transaction sees it
    written,    \* config rows the transaction wrote, hence locked
    batch,      \* config rows as the current pass read them
    todo,       \* configs of the batch still to handle
    seenNodes,  \* nodes as the current pass read them
    answers     \* outdated renders with the reports read beside them

VARIABLES
    events,     \* counter of the bound
    answered    \* history: contents the agents reported ACTIVE

agents == <<disk, act, answered>>
iter == <<pass, work, written, batch, todo, seenNodes, answers>>
vars == <<conf, born, life, store, agents, iter, events>>

Live == {n \in Node : life[n] = "live"}
Targets(c) == NodesOf[TargetOf[c]] \intersect Live
EmptyFunction == [c \in {} |-> NoRow]
\* The row as the transaction sees it.
RowOf(c) == IF c \in DOMAIN written THEN written[c] ELSE conf[c]
Locked == DOMAIN written
Write(c, row) ==
    written' = [d \in Locked \union {c} |-> IF d = c THEN row ELSE written[d]]

Tick == events < MaxEvents /\ events' = events + 1

TypeOK ==
    /\ conf \in [Config -> Row \union {NoRow}]
    /\ born \subseteq Config
    /\ life \in [Node -> {"none", "live", "gone"}]
    /\ store \in Tables
    /\ disk \in [Node \X Path -> Body \union {NoBody}]
    /\ act \in [Node \X Path -> Report \union {NoReport}]
    /\ pass \in {"idle", "new", "changed", "outdated", "commit", "aborted"}
    /\ work \in Tables
    /\ Locked \subseteq Config
    /\ written \in [Locked -> Row \union {NoRow}]
    /\ DOMAIN batch \subseteq Config
    /\ batch \in [DOMAIN batch -> Row]
    /\ todo \subseteq DOMAIN batch
    /\ seenNodes \subseteq Node
    /\ answers \subseteq [render : Render, report : Report]
    /\ events \in 0 .. MaxEvents
    /\ answered \subseteq Node \X Path \X Body

NoTables == [res |-> {}, tracked |-> {}, rend |-> {}]

Init ==
    /\ conf = [c \in Config |-> NoRow]
    /\ born = {}
    /\ life = [n \in Node |-> IF n \in FirstNodes THEN "live" ELSE "none"]
    /\ store = NoTables
    /\ disk = [np \in Node \X Path |-> NoBody]
    /\ act = [np \in Node \X Path |-> NoReport]
    /\ answered = {}
    /\ pass = "idle"
    /\ work = NoTables
    /\ written = EmptyFunction
    /\ batch = EmptyFunction
    /\ todo = {}
    /\ seenNodes = {}
    /\ answers = {}
    /\ events = 0

-----------------------------------------------------------------------------
(* Users.  A write to a row the iteration has locked waits for it to end.  *)

\* Unique index on (path, target).
CreateConfig(c, b) ==
    /\ Tick
    /\ c \notin born
    /\ \A d \in Config : conf[d] # NoRow =>
           <<PathOf[d], TargetOf[d]>> # <<PathOf[c], TargetOf[c]>>
    /\ conf' = [conf EXCEPT ![c] = [body |-> b, status |-> "NEW"]]
    /\ born' = born \union {c}
    /\ UNCHANGED <<life, store, agents, iter>>

\* A write by a user moves updated_at away from tracked_at.
Untrack(c) ==
    /\ store' = [store EXCEPT !.tracked = @ \ {c}]
    /\ work' = [work EXCEPT !.tracked = @ \ {c}]

UpdateConfig(c, b) ==
    /\ Tick
    /\ conf[c] # NoRow /\ c \notin Locked
    /\ conf[c] # [body |-> b, status |-> "NEW"]
    /\ conf' = [conf EXCEPT ![c] = [body |-> b, status |-> "NEW"]]
    /\ Untrack(c)
    /\ UNCHANGED <<born, life, agents, pass, written, batch, todo, seenNodes, answers>>

DeleteConfig(c) ==
    /\ Tick
    /\ conf[c] # NoRow /\ c \notin Locked
    /\ conf' = [conf EXCEPT ![c] = NoRow]
    /\ Untrack(c)
    /\ UNCHANGED <<born, life, agents, pass, written, batch, todo, seenNodes, answers>>

\* Nodes of a set are made one by one; a deleted node keeps its configs.
CreateNode(n) ==
    /\ Tick
    /\ life[n] = "none"
    /\ life' = [life EXCEPT ![n] = "live"]
    /\ UNCHANGED <<conf, born, store, agents, iter>>

DeleteNode(n) ==
    /\ Tick
    /\ life[n] = "live"
    /\ life' = [life EXCEPT ![n] = "gone"]
    /\ UNCHANGED <<conf, born, store, agents, iter>>

-----------------------------------------------------------------------------
(* The service.                                                            *)

NewConfigs == {c \in Config : conf[c] # NoRow /\ c \notin store.res}

Begin ==
    /\ pass = "idle"
    /\ pass' = "new"
    /\ work' = store
    /\ todo' = NewConfigs
    /\ batch' = [c \in NewConfigs |-> conf[c]]
    /\ seenNodes' = Live
    /\ UNCHANGED <<conf, born, life, store, agents, written, answers, events>>

\* Nodes of the target, now, among those the pass read.
Available(c) == Targets(c) \intersect seenNodes

InBatch(c) == c \in todo /\ todo' = todo \ {c}

RenderFor(c, n) ==
    [node |-> n, path |-> PathOf[c], master |-> c, body |-> batch[c].body,
     status |-> "IN_PROGRESS", full |-> NoReport]

\* The uuid of a render is uuid5(node, path), whatever config it belongs to.
Clash(c) == \E r \in work.rend : r.node \in Available(c) /\ r.path = PathOf[c]

\* _actualize_new_config of a config without owners.
DropOwnerless(c) ==
    /\ Targets(c) = {}
    /\ Write(c, NoRow)
    /\ UNCHANGED <<pass, work>>

\* Nodes that appeared after the pass read them: wait.
WaitForNodes(c) ==
    /\ Targets(c) # {}
    /\ Available(c) = {}
    /\ UNCHANGED <<pass, work, written>>

Renderable(c) == batch[c].body \notin Template

\* _actualize_new_config inserts the resource first, then render() of a
\* template raises and the loop goes on with the next config.
FailRender(c) ==
    /\ Available(c) # {}
    /\ ~Renderable(c)
    /\ work' = [work EXCEPT
           !.res = @ \union {c},
           !.tracked = IF RowOf(c) = batch[c] THEN @ \union {c} ELSE @]
    /\ UNCHANGED <<pass, written>>

FailInsert(c) ==
    /\ Clash(c) /\ Renderable(c)
    /\ pass' = "aborted"
    /\ UNCHANGED <<work, written>>

\* config.save() writes the whole row read, if its status changes; a row the
\* user deleted meanwhile is not found and only the resources remain.
InsertRenders(c) ==
    LET saved == RowOf(c) # NoRow /\ batch[c].status # "IN_PROGRESS"
        tracks == saved \/ RowOf(c) = batch[c]
    IN /\ Available(c) # {}
       /\ Renderable(c) /\ ~Clash(c)
       /\ work' = [res |-> work.res \union {c},
                   tracked |-> IF tracks THEN work.tracked \union {c} ELSE work.tracked,
                   rend |-> work.rend \union {RenderFor(c, n) : n \in Available(c)}]
       /\ IF saved
          THEN Write(c, [batch[c] EXCEPT !.status = "IN_PROGRESS"])
          ELSE UNCHANGED written
       /\ UNCHANGED pass

\* One turn of the loop of _actualize_new_configs.
ActualizeNew(c) ==
    /\ pass \in {"new", "changed"}
    /\ InBatch(c)
    /\ \/ DropOwnerless(c) \/ WaitForNodes(c)
       \/ FailRender(c) \/ FailInsert(c) \/ InsertRenders(c)
    /\ UNCHANGED <<conf, born, life, store, agents, batch, seenNodes, answers, events>>

ChangedConfigs == {c \in work.res \ work.tracked : RowOf(c) # NoRow}

\* Mutant of Without: the renders stay.
WithoutResources(tables, cs) ==
    [tables EXCEPT !.res = @ \ cs, !.tracked = @ \ cs]

\* A config resource is deleted together with the renders it is master of.
Without(tables, cs) ==
    [res |-> tables.res \ cs, tracked |-> tables.tracked \ cs,
     rend |-> {r \in tables.rend : r.master \notin cs}]

\* _actualize_changed_configs: "Update through recreation".
ReadChanged ==
    /\ pass = "new" /\ todo = {}
    /\ pass' = "changed"
    /\ work' = Without(work, ChangedConfigs)
    /\ todo' = ChangedConfigs
    /\ batch' = [c \in ChangedConfigs |-> RowOf(c)]
    /\ seenNodes' = Live
    /\ UNCHANGED <<conf, born, life, store, agents, written, answers, events>>

ReportOf(r) == act[r.node, r.path]

\* Mutant of OutdatedRenders: renders whose report is gone are found too.
OutdatedOrLost ==
    {r \in work.rend : ReportOf(r) # r.full}

OutdatedRenders ==
    {r \in work.rend : ReportOf(r) \notin {NoReport, r.full}}
Masters(as) == {a.render.master : a \in as}

ReadOutdated ==
    LET found == {[render |-> r, report |-> ReportOf(r)] : r \in OutdatedRenders}
        rows == {c \in Masters(found) : RowOf(c) # NoRow}
    IN /\ pass = "changed" /\ todo = {}
       /\ pass' = "outdated"
       /\ answers' = found
       /\ todo' = rows
       /\ batch' = [c \in rows |-> RowOf(c)]
       /\ UNCHANGED <<conf, born, life, store, agents, work, written, seenNodes, events>>

\* zip(configs, resources): the resource of the same rank, not of the same
\* uuid, when the row of another config is gone.
PairedWith(c) ==
    LET rank(S, x) == Cardinality({y \in S : y < x})
        resources == Masters(answers) \intersect work.res
    IN {q \in resources : rank(resources, q) = rank(DOMAIN batch, c)}

\* Mutant of NewStatus: the hashes are not compared.
NewStatusUnchecked(a) == a.report.status

\* `ACTIVE` only if the hash is the same.
NewStatus(a) ==
    IF a.report.status # "ACTIVE" \/ a.report.body = a.render.body
    THEN a.report.status
    ELSE a.render.status

Updated(a) == [a.render EXCEPT !.full = a.report, !.status = NewStatus(a)]

\* Status of a config from those of its answered renders, if they tell one.
Verdict(c, renders) ==
    LET statuses == {r.status : r \in renders}
    IN IF statuses = {"ACTIVE"} THEN "ACTIVE"
       ELSE IF "NEW" \in statuses THEN "NEW"
       ELSE IF "IN_PROGRESS" \in statuses THEN "IN_PROGRESS"
       ELSE batch[c].status

ActualizeOutdated(c) ==
    LET mine == {a \in answers : a.render.master = c}
        renders == {Updated(a) : a \in mine}
        saved == Verdict(c, renders) # batch[c].status /\ RowOf(c) # NoRow
        touched == PairedWith(c) \union {c}
    IN /\ pass = "outdated"
       /\ InBatch(c)
       /\ work' = [work EXCEPT
              !.rend = (@ \ {a.render : a \in mine}) \union renders,
              !.tracked = IF saved
                          THEN (@ \ touched) \union (PairedWith(c) \intersect {c})
                          ELSE @]
       /\ IF saved
          THEN Write(c, [batch[c] EXCEPT !.status = Verdict(c, renders)])
          ELSE UNCHANGED written
       /\ UNCHANGED <<conf, born, life, store, agents, pass, batch, seenNodes, answers, events>>

\* Mutant of ReadDeleted: only configs the service keeps track of.
ReadDeletedTracked ==
    /\ pass = "outdated" /\ todo = {}
    /\ pass' = "commit"
    /\ work' = Without(work, {c \in work.tracked : RowOf(c) = NoRow})
    /\ UNCHANGED <<conf, born, life, store, agents, written, batch, todo, seenNodes, answers, events>>

ReadDeleted ==
    /\ pass = "outdated" /\ todo = {}
    /\ pass' = "commit"
    /\ work' = Without(work, {c \in work.res : RowOf(c) = NoRow})
    /\ UNCHANGED <<conf, born, life, store, agents, written, batch, todo, seenNodes, answers, events>>

EndIteration ==
    /\ pass' = "idle"
    /\ work' = NoTables
    /\ written' = EmptyFunction
    /\ batch' = EmptyFunction
    /\ todo' = {}
    /\ seenNodes' = {}
    /\ answers' = {}

Commit ==
    /\ pass = "commit"
    /\ store' = work
    /\ conf' = [c \in Config |-> RowOf(c)]
    /\ EndIteration
    /\ UNCHANGED <<born, life, agents, events>>

\* The commit of a transaction in which a statement failed.
Rollback ==
    /\ pass = "aborted"
    /\ EndIteration
    /\ UNCHANGED <<conf, born, life, store, agents, events>>

Crash ==
    /\ Tick
    /\ pass # "idle"
    /\ EndIteration
    /\ UNCHANGED <<conf, born, life, store, agents>>

-----------------------------------------------------------------------------
(* Agents.                                                                 *)

RenderAt(np) == {r \in store.rend : <<r.node, r.path>> = np}

\* The agent makes the file what the render says, or removes it.
Apply(np) ==
    /\ life[np[1]] = "live"
    /\ disk' = [disk EXCEPT ![np] =
           IF RenderAt(np) = {} THEN NoBody ELSE (CHOOSE r \in RenderAt(np) : TRUE).body]
    /\ disk' # disk
    /\ UNCHANGED <<conf, born, life, store, act, answered, iter, events>>

\* It reports the file it finds.
ReportDisk(np) ==
    /\ life[np[1]] = "live"
    /\ act' = [act EXCEPT ![np] =
           IF disk[np] = NoBody THEN NoReport
           ELSE [body |-> disk[np], status |-> "ACTIVE"]]
    /\ act' # act
    /\ answered' = IF disk[np] = NoBody THEN answered
                   ELSE answered \union {<<np[1], np[2], disk[np]>>}
    /\ UNCHANGED <<conf, born, life, store, disk, iter, events>>

\* It reports that the file is not as it should be yet.
ReportTrouble(np, s) ==
    /\ Tick
    /\ life[np[1]] = "live"
    /\ RenderAt(np) # {}
    /\ act' = [act EXCEPT ![np] = [body |-> disk[np], status |-> s]]
    /\ UNCHANGED <<conf, born, life, store, disk, answered, iter>>

User ==
    \/ \E c \in Config, b \in Body : CreateConfig(c, b) \/ UpdateConfig(c, b)
    \/ \E c \in Config : DeleteConfig(c)
    \/ \E n \in Node : CreateNode(n) \/ DeleteNode(n)

Service ==
    \/ Begin \/ ReadChanged \/ ReadOutdated \/ ReadDeleted \/ Commit \/ Rollback
    \/ \E c \in Config : ActualizeNew(c) \/ ActualizeOutdated(c)

Agents == \E np \in Node \X Path : Apply(np) \/ ReportDisk(np)

Next ==
    \/ User
    \/ Service
    \/ Agents
    \/ Crash
    \/ \E np \in Node \X Path, s \in Status \ {"ACTIVE"} : ReportTrouble(np, s)

Spec == Init /\ [][Next]_vars

\* The looper runs the service for ever, every agent its own loop.
FairSpec ==
    /\ Spec
    /\ WF_vars(Service)
    /\ \A np \in Node \X Path : WF_vars(Apply(np)) /\ WF_vars(ReportDisk(np))

-----------------------------------------------------------------------------
(* Properties.                                                             *)

\* A render in the tables always has the resource of its config beside it:
\* recreating a config, deleting it, losing its row in the middle of a pass
\* or rolling back never leaves a file on the nodes that no later pass of
\* _actualize_deleted_configs would find.
RendersHaveMasters == \A r \in store.rend : r.master \in store.res

\* A render shown as ACTIVE was reported ACTIVE by its own node with its own
\* content: a report about the file a former version, or another config,
\* left at the same path never counts (_actualize_outdated_config).
ActiveRenderWasApplied ==
    \A r \in store.rend :
        r.status = "ACTIVE" => <<r.node, r.path, r.body>> \in answered

\* What the service believes delivered is what users asked for: while the
\* tracked_at of a config resource is the updated_at of the row, the renders
\* carry the row's body.
TrackedIsRendered ==
    \A c \in store.tracked :
        conf[c] # NoRow =>
            \A r \in store.rend : r.master = c => r.body = conf[c].body

HasRender(c) == \E r \in store.rend : r.master = c

\* A config that can be rendered for a node.
Deliverable(c) ==
    conf[c] # NoRow /\ conf[c].body \notin Template /\ Targets(c) # {}

\* A config with a node to deliver to gets its renders, unless it is deleted,
\* made a template or loses its nodes.
NewConfigIsRendered ==
    \A c \in Config : Deliverable(c) ~> (HasRender(c) \/ ~Deliverable(c))

\* No render was ever refused because another config has one for its node
\* and path.
NeverClashes == [](pass # "aborted")

\* The same when renders do not clash; and once users leave the system alone,
\* nothing is kept for ever for a config that they deleted, whenever in the
\* iteration they did, the file on every live node is the one of its render,
\* and the render says so.
DeliverySettles ==
    NeverClashes =>
        /\ NewConfigIsRendered
        /\ <>[](\A c \in Config : conf[c] = NoRow => c \notin store.res /\ ~HasRender(c))
        /\ <>[](\A r \in store.rend :
                    life[r.node] = "live" =>
                        disk[r.node, r.path] = r.body /\ r.status = "ACTIVE")
=============================================================================
