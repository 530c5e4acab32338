------------------------ MODULE ConfigDeliveryProofs ------------------------
(***************************************************************************)
(* For any configs, targets, nodes and bodies: the variables keep their    *)
(* types, no render is ever left without the resource of its config, and a *)
(* render is ACTIVE only if its node reported that very content.           *)
(***************************************************************************)
EXTENDS ConfigDelivery, TLAPS

\* A target-resource table stays one when its parts do.
LEMMA TablesFields ==
    ASSUME NEW t \in Tables
    PROVE  /\ t.res \subseteq Config /\ t.tracked \subseteq Config
           /\ t.rend \subseteq Render
           /\ t = [res |-> t.res, tracked |-> t.tracked, rend |-> t.rend]
BY DEF Tables

LEMMA RenderFields ==
    ASSUME NEW r \in Render
    PROVE  /\ r.node \in Node /\ r.path \in Path /\ r.master \in Config
           /\ r.body \in Body /\ r.status \in Status
           /\ r.full \in Report \union {NoReport}
BY DEF Render

LEMMA NoTablesType == NoTables \in Tables
BY DEF NoTables, Tables

\* The row a transaction sees is a row.
LEMMA RowOfType ==
    ASSUME TypeOK, NEW c \in Config
    PROVE  RowOf(c) \in Row \union {NoRow}
BY DEF TypeOK, RowOf, Locked

\* A row it writes keeps the types of its writes.
LEMMA WriteType ==
    ASSUME TypeOK, NEW c \in Config, NEW row \in Row \union {NoRow}, Write(c, row)
    PROVE  Locked' \subseteq Config /\ written' \in [Locked' -> Row \union {NoRow}]
BY DEF TypeOK, Write, Locked

LEMMA BatchRow ==
    ASSUME TypeOK, NEW c \in todo
    PROVE  /\ c \in Config /\ batch[c] \in Row
           /\ batch[c].body \in Body /\ batch[c].status \in Status
           /\ \A s \in Status : [batch[c] EXCEPT !.status = s] \in Row
BY DEF TypeOK, Row

LEMMA WithoutType ==
    ASSUME NEW t \in Tables, NEW cs
    PROVE  Without(t, cs) \in Tables
BY DEF Without, Tables

LEMMA AnswerFields ==
    ASSUME TypeOK, NEW a \in answers
    PROVE  /\ a.render \in Render /\ a.report \in Report
           /\ Updated(a) \in Render
           /\ Updated(a).node = a.render.node /\ Updated(a).path = a.render.path
           /\ Updated(a).master = a.render.master
           /\ Updated(a).body = a.render.body
           /\ Updated(a).status = NewStatus(a)
<1>1. a.render \in Render /\ a.report \in Report
  BY DEF TypeOK
<1>2. NewStatus(a) \in Status
  BY <1>1 DEF NewStatus, Render, Report
<1>. QED
  BY <1>1, <1>2 DEF Updated, Render

LEMMA VerdictType ==
    ASSUME TypeOK, NEW c \in todo, NEW renders
    PROVE  Verdict(c, renders) \in Status
BY BatchRow DEF Verdict, Status

-----------------------------------------------------------------------------
LEMMA InitType == Init => TypeOK
<1>. SUFFICES ASSUME Init PROVE TypeOK
  OBVIOUS
<1>1. events \in 0 .. MaxEvents
  BY ConfigAssumption DEF Init
<1>2. /\ conf \in [Config -> Row \union {NoRow}]
      /\ life \in [Node -> {"none", "live", "gone"}]
      /\ disk \in [Node \X Path -> Body \union {NoBody}]
      /\ act \in [Node \X Path -> Report \union {NoReport}]
  BY DEF Init
<1>3. /\ Locked \subseteq Config /\ written \in [Locked -> Row \union {NoRow}]
      /\ DOMAIN batch \subseteq Config /\ batch \in [DOMAIN batch -> Row]
  BY DEF Init, EmptyFunction, Locked
<1>. QED
  BY <1>1, <1>2, <1>3, NoTablesType DEF Init, TypeOK

LEMMA TickType ==
    ASSUME TypeOK, Tick
    PROVE  events' \in 0 .. MaxEvents
BY ConfigAssumption DEF TypeOK, Tick

LEMMA UntrackType ==
    ASSUME TypeOK, NEW c \in Config, Untrack(c)
    PROVE  /\ store' \in Tables /\ work' \in Tables
           /\ store'.res = store.res /\ store'.rend = store.rend
           /\ work'.res = work.res /\ work'.rend = work.rend
BY DEF TypeOK, Untrack, Tables

LEMMA EndIterationType ==
    ASSUME EndIteration
    PROVE  /\ work' \in Tables
           /\ pass' = "idle"
           /\ Locked' \subseteq Config /\ written' \in [Locked' -> Row \union {NoRow}]
           /\ DOMAIN batch' \subseteq Config /\ batch' \in [DOMAIN batch' -> Row]
           /\ todo' \subseteq DOMAIN batch'
           /\ seenNodes' \subseteq Node
           /\ answers' = {}
BY NoTablesType DEF EndIteration, EmptyFunction, Locked

\* Users keep the types.
LEMMA UserType == TypeOK /\ User => TypeOK'
<1>. SUFFICES ASSUME TypeOK, User PROVE TypeOK'
  OBVIOUS
<1>1. ASSUME NEW c \in Config, NEW b \in Body, CreateConfig(c, b)
      PROVE  TypeOK'
  BY <1>1, TickType DEF CreateConfig, TypeOK, Row, Status, agents, iter, Locked
<1>2. ASSUME NEW c \in Config, NEW b \in Body, UpdateConfig(c, b)
      PROVE  TypeOK'
  BY <1>2, TickType, UntrackType DEF UpdateConfig, TypeOK, Row, Status, agents, Locked
<1>3. ASSUME NEW c \in Config, DeleteConfig(c)
      PROVE  TypeOK'
  BY <1>3, TickType, UntrackType DEF DeleteConfig, TypeOK, agents, Locked
<1>4. ASSUME NEW n \in Node, CreateNode(n)
      PROVE  TypeOK'
  BY <1>4, TickType DEF CreateNode, TypeOK, agents, iter, Locked
<1>5. ASSUME NEW n \in Node, DeleteNode(n)
      PROVE  TypeOK'
  BY <1>5, TickType DEF DeleteNode, TypeOK, agents, iter, Locked
<1>. QED
  BY <1>1, <1>2, <1>3, <1>4, <1>5 DEF User

\* The loop of _actualize_new_configs keeps the types.
LEMMA ActualizeNewType ==
    ASSUME TypeOK, NEW c \in Config, ActualizeNew(c)
    PROVE  TypeOK'
<1>1. /\ c \in todo /\ todo' \subseteq todo
      /\ UNCHANGED <<conf, born, life, store, agents, batch, seenNodes, answers, events>>
  BY DEF ActualizeNew, InBatch
<1>2. /\ pass' \in {"idle", "new", "changed", "outdated", "commit", "aborted"}
      /\ work' \in Tables
      /\ Locked' \subseteq Config /\ written' \in [Locked' -> Row \union {NoRow}]
  <2>1. CASE DropOwnerless(c)
    BY <2>1, WriteType DEF DropOwnerless, ActualizeNew, TypeOK
  <2>2. CASE WaitForNodes(c)
    BY <2>2 DEF WaitForNodes, ActualizeNew, TypeOK, Locked
  <2>3. CASE FailInsert(c)
    BY <2>3 DEF FailInsert, ActualizeNew, TypeOK, Locked
  <2>5. CASE FailRender(c)
    <3>1. work' \in Tables
      BY <2>5, TablesFields DEF FailRender, Tables, TypeOK
    <3>. QED
      BY <2>5, <3>1 DEF FailRender, TypeOK, Locked
  <2>4. CASE InsertRenders(c)
    <3>1. {RenderFor(c, n) : n \in Available(c)} \subseteq Render
      <4>. SUFFICES ASSUME NEW n \in Available(c) PROVE RenderFor(c, n) \in Render
        OBVIOUS
      <4>1. n \in Node
        BY DEF Available, TypeOK
      <4>2. PathOf[c] \in Path
        BY ConfigAssumption
      <4>. QED
        BY <1>1, <4>1, <4>2, BatchRow DEF RenderFor, Render, Status
    <3>2. work' \in Tables
      BY <2>4, <3>1, TablesFields DEF InsertRenders, Tables, TypeOK
    <3>3. [batch[c] EXCEPT !.status = "IN_PROGRESS"] \in Row
      BY <1>1, BatchRow DEF Status
    <3>4. Locked' \subseteq Config /\ written' \in [Locked' -> Row \union {NoRow}]
      BY <2>4, <3>3, WriteType DEF InsertRenders, TypeOK, Locked
    <3>. QED
      BY <2>4, <3>2, <3>4 DEF InsertRenders, TypeOK
  <2>. QED
    BY <2>1, <2>2, <2>3, <2>4, <2>5 DEF ActualizeNew
<1>. QED
  BY <1>1, <1>2 DEF TypeOK, agents

LEMMA ReadChangedType == TypeOK /\ ReadChanged => TypeOK'
<1>. SUFFICES ASSUME TypeOK, ReadChanged PROVE TypeOK'
  OBVIOUS
<1>1. ChangedConfigs \subseteq Config
  BY DEF ChangedConfigs, TypeOK, Tables
<1>2. batch' \in [ChangedConfigs -> Row]
  BY <1>1, RowOfType DEF ReadChanged, ChangedConfigs
<1>3. work' \in Tables
  BY WithoutType DEF ReadChanged, TypeOK
<1>4. seenNodes' \subseteq Node
  BY DEF ReadChanged, Live
<1>5. pass' = "changed" /\ todo' = ChangedConfigs
  BY DEF ReadChanged
<1>6. UNCHANGED <<conf, born, life, store, agents, written, answers, events>>
  BY DEF ReadChanged
<1>. QED
  BY <1>1, <1>2, <1>3, <1>4, <1>5, <1>6 DEF TypeOK, agents, Locked

LEMMA ReportOfType ==
    ASSUME TypeOK, NEW r \in Render
    PROVE  ReportOf(r) \in Report \union {NoReport}
<1>1. <<r.node, r.path>> \in Node \X Path
  BY RenderFields
<1>. QED
  BY <1>1 DEF ReportOf, TypeOK

LEMMA ReadOutdatedType == TypeOK /\ ReadOutdated => TypeOK'
<1>. SUFFICES ASSUME TypeOK, ReadOutdated PROVE TypeOK'
  OBVIOUS
<1>1. answers' \subseteq [render : Render, report : Report]
  <2>1. \A r \in OutdatedRenders : r \in Render /\ ReportOf(r) \in Report
    <3>. TAKE r \in OutdatedRenders
    <3>1. r \in Render /\ ReportOf(r) # NoReport
      BY DEF OutdatedRenders, TypeOK, Tables
    <3>. QED
      BY <3>1, ReportOfType
  <2>. QED
    BY <2>1 DEF ReadOutdated
<1>2. \A c \in Masters(answers') : c \in Config
  BY <1>1, RenderFields DEF Masters
<1>3. PICK rows \in SUBSET Config :
          /\ rows = {c \in Masters(answers') : RowOf(c) # NoRow}
          /\ todo' = rows /\ batch' = [c \in rows |-> RowOf(c)]
  BY <1>2 DEF ReadOutdated
<1>4. batch' \in [rows -> Row]
  BY <1>3, RowOfType
<1>5. pass' = "outdated"
  BY DEF ReadOutdated
<1>6. UNCHANGED <<conf, born, life, store, agents, work, written, seenNodes, events>>
  BY DEF ReadOutdated
<1>. QED
  BY <1>1, <1>3, <1>4, <1>5, <1>6 DEF TypeOK, agents, Locked

\* What a turn of _actualize_outdated_config does to the tables.
LEMMA ActualizeOutdatedTables ==
    ASSUME TypeOK, NEW c \in Config, ActualizeOutdated(c)
    PROVE  /\ work' \in Tables
           /\ work'.res = work.res
           /\ work'.rend = (work.rend \ {a.render : a \in {b \in answers : b.render.master = c}})
                               \union {Updated(a) : a \in {b \in answers : b.render.master = c}}
<1>. DEFINE mine == {b \in answers : b.render.master = c}
            rend == (work.rend \ {a.render : a \in mine}) \union {Updated(a) : a \in mine}
            saved == Verdict(c, {Updated(a) : a \in mine}) # batch[c].status /\ RowOf(c) # NoRow
            touched == PairedWith(c) \union {c}
            tracked == IF saved
                       THEN (work.tracked \ touched) \union (PairedWith(c) \intersect {c})
                       ELSE work.tracked
<1>1. work' = [work EXCEPT !.rend = rend, !.tracked = tracked]
  BY DEF ActualizeOutdated
<1>2. work \in Tables
  BY DEF TypeOK
<1>3. rend \subseteq Render
  BY <1>2, TablesFields, AnswerFields
<1>4. tracked \subseteq Config
  BY <1>2, TablesFields
<1>. HIDE DEF rend, tracked
<1>5. work' = [res |-> work.res, tracked |-> tracked, rend |-> rend]
  BY <1>1, <1>2 DEF Tables
<1>6. work' \in Tables
  BY <1>2, <1>3, <1>4, <1>5 DEF Tables
<1>7. work'.res = work.res /\ work'.rend = rend
  BY <1>5
<1>. QED
  BY <1>6, <1>7 DEF rend

LEMMA ActualizeOutdatedType ==
    ASSUME TypeOK, NEW c \in Config, ActualizeOutdated(c)
    PROVE  TypeOK'
<1>1. /\ c \in todo /\ todo' \subseteq todo
      /\ UNCHANGED <<conf, born, life, store, agents, pass, batch, seenNodes, answers, events>>
  BY DEF ActualizeOutdated, InBatch
<1>2. work' \in Tables
  BY ActualizeOutdatedTables
<1>3. Locked' \subseteq Config /\ written' \in [Locked' -> Row \union {NoRow}]
  <2>1. CASE UNCHANGED written
    BY <2>1 DEF TypeOK, Locked
  <2>2. CASE \E s \in Status : Write(c, [batch[c] EXCEPT !.status = s])
    BY <1>1, <2>2, BatchRow, WriteType
  <2>. QED
    BY <1>1, <2>1, <2>2, VerdictType DEF ActualizeOutdated
<1>. QED
  BY <1>1, <1>2, <1>3 DEF TypeOK, agents

\* The service keeps the types.
LEMMA ServiceType == TypeOK /\ (Service \/ Crash) => TypeOK'
<1>. SUFFICES ASSUME TypeOK, Service \/ Crash PROVE TypeOK'
  OBVIOUS
<1>1. CASE Begin
  <2>1. NewConfigs \subseteq Config /\ \A c \in NewConfigs : conf[c] \in Row
    BY DEF NewConfigs, TypeOK
  <2>2. seenNodes' \subseteq Node
    BY <1>1 DEF Begin, Live
  <2>3. batch' \in [NewConfigs -> Row] /\ todo' = NewConfigs
    BY <1>1, <2>1 DEF Begin
  <2>. QED
    BY <1>1, <2>1, <2>2, <2>3 DEF Begin, TypeOK, agents, Locked
<1>2. CASE ReadDeleted
  BY <1>2, WithoutType DEF ReadDeleted, TypeOK, agents, Locked
<1>3. CASE Commit
  <2>1. conf' \in [Config -> Row \union {NoRow}]
    BY <1>3, RowOfType DEF Commit
  <2>. QED
    BY <1>3, <2>1, EndIterationType DEF Commit, TypeOK, agents
<1>4. CASE Rollback
  BY <1>4, EndIterationType DEF Rollback, TypeOK, agents
<1>5. CASE Crash
  BY <1>5, EndIterationType, TickType DEF Crash, TypeOK, agents
<1>. QED
  BY <1>1, <1>2, <1>3, <1>4, <1>5, ReadChangedType, ReadOutdatedType,
     ActualizeNewType, ActualizeOutdatedType DEF Service

\* Agents keep the types.
LEMMA AgentsType ==
    ASSUME TypeOK, NEW np \in Node \X Path,
           \/ Apply(np) \/ ReportDisk(np)
           \/ \E s \in Status \ {"ACTIVE"} : ReportTrouble(np, s)
    PROVE  TypeOK'
<1>0. disk[np] \in Body \union {NoBody} /\ np[1] \in Node /\ np[2] \in Path
  BY DEF TypeOK
<1>1. CASE Apply(np)
  <2>1. \A r \in RenderAt(np) : r.body \in Body
    BY RenderFields, TablesFields DEF RenderAt, TypeOK
  <2>2. (IF RenderAt(np) = {} THEN NoBody ELSE (CHOOSE r \in RenderAt(np) : TRUE).body)
            \in Body \union {NoBody}
    BY <2>1
  <2>3. disk' \in [Node \X Path -> Body \union {NoBody}]
    BY <1>1, <2>2 DEF Apply, TypeOK
  <2>. QED
    BY <1>1, <2>3 DEF Apply, TypeOK, iter, Locked
<1>2. CASE ReportDisk(np)
  <2>1. [body |-> disk[np], status |-> "ACTIVE"] \in Report
    BY <1>0 DEF Report, Status
  <2>2. act' \in [Node \X Path -> Report \union {NoReport}]
    BY <1>2, <2>1 DEF ReportDisk, TypeOK
  <2>3. answered' \subseteq Node \X Path \X Body
    BY <1>0, <1>2 DEF ReportDisk, TypeOK
  <2>. QED
    BY <1>2, <2>2, <2>3 DEF ReportDisk, TypeOK, iter, Locked
<1>3. ASSUME NEW s \in Status \ {"ACTIVE"}, ReportTrouble(np, s)
      PROVE  TypeOK'
  <2>1. [body |-> disk[np], status |-> s] \in Report
    BY <1>0 DEF Report
  <2>2. act' \in [Node \X Path -> Report \union {NoReport}]
    BY <1>3, <2>1 DEF ReportTrouble, TypeOK
  <2>. QED
    BY <1>3, <2>2, TickType DEF ReportTrouble, TypeOK, iter, Locked
<1>. QED
  BY <1>1, <1>2, <1>3

LEMMA StepType == TypeOK /\ [Next]_vars => TypeOK'
<1>. SUFFICES ASSUME TypeOK, [Next]_vars PROVE TypeOK'
  OBVIOUS
<1>1. CASE UNCHANGED vars
  BY <1>1 DEF vars, iter, agents, TypeOK, Locked
<1>. QED
  BY <1>1, UserType, ServiceType, AgentsType DEF Next, Agents

\* Every variable keeps its type, for any configs, targets and nodes.
THEOREM ConfigTypes == Spec => []TypeOK
BY InitType, StepType, PTL DEF Spec

-----------------------------------------------------------------------------
(* No render without the resource of its config.  The tables of the        *)
(* transaction must have it too, and so must the renders the outdated pass *)
(* is about to write back.                                                 *)

HaveMasters(t) == \A r \in t.rend : r.master \in t.res

MastersInv ==
    /\ TypeOK
    /\ HaveMasters(store)
    /\ HaveMasters(work)
    /\ pass = "outdated" => \A a \in answers : a.render.master \in work.res

LEMMA WithoutHasMasters ==
    ASSUME NEW t, HaveMasters(t), NEW cs
    PROVE  HaveMasters(Without(t, cs))
BY DEF HaveMasters, Without

LEMMA NoTablesHaveMasters == HaveMasters(NoTables)
BY DEF HaveMasters, NoTables

LEMMA InitMasters == Init => MastersInv
BY InitType, NoTablesHaveMasters DEF Init, MastersInv

LEMMA StepMasters == MastersInv /\ [Next]_vars => MastersInv'
<1>. SUFFICES ASSUME MastersInv, [Next]_vars PROVE MastersInv'
  OBVIOUS
<1>. USE DEF MastersInv
<1>1. TypeOK /\ TypeOK'
  BY StepType
<1>. SUFFICES /\ HaveMasters(store')
              /\ HaveMasters(work')
              /\ pass' = "outdated" => \A a \in answers' : a.render.master \in work'.res
  BY <1>1 DEF HaveMasters
<1>2. ASSUME UNCHANGED <<store, work, pass, answers>>
      PROVE  /\ HaveMasters(store')
             /\ HaveMasters(work')
             /\ pass' = "outdated" => \A a \in answers' : a.render.master \in work'.res
  BY <1>2
<1>3. CASE UNCHANGED vars \/ (\E np \in Node \X Path :
               Apply(np) \/ ReportDisk(np) \/ \E s \in Status \ {"ACTIVE"} : ReportTrouble(np, s))
  BY <1>2, <1>3 DEF vars, iter, Apply, ReportDisk, ReportTrouble
<1>4. CASE User
  <2>1. ASSUME NEW c \in Config, Untrack(c), UNCHANGED <<pass, answers>>
        PROVE  /\ HaveMasters(store')
               /\ HaveMasters(work')
               /\ pass' = "outdated" => \A a \in answers' : a.render.master \in work'.res
    BY <1>1, <2>1, UntrackType DEF HaveMasters
  <2>. QED
    BY <1>2, <1>4, <2>1 DEF User, CreateConfig, UpdateConfig, DeleteConfig,
       CreateNode, DeleteNode, iter
<1>5. CASE Begin
  BY <1>5 DEF Begin
<1>6. CASE \E c \in Config : ActualizeNew(c)
  <2>1. PICK c \in Config : ActualizeNew(c)
    BY <1>6
  <2>2. HaveMasters(work')
    <3>1. CASE InsertRenders(c)
      BY <3>1 DEF InsertRenders, RenderFor, HaveMasters
    <3>2. CASE UNCHANGED work
      BY <3>2
    <3>3. CASE FailRender(c)
      BY <3>3 DEF FailRender, HaveMasters, TypeOK, Tables
    <3>. QED
      BY <2>1, <3>1, <3>2, <3>3 DEF ActualizeNew, DropOwnerless, WaitForNodes, FailInsert
  <2>3. pass' # "outdated" /\ store' = store
    BY <2>1 DEF ActualizeNew, DropOwnerless, WaitForNodes, FailRender, FailInsert,
       InsertRenders
  <2>. QED
    BY <2>2, <2>3
<1>7. CASE ReadChanged
  BY <1>7, WithoutHasMasters DEF ReadChanged
<1>8. CASE ReadOutdated
  BY <1>8 DEF ReadOutdated, OutdatedRenders, HaveMasters
<1>9. CASE \E c \in Config : ActualizeOutdated(c)
  <2>1. PICK c \in Config : ActualizeOutdated(c)
    BY <1>9
  <2>2. UNCHANGED <<store, pass, answers>> /\ pass = "outdated"
    BY <2>1 DEF ActualizeOutdated
  <2>3. work'.res = work.res
    BY <1>1, <2>1, ActualizeOutdatedTables
  <2>4. ASSUME NEW r \in work'.rend
        PROVE  r.master \in work.res
    <3>1. r \in work.rend \/ \E a \in answers : r = Updated(a)
      BY <1>1, <2>1, ActualizeOutdatedTables
    <3>2. \A a \in answers : Updated(a).master \in work.res
      BY <1>1, <2>2, AnswerFields
    <3>. QED
      BY <3>1, <3>2 DEF HaveMasters
  <2>. QED
    BY <2>2, <2>3, <2>4 DEF HaveMasters
<1>10. CASE ReadDeleted
  BY <1>10, WithoutHasMasters DEF ReadDeleted
<1>11. CASE Commit \/ Rollback \/ Crash
  BY <1>11, NoTablesHaveMasters DEF Commit, Rollback, Crash, EndIteration
<1>. QED
  BY <1>3, <1>4, <1>5, <1>6, <1>7, <1>8, <1>9, <1>10, <1>11 DEF Next, Service, Agents

\* Whatever users, crashes and rollbacks do, every render on a node belongs
\* to a config resource, so that the pass over deleted configs finds it.
THEOREM NoStrayRender == Spec => []RendersHaveMasters
<1>1. MastersInv => RendersHaveMasters
  BY DEF MastersInv, HaveMasters, RendersHaveMasters
<1>. QED
  BY <1>1, InitMasters, StepMasters, PTL DEF Spec

-----------------------------------------------------------------------------
(* ACTIVE means applied.  The report a render is compared with was read in *)
(* an earlier step than the one that writes the status back, so the        *)
(* invariant follows reports from the agent through `act` and `answers`.   *)

Claims(node, path, status, body) == status = "ACTIVE" => <<node, path, body>> \in answered

Truthful(t) == \A r \in t.rend : Claims(r.node, r.path, r.status, r.body)

AppliedInv ==
    /\ TypeOK
    /\ Truthful(store)
    /\ Truthful(work)
    /\ \A n \in Node, p \in Path :
           act[<<n, p>>] # NoReport => Claims(n, p, act[<<n, p>>].status, act[<<n, p>>].body)
    /\ \A a \in answers :
           /\ Claims(a.render.node, a.render.path, a.render.status, a.render.body)
           /\ Claims(a.render.node, a.render.path, a.report.status, a.report.body)

LEMMA NoTablesTruthful == Truthful(NoTables)
BY DEF Truthful, NoTables

LEMMA InitApplied == Init => AppliedInv
BY InitType, NoTablesTruthful DEF Init, AppliedInv

\* A status the outdated pass writes is one the agent vouched for.
LEMMA UpdatedIsTruthful ==
    ASSUME AppliedInv, NEW a \in answers
    PROVE  Claims(Updated(a).node, Updated(a).path, Updated(a).status, Updated(a).body)
BY AnswerFields DEF AppliedInv, NewStatus, Claims

\* Steps that touch neither the reports nor what was answered.
LEMMA ServiceApplied == AppliedInv /\ (Service \/ User \/ Crash) => AppliedInv'
<1>. SUFFICES ASSUME AppliedInv, Service \/ User \/ Crash PROVE AppliedInv'
  OBVIOUS
<1>. USE DEF AppliedInv
<1>1. TypeOK /\ TypeOK'
  BY StepType DEF Next
<1>2. answered' = answered /\ act' = act
  BY DEF Service, User, Crash, Begin, ActualizeNew, ReadChanged, ReadOutdated,
     ActualizeOutdated, ReadDeleted, Commit, Rollback, CreateConfig, UpdateConfig,
     DeleteConfig, CreateNode, DeleteNode, agents
<1>. SUFFICES /\ Truthful(store')
              /\ Truthful(work')
              /\ \A a \in answers' :
                   /\ Claims(a.render.node, a.render.path, a.render.status, a.render.body)
                   /\ Claims(a.render.node, a.render.path, a.report.status, a.report.body)
  BY <1>1, <1>2 DEF Truthful, Claims
<1>3. CASE User
  <2>1. store'.rend = store.rend /\ work'.rend = work.rend /\ answers' = answers
    BY <1>1, <1>3, UntrackType DEF User, CreateConfig, UpdateConfig, DeleteConfig,
       CreateNode, DeleteNode, iter
  <2>. QED
    BY <2>1 DEF Truthful
<1>4. CASE Begin
  BY <1>4 DEF Begin
<1>5. CASE \E c \in Config : ActualizeNew(c)
  <2>1. PICK c \in Config : ActualizeNew(c)
    BY <1>5
  <2>2. Truthful(work')
    <3>1. CASE InsertRenders(c)
      BY <3>1 DEF InsertRenders, RenderFor, Truthful, Claims
    <3>2. CASE UNCHANGED work
      BY <3>2
    <3>3. CASE FailRender(c)
      BY <3>3 DEF FailRender, Truthful, TypeOK, Tables
    <3>. QED
      BY <2>1, <3>1, <3>2, <3>3 DEF ActualizeNew, DropOwnerless, WaitForNodes, FailInsert
  <2>. QED
    BY <2>1, <2>2 DEF ActualizeNew
<1>6. CASE ReadChanged \/ ReadDeleted
  BY <1>6 DEF ReadChanged, ReadDeleted, Without, Truthful
<1>7. CASE ReadOutdated
  <2>1. \A r \in OutdatedRenders :
            /\ Claims(r.node, r.path, r.status, r.body)
            /\ Claims(r.node, r.path, ReportOf(r).status, ReportOf(r).body)
    <3>. TAKE r \in OutdatedRenders
    <3>1. r \in work.rend /\ r \in Render /\ ReportOf(r) # NoReport
      BY <1>1 DEF OutdatedRenders, TypeOK, Tables
    <3>2. r.node \in Node /\ r.path \in Path
      BY <3>1, RenderFields
    <3>3. ReportOf(r) = act[<<r.node, r.path>>]
      BY DEF ReportOf
    <3>. QED
      BY <3>1, <3>2, <3>3 DEF Truthful
  <2>2. \A a \in answers' : \E r \in OutdatedRenders :
            a.render = r /\ a.report = ReportOf(r)
    BY <1>7 DEF ReadOutdated
  <2>3. UNCHANGED <<store, work>>
    BY <1>7 DEF ReadOutdated
  <2>. QED
    BY <2>1, <2>2, <2>3
<1>8. CASE \E c \in Config : ActualizeOutdated(c)
  <2>1. PICK c \in Config : ActualizeOutdated(c)
    BY <1>8
  <2>2. \A r \in work'.rend : r \in work.rend \/ \E a \in answers : r = Updated(a)
    BY <1>1, <2>1, ActualizeOutdatedTables
  <2>3. Truthful(work')
    BY <2>2, UpdatedIsTruthful DEF Truthful
  <2>4. UNCHANGED <<store, answers>>
    BY <2>1 DEF ActualizeOutdated
  <2>. QED
    BY <2>3, <2>4
<1>9. CASE Commit \/ Rollback \/ Crash
  BY <1>9, NoTablesTruthful DEF Commit, Rollback, Crash, EndIteration
<1>. QED
  BY <1>3, <1>4, <1>5, <1>6, <1>7, <1>8, <1>9 DEF Service

\* A report goes on record before anyone can read it.
LEMMA AgentsApplied ==
    ASSUME AppliedInv, NEW np \in Node \X Path,
           \/ Apply(np) \/ ReportDisk(np)
           \/ \E s \in Status \ {"ACTIVE"} : ReportTrouble(np, s)
    PROVE  AppliedInv'
<1>. USE DEF AppliedInv
<1>1. TypeOK /\ TypeOK'
  BY AgentsType
<1>2. answered \subseteq answered' /\ UNCHANGED <<store, work, answers>>
  BY DEF Apply, ReportDisk, ReportTrouble, iter
<1>3. ASSUME NEW n \in Node, NEW p \in Path, act'[<<n, p>>] # NoReport,
             act'[<<n, p>>].status = "ACTIVE"
      PROVE  <<n, p, act'[<<n, p>>].body>> \in answered'
  <2>1. CASE act'[<<n, p>>] = act[<<n, p>>]
    BY <1>2, <1>3, <2>1 DEF Claims
  <2>2. CASE act'[<<n, p>>] # act[<<n, p>>]
    <3>1. ~Apply(np) /\ np = <<n, p>>
      BY <1>1, <2>2 DEF Apply, ReportDisk, ReportTrouble, TypeOK
    <3>2. CASE ReportDisk(np)
      BY <1>1, <1>3, <3>1, <3>2 DEF ReportDisk, TypeOK
    <3>3. CASE \E s \in Status \ {"ACTIVE"} : ReportTrouble(np, s)
      BY <1>1, <1>3, <3>1, <3>3 DEF ReportTrouble, TypeOK
    <3>. QED
      BY <3>1, <3>2, <3>3
  <2>. QED
    BY <2>1, <2>2
<1>. QED
  BY <1>1, <1>2, <1>3 DEF Truthful, Claims

LEMMA StepApplied == AppliedInv /\ [Next]_vars => AppliedInv'
<1>. SUFFICES ASSUME AppliedInv, [Next]_vars PROVE AppliedInv'
  OBVIOUS
<1>1. CASE UNCHANGED vars
  <2>1. TypeOK'
    BY <1>1, StepType DEF AppliedInv
  <2>. QED
    BY <1>1, <2>1 DEF vars, agents, iter, AppliedInv, Truthful, Claims
<1>. QED
  BY <1>1, ServiceApplied, AgentsApplied DEF Next, Agents

\* A render shown as ACTIVE is one whose content its node reported.
THEOREM ActiveMeansApplied == Spec => []ActiveRenderWasApplied
<1>1. AppliedInv => ActiveRenderWasApplied
  BY DEF AppliedInv, Truthful, Claims, ActiveRenderWasApplied
<1>. QED
  BY <1>1, InitApplied, StepApplied, PTL DEF Spec
=============================================================================
