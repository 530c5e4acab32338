------------------------------ MODULE Elements ------------------------------
(***************************************************************************)
(* The element manager (elements/dm/models.py, elements/services/          *)
(* builders.py, views and foreign keys of migrations 0018, 0033, 0034,     *)
(* 0042).  Users install, upgrade and uninstall manifests, each in one     *)
(* transaction; the builder reads all tables into its engine, renders the  *)
(* target of every resource and derives statuses, in one transaction whose *)
(* reads come first; agents make what the targets say.                     *)
(*                                                                         *)
(* A resource is named by its element and its name there, <<e, n>>; its    *)
(* uuid is given in the manifest.  What is rendered is the set of data it  *)
(* is made of: its own and that of the resources it refers to.             *)
(***************************************************************************)
EXTENDS Naturals, FiniteSets

CONSTANTS
    ElementNames,
    Manifests,
    Manifest,      \* what a manifest says: element, resources, exports, imports
    None,
    MaxEvents      \* bound: requests of users

(* Manifest[m] is a record: element, resources: name -> value, exports: a   *)
(* set of names, imports: name -> <<element, name>>.  A value has data,     *)
(* uses (names of imports), provider (the element whose kind of resource    *)
(* it is, None for the core), late (others refer to a field that only the   *)
(* agent knows).  Exported resources use no imports.                        *)

\* A manifest is one of an element and exports its own resources (an export of
\* anything else is refused, models.py:1136); None is no manifest.
ElementsAssumption ==
    /\ MaxEvents \in Nat
    /\ None \notin Manifests
    /\ \A m \in Manifests : /\ Manifest[m].element \in ElementNames
                              /\ Manifest[m].exports \subseteq DOMAIN Manifest[m].resources

VARIABLES
    installed,     \* table em_elements: the manifest whose version it is
    status,        \* their statuses
    row,           \* table em_resources
    import,        \* table em_imports: <<element, name>> -> resource
    export,        \* table em_exports
    target,        \* target resources
    actual,        \* actual resources, as agents report them
    snap,          \* the builder's engine, while its transaction is open
    events

\* History, for properties only.
VARIABLE lost      \* resources the builder wrote from a copy that was out of date

tables == <<installed, status, row, import, export>>
vars == <<tables, target, actual, snap, events, lost>>

Status == {"NEW", "IN_PROGRESS", "ACTIVE"}
Says(m, n) == Manifest[m].resources[n]
Keys == UNION {{<<Manifest[m].element, n>> : n \in DOMAIN Manifest[m].resources} : m \in Manifests}
ImportKeys == UNION {{<<Manifest[m].element, i>> : i \in DOMAIN Manifest[m].imports} : m \in Manifests}
Values == UNION {{Says(m, n) : n \in DOMAIN Manifest[m].resources} : m \in Manifests}
Rendered == SUBSET {v.data : v \in Values}

Resource == [value : Values, target : BOOLEAN, actual : BOOLEAN,
             full : Rendered, status : Status]
Actual == [value : Rendered, status : Status]

PartialFunction(f, S, T) == DOMAIN f \subseteq S /\ f \in [DOMAIN f -> T]

TypeOK ==
    /\ installed \in [ElementNames -> Manifests \union {None}]
    /\ status \in [ElementNames -> Status]
    /\ PartialFunction(row, Keys, Resource)
    /\ PartialFunction(import, ImportKeys, Keys)
    /\ export \subseteq Keys
    /\ PartialFunction(target, Keys, Rendered)
    /\ PartialFunction(actual, Keys, Actual)
    /\ snap # None => /\ PartialFunction(snap.row, Keys, Resource)
                      /\ PartialFunction(snap.import, ImportKeys, DOMAIN snap.row)
                      /\ PartialFunction(snap.target, Keys, Rendered)
                      /\ PartialFunction(snap.actual, Keys, Actual)
    /\ events \in 0 .. MaxEvents /\ lost \subseteq Keys
    \* Foreign keys
    /\ \A k \in DOMAIN row : installed[k[1]] # None
    /\ \A k \in DOMAIN row : /\ row[k].target => k \in DOMAIN target
                             /\ row[k].actual => k \in DOMAIN actual
    /\ \A i \in DOMAIN import : installed[i[1]] # None /\ import[i] \in DOMAIN row

Empty == [k \in {} |-> None]
Restrict(f, S) == [k \in DOMAIN f \intersect S |-> f[k]]

Init ==
    /\ installed = [e \in ElementNames |-> None]
    /\ status = [e \in ElementNames |-> "NEW"]
    /\ row = Empty /\ import = Empty /\ export = {}
    /\ target = Empty /\ actual = Empty
    /\ snap = None
    /\ events = 0 /\ lost = {}

-----------------------------------------------------------------------------
(* Requests.                                                                *)

Tick == events < MaxEvents /\ events' = events + 1

Present(e) == e \in {None} \union {x \in ElementNames : installed[x] # None}
KeysOf(m) == {<<Manifest[m].element, n>> : n \in DOMAIN Manifest[m].resources}
Old(e) == {k \in DOMAIN row : k[1] = e}

\* The providers of the resources are in the engine, and what it imports is
\* exported by an installed element.
Applicable(m) ==
    /\ \A n \in DOMAIN Manifest[m].resources : Present(Says(m, n).provider)
    /\ \A i \in DOMAIN Manifest[m].imports : Manifest[m].imports[i] \in export

\* Deleting a resource asks for its kind, hence for its provider.
Deletable(keys) == \A k \in keys : Present(row[k].value.provider)

\* What is deleted takes its targets and the imports of it with it.
DeleteResources(keys) == target' = Restrict(target, DOMAIN target \ keys)

\* Mutant of AppliedRows: what the manifest no longer has stays.
AppliedRowsAndOld(m) ==
    [k \in DOMAIN row \union KeysOf(m) |->
        IF k \notin KeysOf(m) THEN row[k]
        ELSE IF k \in DOMAIN row THEN [row[k] EXCEPT !.value = Says(m, k[2])]
        ELSE [value |-> Says(m, k[2]), target |-> FALSE, actual |-> FALSE,
              full |-> {}, status |-> "NEW"]]

\* Resources of the manifest, created or with their new value.
AppliedRows(m) ==
    LET e == Manifest[m].element IN
    [k \in (DOMAIN row \ Old(e)) \union KeysOf(m) |->
        IF k[1] # e THEN row[k]
        ELSE IF k \in DOMAIN row THEN [row[k] EXCEPT !.value = Says(m, k[2])]
        ELSE [value |-> Says(m, k[2]), target |-> FALSE, actual |-> FALSE,
              full |-> {}, status |-> "NEW"]]

ApplyElement(m) ==
    LET e == Manifest[m].element
        mine == {<<e, i>> : i \in DOMAIN Manifest[m].imports}
        kept == {i \in DOMAIN import : i[1] # e} \union mine
        all == [i \in kept |-> IF i[1] = e THEN Manifest[m].imports[i[2]] ELSE import[i]]
    IN  /\ Applicable(m)
        /\ Deletable(Old(e) \ KeysOf(m))
        /\ DeleteResources(Old(e) \ KeysOf(m))
        /\ row' = AppliedRows(m)
        /\ import' = Restrict(all, {i \in DOMAIN all : all[i] \in DOMAIN row'})
        /\ export' = {k \in export : k[1] # e} \union {<<e, n>> : n \in Manifest[m].exports}
        /\ installed' = [installed EXCEPT ![e] = m]
        /\ lost' = lost \ KeysOf(m)

Install(m) ==
    /\ Tick
    /\ installed[Manifest[m].element] = None
    /\ ApplyElement(m)
    /\ status' = [status EXCEPT ![Manifest[m].element] = "NEW"]
    /\ UNCHANGED <<actual, snap>>

Upgrade(m) ==
    /\ Tick
    /\ installed[Manifest[m].element] # None
    /\ ApplyElement(m)
    /\ UNCHANGED <<status, actual, snap>>

\* Only the version that is installed.
Uninstall(m) ==
    LET e == Manifest[m].element IN
    /\ Tick
    /\ installed[e] = m
    /\ Deletable(Old(e))
    /\ DeleteResources(Old(e))
    /\ row' = Restrict(row, DOMAIN row \ Old(e))
    /\ import' = Restrict(import, {i \in DOMAIN import : i[1] # e /\ import[i][1] # e})
    /\ export' = {k \in export : k[1] # e}
    /\ installed' = [installed EXCEPT ![e] = None]
    /\ status' = [status EXCEPT ![e] = "NEW"]
    /\ lost' = {k \in lost : k[1] # e}
    /\ UNCHANGED <<actual, snap>>

-----------------------------------------------------------------------------
(* The builder.                                                             *)

Load ==
    /\ snap = None
    /\ snap' = [row |-> row, import |-> import, target |-> target, actual |-> actual,
                elements |-> {e \in ElementNames : installed[e] # None}]
    /\ UNCHANGED <<tables, target, actual, events, lost>>

\* The resources that k refers to.
Refs(k) == {snap.import[i] :
    i \in {<<k[1], u>> : u \in snap.row[k].value.uses} \intersect DOMAIN snap.import}

\* A reference is resolved to what the agent reported, or else to the target.
ActualState(k) ==
    IF snap.row[k].actual THEN snap.actual[k].value ELSE {snap.row[k].value.data}
RenderTargetState(k) == {snap.row[k].value.data} \union UNION {ActualState(j) : j \in Refs(k)}

\* KeyError: the field referred to is not there yet, the resource is skipped.
Skipped(k) == \E j \in Refs(k) : snap.row[j].value.late /\ ~snap.row[j].actual

\* ValueError: a name that the element does not import (any more).
Dangling == \E k \in DOMAIN snap.row : \E u \in snap.row[k].value.uses :
                <<k[1], u>> \notin DOMAIN snap.import
\* NamespaceNotFound: the kind of a resource without its provider.
NoProvider == \E k \in DOMAIN snap.row :
    ~snap.row[k].actual /\ snap.row[k].value.provider \notin snap.elements \union {None}
\* An imported resource is in the engine once more for each import, as a copy
\* of its own: without a target, both copies insert one.
InsertedTwice == \E i \in DOMAIN snap.import : ~snap.row[snap.import[i]].target

Actualized == {k \in DOMAIN snap.row : ~Skipped(k)}
Found(k) == snap.row[k].actual \/ k \in DOMAIN actual
FullHash(k) == IF snap.row[k].actual THEN snap.actual[k].value
               ELSE IF k \in DOMAIN actual THEN actual[k].value
               ELSE RenderTargetState(k)
Written(k) == [snap.row[k] EXCEPT !.target = TRUE, !.actual = Found(k), !.full = FullHash(k)]
Dirty == {k \in Actualized : Written(k) # snap.row[k]}
Inserted == {k \in Actualized : ~snap.row[k].target}

\* A target that is there is written when something else is rendered.
Retargeted == {k \in Actualized \ Inserted : snap.target[k] # RenderTargetState(k)}

\* What was read is gone or its insert was done by somebody: the statement
\* fails and with it the transaction.
Failed ==
    \/ Dangling \/ NoProvider \/ InsertedTwice
    \/ \E k \in Dirty : k \notin DOMAIN row \/ (snap.row[k].actual /\ k \notin DOMAIN actual)
    \/ \E k \in Inserted : k \in DOMAIN target
    \/ \E k \in (Dirty \union Retargeted) \ Inserted : k \notin DOMAIN target

\* A target that is gone is written also when only the time of its row's last
\* change is new, which depends on what earlier iterations wrote.
MayFail == \E k \in Actualized \ Inserted : k \notin DOMAIN target

\* Targets without a resource are deleted.
Targets ==
    LET made == Actualized
    IN  [k \in (DOMAIN target \intersect DOMAIN row) \union Inserted |->
            IF k \in made THEN RenderTargetState(k) ELSE target[k]]

Rows ==
    LET dirty == Dirty
    IN  [k \in DOMAIN row |-> IF k \in dirty THEN Written(k) ELSE row[k]]

\* Mutant of Reported: a status once ACTIVE stays.
ReportedOnce(k, r) ==
    IF k \notin DOMAIN actual \/ r.status = "IN_PROGRESS" THEN r ELSE [r EXCEPT !.status = actual[k].status]

\* em_incorrect_resource_statuses_view
Reported(k, r) ==
    IF k \notin DOMAIN actual THEN r ELSE [r EXCEPT !.status = actual[k].status]

\* em_incorrect_statuses_view
Derived(e, rows) ==
    LET found == {rows[k].status : k \in {j \in DOMAIN rows : j[1] = e}}
    IN  IF found \subseteq {"ACTIVE"} THEN "ACTIVE"
        ELSE IF found = {"NEW"} THEN "NEW" ELSE "IN_PROGRESS"

Actualize ==
    /\ snap # None /\ ~Failed
    /\ target' = Targets
    /\ row' = LET rows == Rows IN [k \in DOMAIN rows |-> Reported(k, rows[k])]
    /\ status' = [e \in ElementNames |->
           IF installed[e] = None THEN status[e] ELSE Derived(e, row')]
    /\ lost' = lost \union {k \in Dirty : row[k].value # snap.row[k].value}
    /\ snap' = None
    /\ UNCHANGED <<installed, import, export, actual, events>>

Rollback ==
    /\ snap # None /\ (Failed \/ MayFail)
    /\ snap' = None
    /\ UNCHANGED <<tables, target, actual, events, lost>>

Builder == Load \/ Actualize \/ Rollback

-----------------------------------------------------------------------------
(* Agents.                                                                  *)

Take(k) ==
    /\ k \in DOMAIN target
    /\ k \in DOMAIN actual => actual[k].value # target[k]
    /\ actual' = [j \in DOMAIN actual \union {k} |->
           IF j = k THEN [value |-> target[k], status |-> "IN_PROGRESS"] ELSE actual[j]]
    /\ UNCHANGED <<tables, target, snap, events, lost>>

Done(k) ==
    /\ k \in DOMAIN actual /\ actual[k].status = "IN_PROGRESS"
    /\ actual' = [actual EXCEPT ![k].status = "ACTIVE"]
    /\ UNCHANGED <<tables, target, snap, events, lost>>

\* The reference to an actual resource is set to null.
Drop(k) ==
    /\ k \in DOMAIN actual \ DOMAIN target
    /\ actual' = Restrict(actual, DOMAIN actual \ {k})
    /\ row' = [j \in DOMAIN row |-> IF j = k THEN [row[j] EXCEPT !.actual = FALSE] ELSE row[j]]
    /\ UNCHANGED <<installed, status, import, export, target, snap, events, lost>>

Agent == \E k \in Keys : Take(k) \/ Done(k) \/ Drop(k)

-----------------------------------------------------------------------------
User == \E m \in Manifests : Install(m) \/ Upgrade(m) \/ Uninstall(m)

Next == User \/ Builder \/ Agent

Spec == Init /\ [][Next]_vars
\* The builder's and the agents' loops run for ever.
FairSpec == Spec /\ WF_vars(Builder) /\ WF_vars(Agent)

-----------------------------------------------------------------------------
\* Resources are what the installed version of the manifest says, but for
\* those the builder wrote from a copy it had read before an upgrade.
ResourcesAreTheManifests == \A e \in ElementNames :
    /\ installed[e] = None => Old(e) = {}
    /\ installed[e] # None => /\ Old(e) = KeysOf(installed[e])
                              /\ \A k \in Old(e) \ lost : row[k].value = Says(installed[e], k[2])

\* Nothing fails every iteration: names are imported, providers installed,
\* and what is imported had its target before.
Sound ==
    /\ \A k \in DOMAIN row : /\ \A u \in row[k].value.uses : <<k[1], u>> \in DOMAIN import
                             /\ Present(row[k].value.provider)
    /\ \A i \in DOMAIN import : row[import[i]].target

Made == Sound =>
    /\ \A e \in ElementNames : installed[e] # None => status[e] = "ACTIVE"
    /\ \A k \in DOMAIN row : k \in DOMAIN target /\ row[k].value.data \in target[k]
    /\ DOMAIN actual = DOMAIN row /\ DOMAIN target = DOMAIN row

\* Once users are quiet every element becomes ACTIVE, its resources made as
\* their rows say, and what is uninstalled is gone from the targets and from
\* the agents, whatever came between the builder's reads and its writes.
ElementsBecomeActive == <>[]Made
=============================================================================
