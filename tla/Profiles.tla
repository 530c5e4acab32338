------------------------------ MODULE Profiles ------------------------------
(***************************************************************************)
(* Profiles, a variable and the values it may take                         *)
(* (vs/dm/models.py, vs/builders/service.py and the actions of the user    *)
(* API on profiles, variables, values and elements).                       *)
(*                                                                         *)
(* A request reads rows at its start and commits at its end; an update     *)
(* writes the whole row from the copy, and only if the copy was changed or *)
(* the update is forced.  The builder's turn is one step here.             *)
(***************************************************************************)
EXTENDS Naturals, FiniteSets

CONSTANTS
    Global,        \* the global profiles
    Listed,        \* those the variable's setter has a value for
    Vals,          \* identifiers of values
    MaxRequests,   \* bound: requests
    Underway,      \* bound: requests at one time, no two alike
    None

VARIABLES
    active,        \* rows of vs_profiles with the flag set
    own,           \* the profile of the element the variable belongs to
    val,           \* table vs_values: time of creation, manual_selected
    var,           \* the row of vs_variables: setter, value, status
    changed,       \* the row has changed since the builder tracked it
    touched,       \* a profile of the setter's list has
    underway,      \* requests, with the rows they read
    requests

\* History, for properties only.
VARIABLE missed    \* the element left a profile the setter does not list

vars == <<active, own, val, var, changed, touched, underway, requests, missed>>

\* The setter goes by profile, of the element or of everybody, or selects a value.
Setters == {"everybody", "element", "selector"}
Variable == [setter : Setters, value : Listed \union Vals \union {None},
             status : {"IN_PROGRESS", "ACTIVE"}]
Value == [at : 0 .. MaxRequests, sel : BOOLEAN]
Ops == {"activate", "assign", "clear", "insert", "delete", "select", "release", "put"}

There(table) == {v \in Vals : table[v] # None}
Selected(table) == {v \in There(table) : table[v].sel}

\* None is no row and no profile.
ProfilesAssumption ==
    /\ Listed \subseteq Global /\ None \notin Global
    /\ IsFiniteSet(Vals) /\ MaxRequests \in Nat
    /\ None \notin Value

TypeOK ==
    /\ active \subseteq Global
    /\ own \in Global \union {None}
    /\ val \in [Vals -> Value \union {None}]
    /\ Cardinality(Selected(val)) <= 1
    /\ var \in Variable
    /\ changed \in BOOLEAN /\ touched \in BOOLEAN /\ missed \in BOOLEAN
    /\ \A q \in underway : q.op \in Ops /\ q.read.active \subseteq Global
    /\ requests \in 0 .. MaxRequests

Init ==
    /\ \E p \in Listed : active = {p}
    /\ own = None
    /\ val \in [Vals -> {None, [at |-> 0, sel |-> FALSE]}]
    /\ \E s \in Setters : var = [setter |-> s, value |-> None, status |-> "IN_PROGRESS"]
    /\ changed = TRUE /\ touched = FALSE /\ missed = FALSE
    /\ underway = {}
    /\ requests = 0

-----------------------------------------------------------------------------
(* Requests.                                                                *)

\* What each request is about, as far as its checks at the start say.
Subjects(op) ==
    CASE op \in {"activate", "assign"} -> Global
      [] op = "clear"   -> {own} \ {None}
      [] op = "insert"  -> {v \in Vals : val[v] = None}
      [] op = "delete"  -> There(val)
      [] op = "select"  -> There(val)
      [] op = "release" -> Selected(val)
      [] op = "put"     -> Setters

\* A copy of what the request is going to write from.
Read(op) ==
    LET ofProfiles == op \in {"activate", "assign", "clear"}
        ofValues == op \in {"select", "release"}
    IN  [active |-> IF ofProfiles THEN active ELSE {}, own |-> IF ofProfiles THEN own ELSE None,
         sel |-> IF ofValues THEN Selected(val) ELSE {},
         var |-> IF ofProfiles THEN None ELSE var]

Begin(op, x) ==
    /\ requests < MaxRequests /\ requests' = requests + 1
    /\ Cardinality(underway) < Underway
    /\ underway' = underway \union {[op |-> op, on |-> x, read |-> Read(op),
                                    at |-> IF op = "insert" THEN requests ELSE 0]}
    /\ UNCHANGED <<active, own, val, var, changed, touched, missed>>

Ends(q) == underway' = underway \ {q}

Touches(ps) == touched' = (touched \/ ps \intersect Listed # {})

\* The copies of active profiles are switched off and written, then this one is
\* switched on: it is written if its own copy was off.
Activate(q) ==
    /\ q.op = "activate"
    /\ active' = (active \ q.read.active) \union ({q.on} \ q.read.active)
    /\ Touches(q.read.active \union {q.on})
    /\ Ends(q)
    /\ UNCHANGED <<own, val, var, changed, requests, missed>>

\* A forced update of a profile writes its flag as it was read.
Force(p, q) == active' = IF p \in q.read.active THEN active \union {p} ELSE active \ {p}

\* set_profile
Assign(q) ==
    /\ q.op = "assign"
    /\ own' = IF q.read.own = q.on THEN own ELSE q.on
    /\ Force(q.on, q)
    /\ Touches({q.on})
    /\ Ends(q)
    /\ UNCHANGED <<val, var, changed, requests, missed>>

\* clear_profile
Clear(q) ==
    /\ q.op = "clear"
    /\ own' = None
    /\ Force(q.on, q)
    /\ Touches({q.on})
    /\ missed' = (missed \/ q.on \notin Listed)
    /\ Ends(q)
    /\ UNCHANGED <<val, var, changed, requests>>

\* A value's insert, update and delete force an update of its variable.
Notify(q) == var' = q.read.var /\ changed' = TRUE

InsertValue(q) ==
    /\ q.op = "insert" /\ val[q.on] = None
    /\ val' = [val EXCEPT ![q.on] = [at |-> q.at, sel |-> FALSE]]
    /\ Notify(q)
    /\ Ends(q)
    /\ UNCHANGED <<active, own, touched, requests, missed>>

DeleteValue(q) ==
    /\ q.op = "delete" /\ val[q.on] # None
    /\ val' = [val EXCEPT ![q.on] = None]
    /\ Notify(q)
    /\ Ends(q)
    /\ UNCHANGED <<active, own, touched, requests, missed>>

\* The copies of selected values are switched off and written, then this one is
\* switched on, and written if its own copy was off.
Reselected(q, on) ==
    [v \in Vals |-> IF v \in (q.read.sel \union on) THEN [val[v] EXCEPT !.sel = v \notin q.read.sel]
                    ELSE val[v]]

\* vs_values_one_manual_selected_per_variable
OneSelected(table) == Cardinality(Selected(table)) <= 1

\* select_value and release_value.  A row that is gone, or a second selected
\* one, fails the request.
SelectValue(q) ==
    /\ q.op \in {"select", "release"}
    /\ LET on == IF q.op = "select" THEN {q.on} ELSE {}
       IN  /\ \A v \in q.read.sel \union on : val[v] # None
           /\ OneSelected(Reselected(q, on))
           /\ val' = Reselected(q, on)
    /\ Notify(q)
    /\ Ends(q)
    /\ UNCHANGED <<active, own, touched, requests, missed>>

PutVariable(q) ==
    /\ q.op = "put"
    /\ var' = [q.read.var EXCEPT !.setter = q.on, !.status = "IN_PROGRESS"]
    /\ changed' = TRUE
    /\ Ends(q)
    /\ UNCHANGED <<active, own, val, touched, requests, missed>>

Fail(q) ==
    /\ Ends(q)
    /\ UNCHANGED <<active, own, val, var, changed, touched, requests, missed>>

Finish(q) ==
    \/ Activate(q) \/ Assign(q) \/ Clear(q) \/ InsertValue(q) \/ DeleteValue(q)
    \/ SelectValue(q) \/ PutVariable(q) \/ Fail(q)

-----------------------------------------------------------------------------
(* The builder.                                                             *)

\* The profile that determines the value, if there is exactly one.
Determining == IF var.setter = "element" /\ own # None THEN {own} ELSE active

\* The value selected by hand, or else the latest.
Chosen == IF Selected(val) # {} THEN Selected(val)
          ELSE {v \in There(val) : \A w \in There(val) : val[v].at >= val[w].at}

\* The global profile must be one; if it is not the turn fails.
ByProfile ==
    /\ var.setter # "selector"
    /\ changed \/ touched
    /\ \E p \in Determining :
        /\ Determining = {p}
        /\ var' = [var EXCEPT !.value = IF p \in Listed THEN p ELSE @, !.status = "ACTIVE"]
    /\ missed' = FALSE

BySelector ==
    /\ var.setter = "selector" /\ changed
    /\ IF There(val) = {} THEN var' = [var EXCEPT !.value = None, !.status = "IN_PROGRESS"]
       ELSE \E v \in Chosen : var' = [var EXCEPT !.value = v, !.status = "ACTIVE"]
    /\ UNCHANGED missed

Builder ==
    /\ ByProfile \/ BySelector
    /\ changed' = FALSE /\ touched' = FALSE
    /\ UNCHANGED <<active, own, val, underway, requests>>

-----------------------------------------------------------------------------
Api ==
    \/ \E q \in underway : Finish(q)
    \/ \E op \in Ops : \E x \in Subjects(op) : Begin(op, x)

Next == Api \/ Builder

Spec == Init /\ [][Next]_vars
Fairness == WF_vars(Builder)
FairSpec == Spec /\ Fairness

-----------------------------------------------------------------------------
\* The variable has the value its setter calls for, as long as one profile is
\* active - but for a variable whose element left a profile the setter does not
\* list (controllers.py:106).
Follows ==
    Cardinality(active) = 1 /\ ~missed =>
        IF var.setter = "selector"
        THEN IF There(val) = {} THEN var.value = None /\ var.status = "IN_PROGRESS"
             ELSE var.value \in Chosen /\ var.status = "ACTIVE"
        ELSE \A p \in Determining : p \in Listed => var.value = p /\ var.status = "ACTIVE"

\* It comes to that, however requests overwrite each other.
VariableFollows == <>[]Follows
=============================================================================
