------------------------------ MODULE Sessions ------------------------------
(***************************************************************************)
(* Organizations and projects with their people, and the sessions of users *)
(* (user_api/iam/dm/models.py, user_api/iam/api/controllers.py): tokens,   *)
(* their refresh and their end, tokens of service accounts, and the        *)
(* authorization of another program by a code.                             *)
(*                                                                         *)
(* A request that makes or refreshes a token reads projects and bindings   *)
(* first and writes in a later step, and other requests come in between;   *)
(* the rest are one step each.  Time is what is left of a token's life.    *)
(***************************************************************************)
EXTENDS Naturals, Sequences, FiniteSets

CONSTANTS
    Users,
    ServiceUsers,  \* accounts without a password
    Admin,         \* bound, in no project, to the role that may do everything
    Orgs, Projects,
    Scopes,        \* of "openid", "default" and projects, what users ask for
    Requests,      \* requests under way at one time: several only beside an exchange,
                   \* and before the first change of people and projects
    Tokens,        \* identifiers of tokens
    Access,        \* lifetimes of a new token and of its refresh token, numbers, the
    Refresh,       \* first no longer than the second
    MaxChanges,    \* bound: changes of people and projects
    None

VARIABLES
    users,         \* rows of the tables; those of `members` and `bindings` stand where
                   \* they were created, and a deleted one leaves its place empty
    orgs,
    members,
    project,       \* each project with its organization
    bindings,      \* pairs of user and project
    token,
    code,          \* the authorization, with the token it was confirmed with
    asked,
    held,          \* tokens that a client has got
    request,
    changes

\* History, for properties only.
VARIABLE closed    \* tokens that were deleted

people == <<users, orgs, members, project, bindings>>
vars == <<people, token, code, asked, held, request, changes, closed>>

Token == [user : Users, project : Projects \union {None}, scope : {"openid", "default"} \union Projects,
          left : 0 .. Access, refresh : 0 .. Refresh]
Member == [org : Orgs, user : Users, role : {"OWNER", "MEMBER"}]
Request == [op : {"issue", "refresh", "confirm", "exchange"}, token : Tokens \union {None},
            row : Token \union {None}]

Rows(table) == {table[i] : i \in DOMAIN table} \ {None}
Live == {t \in Tokens : token[t] # None}

SessionsAssumption ==
    /\ Admin \in Users /\ ServiceUsers \subseteq Users
    /\ Scopes \subseteq {"openid", "default"} \union Projects
    /\ Access \in Nat /\ Refresh \in Nat /\ MaxChanges \in Nat
    /\ None \notin Orgs /\ None \notin Token

\* What a row refers to exists, and what was deleted stays deleted, whatever
\* requests under way write.
TypeOK ==
    /\ users \subseteq Users /\ orgs \subseteq Orgs
    /\ Rows(members) \subseteq Member
    /\ project \in [Projects -> Orgs \union {None}]
    /\ token \in [Tokens -> Token \union {None}]
    /\ request \in [Requests -> Request \union {None}]
    /\ asked \in BOOLEAN /\ changes \in 0 .. MaxChanges
    /\ \A m \in Rows(members) : m.user \in users /\ m.org \in orgs
    /\ \A p \in Projects : project[p] # None => project[p] \in orgs
    /\ \A b \in Rows(bindings) : b[1] \in users /\ project[b[2]] # None
    /\ \A t \in Live :
        /\ token[t].user \in users
        /\ token[t].project # None => project[token[t].project] # None
    /\ code # None => code.token \in Live \union {None}
    /\ closed \intersect Live = {} /\ held \subseteq closed \union Live

-----------------------------------------------------------------------------
(* What a token stands for.                                                 *)

OwnerOf(o) == {m.user : m \in {x \in Rows(members) : x.org = o /\ x.role = "OWNER"}}

Oldest(table, some) ==
    table[CHOOSE i \in DOMAIN table :
            table[i] \in some /\ \A j \in DOMAIN table : table[j] \in some => i <= j]

\* Of a user's organizations the oldest ownership, of the bindings the oldest.
DefaultOrg(u) ==
    LET mine == {m \in Rows(members) : m.user = u /\ m.role = "OWNER"}
    IN  IF mine = {} THEN None ELSE Oldest(members, mine).org

DefaultProject(u) ==
    LET mine == {b \in Rows(bindings) : b[1] = u /\ project[b[2]] = DefaultOrg(u)}
    IN  IF mine = {} THEN None ELSE Oldest(bindings, mine)[2]

ProjectByScope(u, scope) ==
    CASE scope = "openid" -> None
      [] scope = "default" -> DefaultProject(u)
      [] OTHER -> IF project[scope] = None THEN None ELSE scope

NewToken(u, p, scope) ==
    [user |-> u, project |-> p, scope |-> scope, left |-> Access, refresh |-> Refresh]

\* A token that a client has got and that is neither deleted nor expired.
Valid(t) == t \in held \intersect Live /\ token[t].left > 0

\* The permissions are those of the token's own project; the administrator's
\* binding names none.
Enforce(t) == token[t].user = Admin /\ token[t].project = None

-----------------------------------------------------------------------------
(* People and projects, each change with the token of who asks for it; the  *)
(* roles of an owner are taken to have the policies of the controllers.     *)

UnderWay == {r \in Requests : request[r] # None}

Changed ==
    /\ changes < MaxChanges /\ changes' = changes + 1
    /\ Cardinality(UnderWay) <= 1
    /\ UNCHANGED <<code, asked, held, request>>

Kept == UNCHANGED <<token, closed>>

CreateOrganization(t, o) ==
    /\ Valid(t) /\ Changed /\ Kept
    /\ o \notin orgs /\ orgs' = orgs \union {o}
    /\ members' = Append(members, [org |-> o, user |-> token[t].user, role |-> "OWNER"])
    /\ UNCHANGED <<users, project, bindings>>

MayOwn(t, o) == token[t].user \in OwnerOf(o) \/ Enforce(t)

Without(table, gone) == [i \in DOMAIN table |-> IF table[i] \in gone THEN None ELSE table[i]]

\* The members go with it; a project stands against it.
DeleteOrganization(t, o) ==
    /\ Valid(t) /\ MayOwn(t, o) /\ Changed /\ Kept
    /\ o \in orgs /\ orgs' = orgs \ {o}
    /\ \A p \in Projects : project[p] # o
    /\ members' = Without(members, {m \in Rows(members) : m.org = o})
    /\ UNCHANGED <<users, project, bindings>>

AddMember(t, m) ==
    /\ Valid(t) /\ m.org \in orgs /\ MayOwn(t, m.org) /\ Changed /\ Kept
    /\ m.user \in users
    /\ \A x \in Rows(members) : <<x.org, x.user>> # <<m.org, m.user>>
    /\ members' = Append(members, m)
    /\ UNCHANGED <<users, orgs, project, bindings>>

UpdateMember(t, i, role) ==
    /\ Valid(t) /\ members[i] # None /\ MayOwn(t, members[i].org) /\ Changed /\ Kept
    /\ members[i].role # role
    /\ members' = [members EXCEPT ![i].role = role]
    /\ UNCHANGED <<users, orgs, project, bindings>>

\* Nobody asks whether an owner is left.
DeleteMember(t, m) ==
    /\ Valid(t) /\ MayOwn(t, m.org) /\ Changed /\ Kept
    /\ members' = Without(members, {m})
    /\ UNCHANGED <<users, orgs, project, bindings>>

\* With a binding for whoever asked.
CreateProject(t, o, p) ==
    /\ Valid(t) /\ o \in orgs /\ MayOwn(t, o) /\ Changed /\ Kept
    /\ project[p] = None /\ project' = [project EXCEPT ![p] = o]
    /\ bindings' = Append(bindings, <<token[t].user, p>>)
    /\ UNCHANGED <<users, orgs, members>>

\* Tokens go with their project or user, unless a code that was never exchanged
\* refers to one of them: then the database refuses all of it.
Cascade(gone) ==
    /\ code # None => code.token \notin gone
    /\ token' = [t \in Tokens |-> IF t \in gone THEN None ELSE token[t]]
    /\ closed' = closed \union gone

DeleteProject(t, p) ==
    /\ Valid(t) /\ Changed
    /\ <<token[t].user, p>> \in Rows(bindings) \/ Enforce(t)
    /\ project[p] # None /\ project' = [project EXCEPT ![p] = None]
    /\ bindings' = Without(bindings, {b \in Rows(bindings) : b[2] = p})
    /\ Cascade({x \in Live : token[x].project = p})
    /\ UNCHANGED <<users, orgs, members>>

DeleteUser(t, u) ==
    /\ Valid(t) /\ Enforce(t) /\ Changed
    /\ u \in users \ {Admin} /\ users' = users \ {u}
    /\ members' = Without(members, {m \in Rows(members) : m.user = u})
    /\ bindings' = Without(bindings, {b \in Rows(bindings) : b[1] = u})
    /\ Cascade({x \in Live : token[x].user = u})
    /\ UNCHANGED <<orgs, project>>

BindRole(t, u, p) ==
    /\ Valid(t) /\ Enforce(t) /\ Changed /\ Kept
    /\ u \in users /\ project[p] # None /\ <<u, p>> \notin Rows(bindings)
    /\ bindings' = Append(bindings, <<u, p>>)
    /\ UNCHANGED <<users, orgs, members, project>>

UnbindRole(t, b) ==
    /\ Valid(t) /\ Enforce(t) /\ Changed /\ Kept
    /\ bindings' = Without(bindings, {b})
    /\ UNCHANGED <<users, orgs, members, project>>

-----------------------------------------------------------------------------
(* Tokens: what a request reads.                                            *)

Begins(r, op, t, row) ==
    /\ request[r] = None
    /\ UnderWay # {} => changes = 0 /\ "exchange" \in {op} \union {request[x].op : x \in UnderWay}
    /\ request' = [request EXCEPT ![r] = [op |-> op, token |-> t, row |-> row]]
    /\ UNCHANGED <<people, token, code, asked, held, changes, closed>>

LogIn(r, u, scope) ==
    /\ u \in users \ ServiceUsers
    /\ Begins(r, "issue", None, NewToken(u, ProjectByScope(u, scope), scope))

\* Both have a role in the project, which the scope names.  Who asks shows a
\* password or a token.
AskServiceToken(r, u, s, p) ==
    /\ u \in users /\ (u \notin ServiceUsers \/ \E t \in Tokens : Valid(t) /\ token[t].user = u)
    /\ s \in users \intersect ServiceUsers
    /\ {<<u, p>>, <<s, p>>} \subseteq Rows(bindings)
    /\ Begins(r, "issue", None, NewToken(s, p, p))

\* Mutant of Refreshed: a refresh prolongs the session.
RefreshedForLonger(row, p, scope) ==
    [row EXCEPT !.left = Access, !.refresh = Refresh, !.project = p, !.scope = scope]

Refreshed(row, p, scope) == [row EXCEPT !.left = Access, !.project = p, !.scope = scope]

\* Without a scope the token keeps its own, and its project is looked up again.
AskRefresh(r, t, scope) ==
    /\ t \in held \intersect Live /\ token[t].refresh > 0
    /\ LET row == token[t] IN
       Begins(r, "refresh", t, Refreshed(row, ProjectByScope(row.user, scope), scope))

Confirm(r, t) ==
    /\ Valid(t) /\ code # None
    /\ Begins(r, "confirm", None, NewToken(token[t].user, token[t].project, "openid"))

\* An authorization nobody has confirmed has no token to give, and is kept.
Exchange(r) ==
    /\ code # None /\ code.token # None
    /\ Begins(r, "exchange", code.token, None)

-----------------------------------------------------------------------------
(* Tokens: what a request writes.                                           *)

Ends(r) ==
    /\ request' = [request EXCEPT ![r] = None]
    /\ UNCHANGED <<people, asked, changes, closed>>

Does(r, op) == request[r] # None /\ request[r].op = op

\* The database refuses a row whose user or project is gone.
Stored(row) == row.user \in users /\ (row.project # None => project[row.project] # None)

Insert(r, t) ==
    /\ t \notin Live \union closed
    /\ \A x \in Tokens : x < t => x \in Live \union closed
    /\ Stored(request[r].row)
    /\ token' = [token EXCEPT ![t] = request[r].row]

Issue(r, t) ==
    /\ Does(r, "issue") /\ Insert(r, t)
    /\ held' = held \union {t}
    /\ Ends(r) /\ UNCHANGED code

\* The row of a token that was deleted in between is not there to be written.
SaveRefreshed(r) ==
    /\ Does(r, "refresh") /\ request[r].token \in Live /\ Stored(request[r].row)
    /\ token' = [token EXCEPT ![request[r].token] = request[r].row]
    /\ Ends(r) /\ UNCHANGED <<code, held>>

\* Confirmed again, it has another token, and nobody gets the first.
SaveConfirmed(r, t) ==
    /\ Does(r, "confirm") /\ code # None
    /\ Insert(r, t)
    /\ code' = [token |-> t]
    /\ Ends(r) /\ UNCHANGED held

\* A second exchange that read the authorization before the first deleted it gets
\* the same token.
Exchanged(r) ==
    /\ Does(r, "exchange")
    /\ code' = None
    /\ held' = held \union {request[r].token}
    /\ Ends(r) /\ UNCHANGED token

\* Refused, or the process dies.
Fail(r) == request[r] # None /\ Ends(r) /\ UNCHANGED <<code, held, token>>

-----------------------------------------------------------------------------
Authorize ==
    /\ ~asked /\ asked' = TRUE
    /\ code' = [token |-> None]
    /\ UNCHANGED <<people, token, held, request, changes, closed>>

LogOut(t) ==
    /\ Valid(t)
    /\ Cascade({t})
    /\ UNCHANGED <<people, code, asked, held, request, changes>>

Older(row) ==
    [row EXCEPT !.left = IF @ = 0 THEN 0 ELSE @ - 1, !.refresh = IF @ = 0 THEN 0 ELSE @ - 1]

Tick ==
    /\ token' = [t \in Tokens |-> IF token[t] = None THEN None ELSE Older(token[t])]
    /\ request' = [r \in Requests |-> IF request[r] = None \/ request[r].row = None
                     THEN request[r] ELSE [request[r] EXCEPT !.row = Older(@)]]
    /\ <<token, request>>' # <<token, request>>
    /\ UNCHANGED <<people, code, asked, held, changes, closed>>

-----------------------------------------------------------------------------
People(t) ==
    \/ \E o \in Orgs : CreateOrganization(t, o) \/ DeleteOrganization(t, o)
    \/ \E m \in Member : AddMember(t, m)
    \/ \E m \in Rows(members) : DeleteMember(t, m)
    \/ \E i \in DOMAIN members, role \in {"OWNER", "MEMBER"} : UpdateMember(t, i, role)
    \/ \E p \in Projects : DeleteProject(t, p) \/ \E o \in Orgs : CreateProject(t, o, p)
    \/ \E u \in Users : DeleteUser(t, u) \/ \E p \in Projects : BindRole(t, u, p)
    \/ \E b \in Rows(bindings) : UnbindRole(t, b)

Reads(r) ==
    \/ \E u \in Users, scope \in Scopes : LogIn(r, u, scope)
    \/ \E u, s \in Users, p \in Projects : AskServiceToken(r, u, s, p)
    \/ \E t \in Tokens : Confirm(r, t) \/ \E scope \in Scopes : AskRefresh(r, t, scope)
    \/ \E t \in Live : AskRefresh(r, t, token[t].scope)
    \/ Exchange(r)

Writes(r) ==
    \/ \E t \in Tokens : Issue(r, t) \/ SaveConfirmed(r, t)
    \/ SaveRefreshed(r) \/ Exchanged(r) \/ Fail(r)

\* The administrator may have an organization and a project in it, and a service
\* account a role in that.
Init ==
    /\ users = Users
    /\ \E n \in 0 .. 3, o \in Orgs, p \in Projects, s \in ServiceUsers :
        /\ orgs = IF n = 0 THEN {} ELSE {o}
        /\ members = IF n = 0 THEN << >> ELSE <<[org |-> o, user |-> Admin, role |-> "OWNER"]>>
        /\ project = [q \in Projects |-> IF n >= 2 /\ q = p THEN o ELSE None]
        /\ bindings = CASE n = 2 -> <<<<Admin, p>>>>
                        [] n = 3 -> <<<<Admin, p>>, <<s, p>>>>
                        [] OTHER -> << >>
    /\ token = [t \in Tokens |-> None] /\ code = None /\ asked = FALSE
    /\ held = {} /\ closed = {}
    /\ request = [r \in Requests |-> None] /\ changes = 0

Next ==
    \/ \E t \in Tokens : LogOut(t) \/ People(t)
    \/ \E r \in Requests : Reads(r) \/ Writes(r)
    \/ Authorize \/ Tick

Spec == Init /\ [][Next]_vars

\* Time goes on.
FairSpec == Spec /\ WF_vars(Tick)

-----------------------------------------------------------------------------
Ended == \A t \in Live : token[t].left = 0 /\ token[t].refresh = 0

\* However often a session is refreshed, and whoever refreshes at the same time,
\* it ends: a refresh moves expiration_at and never refresh_expiration_at
\* (dm/models.py:1646).
SessionsEnd == <>[]Ended
=============================================================================
