------------------------------ MODULE Accounts ------------------------------
(***************************************************************************)
(* Rows of users, the requests that change them and the janitor            *)
(* (user_api/iam/dm/models.py, user_api/iam/api/controllers.py,            *)
(* janitor/service.py).                                                    *)
(*                                                                         *)
(* A request reads the row at its start and writes the WHOLE row at its    *)
(* end (the ORM's UPDATE names every column), each in one statement of its *)
(* transaction; requests and the janitor run in processes of their own.    *)
(* Between the UPDATE and the end of the transaction the row is locked, so *)
(* writing and committing are one step here, and so is a failure of both.  *)
(***************************************************************************)
EXTENDS Naturals, FiniteSets

CONSTANTS
    Users,
    Requests,      \* requests under way at one time
    Codes,         \* confirmation codes, drawn at random and never twice
    Secrets,       \* passwords
    MaxNow,        \* bound: lifetimes of a code that pass
    MaxRequests,   \* bound: requests
    None

VARIABLES
    user,          \* table iam_users
    newcomer,      \* users with a binding of the newcomer role
    mailed,        \* pairs of user and code sent by the event service
    now,           \* a code made at t has expired when now > t
    req,           \* requests under way, with the row they read
    batch,         \* rows the janitor has read
    requests

\* History, for properties only.
VARIABLES
    used,          \* pairs of user and code that confirmed or reset something
    stale          \* users whose row was written from a copy that was out of date

vars == <<user, newcomer, mailed, now, req, batch, requests, used, stale>>

Row == [verified : BOOLEAN, code : Codes \union {None}, madeAt : (0 .. MaxNow) \union {None},
        secret : Secrets, otp : {"off", "offered", "on"}]
Ops == {"rename", "send", "confirm", "force", "reset", "set", "password",
        "enable", "activate", "disable", "delete"}
Request == [op : Ops, user : Users, row : Row, code : Codes \union {None}]

\* None is no row, no request, no code and no time; there are passwords.
AccountsAssumption ==
    /\ MaxNow \in Nat /\ MaxRequests \in Nat
    /\ None \notin Row /\ None \notin Request /\ None \notin Codes /\ None \notin Nat
    /\ Secrets # {}

\* A code and its time are set and cleared together, so that the janitor's
\* first filter finds every code it has to.
Timed(r) == r.code = None <=> r.madeAt = None

TypeOK ==
    /\ user \in [Users -> Row \union {None}]
    /\ \A u \in Users : user[u] # None => Timed(user[u])
    /\ newcomer \subseteq Users
    /\ mailed \subseteq Users \X Codes
    /\ now \in 0 .. MaxNow
    /\ req \in [Requests -> Request \union {None}]
    /\ DOMAIN batch \subseteq Users /\ batch \in [DOMAIN batch -> Row]
    /\ requests \in 0 .. MaxRequests
    /\ used \subseteq Users \X Codes
    /\ stale \subseteq Users

NoBatch == [u \in {} |-> None]

Init ==
    /\ user = [u \in Users |-> None]
    /\ newcomer = {} /\ mailed = {}
    /\ now = 0
    /\ req = [r \in Requests |-> None]
    /\ batch = NoBatch
    /\ requests = 0
    /\ used = {} /\ stale = {}

-----------------------------------------------------------------------------
(* What a request does to the row it has read.                              *)

Expired(r) == r.madeAt # None /\ now > r.madeAt

CheckConfirmationCode(r, c) == r.code # None /\ ~Expired(r) /\ c = r.code

\* Mutant of ClearConfirmationCode: the time is left.
ClearOnlyCode(r) == [r EXCEPT !.code = None]

ClearConfirmationCode(r) == [r EXCEPT !.code = None, !.madeAt = None]

ConfirmEmail(r) == ClearConfirmationCode([r EXCEPT !.verified = TRUE])

\* Mutant of ResetSecret: the code stays.
ResetSecretOnly(r, s) == [r EXCEPT !.secret = s]

ResetSecret(r, s) == ClearConfirmationCode([r EXCEPT !.secret = s])

\* Every code that was made has been mailed.
Unseen == {c \in Codes : \A u \in Users : <<u, c>> \notin mailed}

\* The code in the row is sent again, with a new time.
CreateConfirmationCode(r) ==
    {[r EXCEPT !.code = c, !.madeAt = now] : c \in IF r.code = None THEN Unseen ELSE {r.code}}

-----------------------------------------------------------------------------
(* Requests.                                                                *)

Insert(u) ==
    /\ user[u] = None /\ u \notin newcomer
    /\ \A c \in Codes : <<u, c>> \notin mailed    \* identifiers are not reused

\* The row, its code and the mail belong to one request; nobody else sees
\* the row before it is committed.
CreateUser(u, c) ==
    /\ requests < MaxRequests /\ requests' = requests + 1
    /\ Insert(u)
    /\ c \in Unseen
    /\ mailed' = mailed \union {<<u, c>>}
    /\ user' = [user EXCEPT ![u] =
           [verified |-> FALSE, code |-> c, madeAt |-> now,
            secret |-> CHOOSE s \in Secrets : TRUE, otp |-> "off"]]
    /\ UNCHANGED <<newcomer, now, req, batch, used, stale>>

\* A user knows the codes that were mailed.
Begin(r, u, op, c) ==
    /\ requests < MaxRequests /\ requests' = requests + 1
    /\ req[r] = None /\ user[u] # None
    /\ IF op \in {"confirm", "reset"} THEN <<u, c>> \in mailed ELSE c = None
    /\ req' = [req EXCEPT ![r] = [op |-> op, user |-> u, row |-> user[u], code |-> c]]
    /\ UNCHANGED <<user, newcomer, mailed, now, batch, used, stale>>

Ends(r) == req' = [req EXCEPT ![r] = None]

\* The row still exists; it becomes what the request made of its copy.
Save(r, new) ==
    /\ user[req[r].user] # None
    /\ user' = [user EXCEPT ![req[r].user] = new]
    /\ stale' = IF user[req[r].user] = req[r].row THEN stale ELSE stale \union {req[r].user}
    /\ used' = IF req[r].code = None THEN used
               ELSE used \union {<<req[r].user, req[r].code>>}
    /\ Ends(r)

Does(r, op) == req[r] # None /\ req[r].op = op

Rename(r) ==
    /\ Does(r, "rename")
    /\ Save(r, req[r].row)
    /\ UNCHANGED <<newcomer, mailed, now, batch, requests>>

\* resend_email_confirmation, send_reset_password_code.  The mail leaves
\* before the commit.
Send(r, new) ==
    /\ Does(r, "send")
    /\ new \in CreateConfirmationCode(req[r].row)
    /\ Save(r, new)
    /\ mailed' = mailed \union {<<req[r].user, new.code>>}
    /\ UNCHANGED <<newcomer, now, batch, requests>>

\* The mail has left and the transaction is lost.
SendLost(r, new) ==
    /\ Does(r, "send")
    /\ new \in CreateConfirmationCode(req[r].row)
    /\ user[req[r].user] # None
    /\ mailed' = mailed \union {<<req[r].user, new.code>>}
    /\ Ends(r)
    /\ UNCHANGED <<user, newcomer, now, batch, requests, used, stale>>

\* Mutant of Newcomers: a confirmation by an administrator has no binding.
NewcomersByCode(r) ==
    IF Does(r, "confirm") THEN newcomer \union {req[r].user} ELSE newcomer

\* make_newcomer, in the transaction that sets email_verified.
Newcomers(r) == newcomer \union {req[r].user}

Confirm(r) ==
    /\ \/ Does(r, "confirm") /\ CheckConfirmationCode(req[r].row, req[r].code)
       \/ Does(r, "force")
    /\ Save(r, ConfirmEmail(req[r].row))
    /\ newcomer' = Newcomers(r)
    /\ UNCHANGED <<mailed, now, batch, requests>>

\* reset_secret, with a code or with the permission to do without.
Reset(r, s) ==
    /\ \/ Does(r, "reset") /\ CheckConfirmationCode(req[r].row, req[r].code)
       \/ Does(r, "set")
    /\ Save(r, ResetSecret(req[r].row, s))
    /\ UNCHANGED <<newcomer, mailed, now, batch, requests>>

ChangePassword(r, s) ==
    /\ Does(r, "password")
    /\ Save(r, [req[r].row EXCEPT !.secret = s])
    /\ UNCHANGED <<newcomer, mailed, now, batch, requests>>

Otp(r) ==
    /\ \/ /\ Does(r, "enable") /\ req[r].row.otp # "on"
          /\ Save(r, [req[r].row EXCEPT !.otp = "offered"])
       \/ /\ Does(r, "activate") /\ req[r].row.otp = "offered"
          /\ Save(r, [req[r].row EXCEPT !.otp = "on"])
       \/ /\ Does(r, "disable")
          /\ Save(r, [req[r].row EXCEPT !.otp = "off"])
    /\ UNCHANGED <<newcomer, mailed, now, batch, requests>>

\* The bindings go first.  One that was inserted after they were read makes
\* the delete of the user fail.
DeleteUser(r) ==
    /\ Does(r, "delete")
    /\ Save(r, None)
    /\ newcomer' = newcomer \ {req[r].user}
    /\ UNCHANGED <<mailed, now, batch, requests>>

\* Refused by a check (wrong code or password, OTP in the wrong state), the
\* row is gone, or the process dies.
Fail(r) ==
    /\ req[r] # None
    /\ Ends(r)
    /\ UNCHANGED <<user, newcomer, mailed, now, batch, requests, used, stale>>

Finish(r) ==
    \/ Rename(r) \/ Confirm(r) \/ Otp(r) \/ DeleteUser(r) \/ Fail(r)
    \/ \E s \in Secrets : Reset(r, s) \/ ChangePassword(r, s)
    \/ req[r] # None /\ \E new \in CreateConfirmationCode(req[r].row) :
           Send(r, new) \/ SendLost(r, new)

-----------------------------------------------------------------------------
(* Time and the janitor.                                                    *)

Pass ==
    /\ now < MaxNow
    /\ now' = now + 1
    /\ UNCHANGED <<user, newcomer, mailed, req, batch, requests, used, stale>>

\* Mutant of Bad: only codes without a time.
BadUntimed(r) == r.code # None /\ r.madeAt = None

\* Expired codes, and codes without a time.
Bad(r) == Expired(r) \/ (r.code # None /\ r.madeAt = None)

JanitorRead ==
    /\ batch = NoBatch
    /\ batch' = [u \in {v \in Users : user[v] # None /\ Bad(user[v])} |-> user[u]]
    /\ UNCHANGED <<user, newcomer, mailed, now, req, requests, used, stale>>

\* One transaction; a row that is gone fails it.
JanitorClear ==
    /\ batch # NoBatch
    /\ batch' = NoBatch
    /\ user' = IF \E u \in DOMAIN batch : user[u] = None THEN user
               ELSE [u \in Users |-> IF u \in DOMAIN batch
                        THEN ClearConfirmationCode(batch[u]) ELSE user[u]]
    /\ stale' = stale \union {u \in DOMAIN batch : user[u] # batch[u]}
    /\ UNCHANGED <<newcomer, mailed, now, req, requests, used>>

Janitor == JanitorRead \/ JanitorClear

-----------------------------------------------------------------------------
Api ==
    \/ \E u \in Users, c \in Codes : CreateUser(u, c)
    \/ \E r \in Requests :
        \/ Finish(r)
        \/ \E u \in Users, op \in Ops, c \in Codes \union {None} : Begin(r, u, op, c)

Next == Api \/ Pass \/ Janitor

Spec == Init /\ [][Next]_vars
\* The janitor runs every hour for ever.
FairSpec == Spec /\ WF_vars(Janitor)

-----------------------------------------------------------------------------
\* Whoever is verified has the role of a newcomer, without which a verified
\* user may do nothing, whatever requests and janitor overwrite.
VerifiedIsNewcomer == \A u \in Users :
    user[u] # None /\ user[u].verified => u \in newcomer

\* A code that confirmed an address or reset a password is not in the row
\* any more - one code serves both - unless someone wrote the row from a copy
\* that was out of date (models.py:548).
UsedCodesAreDead == \A u \in Users \ stale : \A c \in Codes :
    <<u, c>> \in used /\ user[u] # None => user[u].code # c

NoneIsOld == \A u \in Users : user[u] # None => ~Expired(user[u])

\* Codes that have expired are cleared in the end, whatever requests put back.
OldCodesAreCleared == <>[]NoneIsOld
=============================================================================
