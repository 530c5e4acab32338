--------------------------- MODULE ServicesProofs ---------------------------
(***************************************************************************)
(* Proofs about parts of Services, for every value of its constants.       *)
(*                                                                         *)
(* Accounts: what requests and the janitor may overwrite.  Whoever is      *)
(* verified is a newcomer, and a code that was used is dead unless someone *)
(* wrote the row from an old copy.  A row may be written from a copy read  *)
(* long before, by a request or by the janitor, so whatever is claimed of  *)
(* rows has to hold of the copies, and a copy must not survive into        *)
(* another life of its user.                                               *)
(*                                                                         *)
(* Elements: whatever requests, the builder and the agents do, the tables  *)
(* of the element manager keep their foreign keys, and the resources of an *)
(* element are those of the manifest that is installed.                    *)
(*                                                                         *)
(* SSH keys and sessions: nothing refers to what is gone, though a pass or *)
(* a request writes what it made of rows that may be gone by then.         *)
(***************************************************************************)
EXTENDS DataProofs, Sequences, FiniteSetTheorems, WellFoundedInduction

-----------------------------------------------------------------------------
(* Accounts.                                                               *)

IsMailed(u) == \E c \in Codes : <<u, c>> \in mailed

CopiesTimed ==
    /\ \A r \in Requests : req[r] # None => Accounts!Timed(req[r].row)
    /\ \A u \in DOMAIN batch : Accounts!Timed(batch[u])

\* A user who had a row once, or a copy of it, has got mail: identifiers are not
\* reused, so a copy is never one of a user who was inserted later.
KnownInv ==
    /\ \A u \in Users : user[u] # None => IsMailed(u)
    /\ \A u \in DOMAIN batch : IsMailed(u)
    /\ \A r \in Requests : req[r] # None => IsMailed(req[r].user)

\* The copies have the role too, as long as there is a row to overwrite.
RoleInv ==
    /\ \A u \in Users : user[u] # None /\ user[u].verified => u \in newcomer
    /\ \A u \in DOMAIN batch : user[u] # None /\ batch[u].verified => u \in newcomer
    /\ \A r \in Requests :
           req[r] # None /\ user[req[r].user] # None /\ req[r].row.verified =>
               req[r].user \in newcomer

\* Only two kinds of requests have a code, one that was mailed.
CodeInv ==
    \A r \in Requests : req[r] # None /\ req[r].code # None =>
        req[r].op \in {"confirm", "reset"} /\ <<req[r].user, req[r].code>> \in mailed

AccountsInv == /\ Accounts!TypeOK /\ CopiesTimed /\ KnownInv /\ RoleInv /\ CodeInv
               /\ used \subseteq mailed /\ Accounts!UsedCodesAreDead

LEMMA InitAccountsInv == Accounts!AccountsAssumption /\ Accounts!Init => AccountsInv
<1>. SUFFICES ASSUME Accounts!AccountsAssumption, Accounts!Init PROVE AccountsInv
  OBVIOUS
<1>1. /\ user = [u \in Users |-> None] /\ req = [r \in Requests |-> None]
      /\ newcomer = {} /\ mailed = {} /\ now = 0 /\ requests = 0 /\ used = {} /\ stale = {}
      /\ batch = Accounts!NoBatch
  BY DEF Accounts!Init
<1>2. DOMAIN batch = {} /\ batch \in [DOMAIN batch -> Accounts!Row]
  BY <1>1 DEF Accounts!NoBatch
<1>3. Accounts!TypeOK
  BY <1>1, <1>2 DEF Accounts!TypeOK, Accounts!AccountsAssumption
<1>. QED
  BY <1>1, <1>2, <1>3 DEF AccountsInv, CopiesTimed, KnownInv, RoleInv, CodeInv, Accounts!UsedCodesAreDead

-----------------------------------------------------------------------------
(* What a request writes.                                                  *)

\* The row a request writes has a role if it is verified, and no code that was
\* used, unless the copy had it.
Writes(r, new) ==
    /\ new # None =>
           /\ new \in Accounts!Row /\ Accounts!Timed(new)
           /\ new.verified => req[r].row.verified \/ req[r].user \in newcomer'
           /\ new.code # None =>
                  /\ req[r].code = None
                  /\ new.code = req[r].row.code \/ <<req[r].user, new.code>> \notin mailed
    /\ newcomer \subseteq newcomer' \union (IF new = None THEN {req[r].user} ELSE {})
    /\ newcomer' \subseteq Users

LEMMA SaveKeeps ==
    ASSUME Accounts!AccountsAssumption, AccountsInv, NEW r \in Requests, req[r] # None,
           NEW new, Accounts!Save(r, new), Writes(r, new),
           mailed \subseteq mailed', mailed' \subseteq Users \X Codes,
           UNCHANGED <<now, batch, requests>>
    PROVE  AccountsInv'
<1>. DEFINE u == req[r].user
<1>1. /\ user[u] # None
      /\ user' = [user EXCEPT ![u] = new]
      /\ stale' = IF user[u] = req[r].row THEN stale ELSE stale \union {u}
      /\ used' = IF req[r].code = None THEN used ELSE used \union {<<u, req[r].code>>}
      /\ req' = [req EXCEPT ![r] = None]
  BY DEF Accounts!Save, Accounts!Ends
<1>2. /\ u \in Users /\ req[r] \in Accounts!Request /\ req[r].row \in Accounts!Row
      /\ user \in [Users -> Accounts!Row \union {None}]
      /\ req \in [Requests -> Accounts!Request \union {None}]
  BY DEF AccountsInv, Accounts!TypeOK, Accounts!Request
<1>3. \A v \in Users : user'[v] = IF v = u THEN new ELSE user[v]
  BY <1>1, <1>2
<1>4. \A s \in Requests : req'[s] # None => req'[s] = req[s] /\ s # r
  BY <1>1, <1>2
<1>5. used' \subseteq mailed'
  BY <1>1 DEF AccountsInv, CodeInv
<1>6. Accounts!TypeOK'
  <2>1. user' \in [Users -> Accounts!Row \union {None}]
    BY <1>1, <1>2 DEF Writes
  <2>2. \A v \in Users : user'[v] # None => Accounts!Timed(user'[v])
    BY <1>3 DEF Writes, AccountsInv, Accounts!TypeOK
  <2>3. req' \in [Requests -> Accounts!Request \union {None}]
    BY <1>1, <1>2
  <2>4. used' \subseteq Users \X Codes /\ stale' \subseteq Users
    BY <1>1, <1>2, <1>5 DEF AccountsInv, Accounts!TypeOK
  <2>5. newcomer' \subseteq Users
    BY DEF Writes
  <2>6. now' \in 0 .. MaxNow /\ requests' \in 0 .. MaxRequests
        /\ DOMAIN batch' \subseteq Users /\ batch' \in [DOMAIN batch' -> Accounts!Row]
    BY DEF AccountsInv, Accounts!TypeOK
  <2>. QED
    BY <2>1, <2>2, <2>3, <2>4, <2>5, <2>6 DEF Accounts!TypeOK
<1>7. CopiesTimed'
  BY <1>4 DEF AccountsInv, CopiesTimed
<1>8. KnownInv'
  BY <1>1, <1>2, <1>3, <1>4 DEF AccountsInv, KnownInv, IsMailed
<1>9. RoleInv'
  <2>1. ASSUME NEW v \in Users, user'[v] # None PROVE user[v] # None /\ (v \in newcomer => v \in newcomer')
    BY <1>1, <1>3, <2>1 DEF Writes
  <2>2. ASSUME NEW v \in Users, user'[v] # None, user'[v].verified PROVE v \in newcomer'
    <3>1. CASE v = u
      BY <1>1, <1>2, <1>3, <2>1, <2>2, <3>1 DEF Writes, AccountsInv, RoleInv
    <3>2. CASE v # u
      BY <1>3, <2>1, <2>2, <3>2 DEF AccountsInv, RoleInv
    <3>. QED
      BY <3>1, <3>2
  <2>3. ASSUME NEW v \in DOMAIN batch', user'[v] # None, batch'[v].verified PROVE v \in newcomer'
    BY <2>1, <2>3 DEF AccountsInv, RoleInv, Accounts!TypeOK
  <2>4. ASSUME NEW s \in Requests, req'[s] # None, user'[req'[s].user] # None, req'[s].row.verified
        PROVE  req'[s].user \in newcomer'
    <3>1. req'[s] = req[s] /\ req[s] # None /\ req[s].user \in Users
      BY <1>2, <1>4, <2>4 DEF Accounts!Request
    <3>. QED
      BY <2>1, <2>4, <3>1 DEF AccountsInv, RoleInv
  <2>. QED
    BY <2>2, <2>3, <2>4 DEF RoleInv
<1>10. CodeInv'
  BY <1>4 DEF AccountsInv, CodeInv
<1>11. Accounts!UsedCodesAreDead'
  <2>. SUFFICES ASSUME NEW v \in Users, v \notin stale', NEW c \in Codes, <<v, c>> \in used', user'[v] # None
                PROVE  user'[v].code # c
    BY DEF Accounts!UsedCodesAreDead
  <2>1. CASE v # u
    BY <1>1, <1>3, <2>1 DEF AccountsInv, Accounts!UsedCodesAreDead
  <2>2. CASE v = u
    <3>1. user'[v] = new /\ new # None /\ user[v] = req[r].row /\ v \notin stale
      BY <1>1, <1>3, <2>2
    <3>2. CASE new.code = None
      BY <3>1, <3>2 DEF Accounts!AccountsAssumption
    <3>3. CASE new.code # None
      <4>1. /\ req[r].code = None
            /\ new.code = req[r].row.code \/ <<v, new.code>> \notin mailed
        BY <2>2, <3>1, <3>3 DEF Writes
      <4>2. <<v, c>> \in used
        BY <1>1, <4>1
      <4>. QED
        BY <1>1, <2>2, <3>1, <4>1, <4>2 DEF AccountsInv, Accounts!UsedCodesAreDead
    <3>. QED
      BY <3>2, <3>3
  <2>. QED
    BY <2>1, <2>2
<1>. QED
  BY <1>5, <1>6, <1>7, <1>8, <1>9, <1>10, <1>11 DEF AccountsInv

\* What the operators on a row do to what the invariant says of it.
LEMMA RowOperators ==
    ASSUME Accounts!AccountsAssumption, NEW x \in Accounts!Row, Accounts!Timed(x)
    PROVE  /\ \A s \in Passwords : [x EXCEPT !.secret = s] \in Accounts!Row
                  /\ Accounts!Timed([x EXCEPT !.secret = s])
                  /\ [x EXCEPT !.secret = s].code = x.code
                  /\ [x EXCEPT !.secret = s].verified = x.verified
           /\ \A o \in {"off", "offered", "on"} : [x EXCEPT !.otp = o] \in Accounts!Row
                  /\ Accounts!Timed([x EXCEPT !.otp = o])
                  /\ [x EXCEPT !.otp = o].code = x.code
                  /\ [x EXCEPT !.otp = o].verified = x.verified
           /\ Accounts!ClearConfirmationCode(x) \in Accounts!Row /\ Accounts!Timed(Accounts!ClearConfirmationCode(x))
           /\ Accounts!ClearConfirmationCode(x).code = None
           /\ Accounts!ClearConfirmationCode(x).verified = x.verified
<1>1. ASSUME NEW s \in Passwords
      PROVE  /\ [x EXCEPT !.secret = s] \in Accounts!Row
             /\ Accounts!Timed([x EXCEPT !.secret = s])
             /\ [x EXCEPT !.secret = s].code = x.code
             /\ [x EXCEPT !.secret = s].verified = x.verified
  BY DEF Accounts!Row, Accounts!Timed
<1>2. ASSUME NEW o \in {"off", "offered", "on"}
      PROVE  /\ [x EXCEPT !.otp = o] \in Accounts!Row
             /\ Accounts!Timed([x EXCEPT !.otp = o])
             /\ [x EXCEPT !.otp = o].code = x.code
             /\ [x EXCEPT !.otp = o].verified = x.verified
  BY DEF Accounts!Row, Accounts!Timed
<1>3. /\ Accounts!ClearConfirmationCode(x) \in Accounts!Row /\ Accounts!Timed(Accounts!ClearConfirmationCode(x))
      /\ Accounts!ClearConfirmationCode(x).code = None
      /\ Accounts!ClearConfirmationCode(x).verified = x.verified
  BY DEF Accounts!Row, Accounts!Timed, Accounts!ClearConfirmationCode
<1>. QED
  BY <1>1, <1>2, <1>3

\* What a confirmation or a reset makes of the copy.
LEMMA ClearedRow ==
    ASSUME Accounts!AccountsAssumption, NEW x \in Accounts!Row
    PROVE  /\ Accounts!ConfirmEmail(x) \in Accounts!Row /\ Accounts!Timed(Accounts!ConfirmEmail(x)) /\ Accounts!ConfirmEmail(x).code = None
           /\ \A s \in Passwords : /\ Accounts!ResetSecret(x, s) \in Accounts!Row /\ Accounts!Timed(Accounts!ResetSecret(x, s))
                                   /\ Accounts!ResetSecret(x, s).code = None
                                   /\ Accounts!ResetSecret(x, s).verified = x.verified
<1>1. ASSUME NEW y \in Accounts!Row
      PROVE  /\ Accounts!ClearConfirmationCode(y) \in Accounts!Row /\ Accounts!Timed(Accounts!ClearConfirmationCode(y))
             /\ Accounts!ClearConfirmationCode(y).code = None
             /\ Accounts!ClearConfirmationCode(y).verified = y.verified
  BY DEF Accounts!Row, Accounts!Timed, Accounts!ClearConfirmationCode
<1>2. [x EXCEPT !.verified = TRUE] \in Accounts!Row
  BY DEF Accounts!Row
<1>3. ASSUME NEW s \in Passwords
      PROVE  [x EXCEPT !.secret = s] \in Accounts!Row /\ [x EXCEPT !.secret = s].verified = x.verified
  BY DEF Accounts!Row
<1>4. Accounts!ConfirmEmail(x) \in Accounts!Row /\ Accounts!Timed(Accounts!ConfirmEmail(x)) /\ Accounts!ConfirmEmail(x).code = None
  BY <1>1, <1>2 DEF Accounts!ConfirmEmail
<1>5. ASSUME NEW s \in Passwords
      PROVE  /\ Accounts!ResetSecret(x, s) \in Accounts!Row /\ Accounts!Timed(Accounts!ResetSecret(x, s))
             /\ Accounts!ResetSecret(x, s).code = None
             /\ Accounts!ResetSecret(x, s).verified = x.verified
  <2>. DEFINE y == [x EXCEPT !.secret = s]
  <2>1. y \in Accounts!Row /\ y.verified = x.verified
    BY <1>3
  <2>2. Accounts!ResetSecret(x, s) = Accounts!ClearConfirmationCode(y)
    BY DEF Accounts!ResetSecret
  <2>. HIDE DEF y
  <2>. QED
    BY <1>1, <2>1, <2>2
<1>. QED
  BY <1>4, <1>5

\* A code that is made anew was mailed to nobody.
LEMMA MadeCode ==
    ASSUME Accounts!AccountsAssumption, Accounts!TypeOK, NEW x \in Accounts!Row, NEW new \in Accounts!CreateConfirmationCode(x)
    PROVE  /\ new \in Accounts!Row /\ Accounts!Timed(new) /\ new.code \in Codes /\ new.verified = x.verified
           /\ new.code = x.code \/ \A u \in Users : <<u, new.code>> \notin mailed
<1>1. PICK c \in IF x.code = None THEN Accounts!Unseen ELSE {x.code} :
          new = [x EXCEPT !.code = c, !.madeAt = now]
  BY Zenon DEF Accounts!CreateConfirmationCode
<1>2. c \in Codes /\ (c = x.code \/ \A u \in Users : <<u, c>> \notin mailed)
  BY <1>1 DEF Accounts!Unseen, Accounts!Row
<1>3. now \in 0 .. MaxNow /\ now # None /\ c # None
  BY <1>2 DEF Accounts!TypeOK, Accounts!AccountsAssumption
<1>. QED
  BY <1>1, <1>2, <1>3 DEF Accounts!Row, Accounts!Timed

\* The copy of a request is as good as a row.
LEMMA Copied ==
    ASSUME AccountsInv, NEW r \in Requests, req[r] # None
    PROVE  req[r] \in Accounts!Request /\ req[r].user \in Users /\ req[r].row \in Accounts!Row /\ Accounts!Timed(req[r].row)
BY DEF AccountsInv, Accounts!TypeOK, CopiesTimed, Accounts!Request

LEMMA NoCode ==
    ASSUME AccountsInv, NEW r \in Requests, req[r] # None, req[r].op \notin {"confirm", "reset"}
    PROVE  req[r].code = None
BY DEF AccountsInv, CodeInv

LEMMA FinishKeeps ==
    ASSUME Accounts!AccountsAssumption, AccountsInv, NEW r \in Requests, Accounts!Finish(r)
    PROVE  AccountsInv'
<1>0. /\ mailed \subseteq Users \X Codes /\ newcomer \subseteq Users
      /\ Accounts!TypeOK
  BY DEF AccountsInv, Accounts!TypeOK
<1>1. CASE Accounts!Rename(r)
  <2>1. req[r] # None /\ Accounts!Save(r, req[r].row) /\ UNCHANGED <<newcomer, mailed, now, batch, requests>>
    BY <1>1 DEF Accounts!Rename, Accounts!Does
  <2>2. Writes(r, req[r].row)
    BY <1>0, <1>1, <2>1, Copied, NoCode DEF Writes, Accounts!Rename, Accounts!Does
  <2>. QED
    BY <1>0, <2>1, <2>2, SaveKeeps
<1>2. CASE Accounts!Confirm(r)
  <2>1. /\ req[r] # None /\ Accounts!Save(r, Accounts!ConfirmEmail(req[r].row))
        /\ newcomer' = newcomer \union {req[r].user}
        /\ UNCHANGED <<mailed, now, batch, requests>>
    BY <1>2 DEF Accounts!Confirm, Accounts!Does, Accounts!Newcomers
  <2>2. Writes(r, Accounts!ConfirmEmail(req[r].row))
    BY <1>0, <2>1, Copied, ClearedRow DEF Writes
  <2>. QED
    BY <1>0, <2>1, <2>2, SaveKeeps
<1>3. CASE Accounts!Otp(r)
  <2>1. PICK o \in {"off", "offered", "on"} :
            /\ req[r] # None /\ req[r].op \notin {"confirm", "reset"}
            /\ Accounts!Save(r, [req[r].row EXCEPT !.otp = o])
            /\ UNCHANGED <<newcomer, mailed, now, batch, requests>>
    BY <1>3 DEF Accounts!Otp, Accounts!Does
  <2>2. Writes(r, [req[r].row EXCEPT !.otp = o])
    <3>. DEFINE new == [req[r].row EXCEPT !.otp = o]
    <3>1. /\ new \in Accounts!Row /\ Accounts!Timed(new) /\ new.code = req[r].row.code
          /\ new.verified = req[r].row.verified
      BY <2>1, Copied, RowOperators
    <3>2. req[r].code = None
      BY <2>1, NoCode
    <3>. HIDE DEF new
    <3>3. Writes(r, new)
      BY <1>0, <2>1, <3>1, <3>2 DEF Writes
    <3>. QED
      BY <3>3 DEF new
  <2>. QED
    BY <1>0, <2>1, <2>2, SaveKeeps
<1>4. CASE Accounts!DeleteUser(r)
  <2>1. /\ req[r] # None /\ Accounts!Save(r, None) /\ newcomer' = newcomer \ {req[r].user}
        /\ UNCHANGED <<mailed, now, batch, requests>>
    BY <1>4 DEF Accounts!DeleteUser, Accounts!Does
  <2>2. Writes(r, None)
    BY <1>0, <2>1 DEF Writes
  <2>. QED
    BY <1>0, <2>1, <2>2, SaveKeeps
<1>5. ASSUME req[r] # None, Accounts!Ends(r), mailed \subseteq mailed', mailed' \subseteq Users \X Codes,
             UNCHANGED <<user, newcomer, now, batch, requests, used, stale>>
      PROVE  AccountsInv'
  <2>1. /\ req \in [Requests -> Accounts!Request \union {None}]
        /\ req' = [req EXCEPT ![r] = None]
    BY <1>0, <1>5 DEF Accounts!TypeOK, Accounts!Ends
  <2>2. \A s \in Requests : req'[s] # None => req'[s] = req[s]
    BY <2>1
  <2>3. Accounts!TypeOK'
    BY <1>0, <1>5, <2>1 DEF Accounts!TypeOK
  <2>4. CopiesTimed' /\ KnownInv' /\ RoleInv' /\ CodeInv'
    BY <1>5, <2>2 DEF AccountsInv, CopiesTimed, KnownInv, IsMailed, RoleInv, CodeInv
  <2>5. used' \subseteq mailed' /\ Accounts!UsedCodesAreDead'
    BY <1>5 DEF AccountsInv, Accounts!UsedCodesAreDead
  <2>. QED
    BY <2>3, <2>4, <2>5 DEF AccountsInv
<1>6. CASE Accounts!Fail(r)
  BY <1>0, <1>5, <1>6 DEF Accounts!Fail
<1>7. ASSUME NEW s \in Passwords, Accounts!Reset(r, s) PROVE AccountsInv'
  <2>1. /\ req[r] # None /\ Accounts!Save(r, Accounts!ResetSecret(req[r].row, s))
        /\ UNCHANGED <<newcomer, mailed, now, batch, requests>>
    BY <1>7 DEF Accounts!Reset, Accounts!Does
  <2>2. Writes(r, Accounts!ResetSecret(req[r].row, s))
    BY <1>0, <2>1, Copied, ClearedRow DEF Writes
  <2>. QED
    BY <1>0, <2>1, <2>2, SaveKeeps
<1>8. ASSUME NEW s \in Passwords, Accounts!ChangePassword(r, s) PROVE AccountsInv'
  <2>1. /\ req[r] # None /\ req[r].op = "password"
        /\ Accounts!Save(r, [req[r].row EXCEPT !.secret = s])
        /\ UNCHANGED <<newcomer, mailed, now, batch, requests>>
    BY <1>8 DEF Accounts!ChangePassword, Accounts!Does
  <2>2. Writes(r, [req[r].row EXCEPT !.secret = s])
    BY <1>0, <2>1, Copied, NoCode, RowOperators DEF Writes
  <2>. QED
    BY <1>0, <2>1, <2>2, SaveKeeps
<1>9. ASSUME req[r] # None, NEW new \in Accounts!CreateConfirmationCode(req[r].row),
             Accounts!Send(r, new) \/ Accounts!SendLost(r, new)
      PROVE  AccountsInv'
  <2>1. /\ new \in Accounts!Row /\ Accounts!Timed(new) /\ new.code \in Codes
        /\ new.verified = req[r].row.verified
        /\ new.code = req[r].row.code \/ \A u \in Users : <<u, new.code>> \notin mailed
    BY <1>0, <1>9, Copied, MadeCode
  <2>2. /\ mailed' = mailed \union {<<req[r].user, new.code>>}
        /\ mailed \subseteq mailed' /\ mailed' \subseteq Users \X Codes
    BY <1>0, <1>9, <2>1, Copied DEF Accounts!Send, Accounts!SendLost
  <2>3. CASE Accounts!Send(r, new)
    <3>1. /\ Accounts!Save(r, new) /\ req[r].op = "send"
          /\ UNCHANGED <<newcomer, now, batch, requests>>
      BY <2>3 DEF Accounts!Send, Accounts!Does
    <3>2. Writes(r, new)
      BY <1>0, <1>9, <2>1, <3>1, Copied, NoCode DEF Writes
    <3>. QED
      BY <1>9, <2>2, <3>1, <3>2, SaveKeeps
  <2>4. CASE Accounts!SendLost(r, new)
    BY <1>5, <1>9, <2>2, <2>4 DEF Accounts!SendLost
  <2>. QED
    BY <1>9, <2>3, <2>4
<1>. QED
  BY <1>1, <1>2, <1>3, <1>4, <1>6, <1>7, <1>8, <1>9 DEF Accounts!Finish

-----------------------------------------------------------------------------
(* New rows, new requests, time and the janitor.                           *)

LEMMA CreateUserKeeps ==
    ASSUME Accounts!AccountsAssumption, AccountsInv, NEW u \in Users, NEW c \in Codes, Accounts!CreateUser(u, c)
    PROVE  AccountsInv'
<1>. DEFINE new == [verified |-> FALSE, code |-> c, madeAt |-> now,
                    secret |-> CHOOSE s \in Passwords : TRUE, otp |-> "off"]
<1>1. /\ requests < MaxRequests /\ requests' = requests + 1
      /\ user[u] = None /\ ~IsMailed(u)
      /\ mailed' = mailed \union {<<u, c>>}
      /\ user' = [user EXCEPT ![u] = new]
      /\ UNCHANGED <<newcomer, now, req, batch, used, stale>>
  BY DEF Accounts!CreateUser, Accounts!Insert, IsMailed
<1>2. /\ user \in [Users -> Accounts!Row \union {None}] /\ now \in 0 .. MaxNow
      /\ mailed \subseteq Users \X Codes /\ requests \in 0 .. MaxRequests
  BY DEF AccountsInv, Accounts!TypeOK
<1>3. new \in Accounts!Row /\ Accounts!Timed(new) /\ ~new.verified
  <2>1. (CHOOSE s \in Passwords : TRUE) \in Passwords /\ c # None /\ now # None
    BY <1>2 DEF Accounts!AccountsAssumption
  <2>. QED
    BY <1>2, <2>1 DEF Accounts!Row, Accounts!Timed
<1>. HIDE DEF new
<1>4. \A v \in Users : user'[v] = IF v = u THEN new ELSE user[v]
  BY <1>1, <1>2
\* There is no copy of a user who has got no mail.
<1>5. /\ u \notin DOMAIN batch
      /\ \A r \in Requests : req[r] # None => req[r].user # u
  BY <1>1 DEF AccountsInv, KnownInv
<1>6. Accounts!TypeOK'
  <2>1. requests' \in 0 .. MaxRequests
    BY <1>1, <1>2 DEF Accounts!AccountsAssumption
  <2>2. user' \in [Users -> Accounts!Row \union {None}] /\ mailed' \subseteq Users \X Codes
    BY <1>1, <1>2, <1>3
  <2>3. \A v \in Users : user'[v] # None => Accounts!Timed(user'[v])
    BY <1>3, <1>4 DEF AccountsInv, Accounts!TypeOK
  <2>. QED
    BY <1>1, <2>1, <2>2, <2>3 DEF AccountsInv, Accounts!TypeOK
<1>7. CopiesTimed'
  BY <1>1 DEF AccountsInv, CopiesTimed
<1>8. KnownInv'
  <2>1. \A v : IsMailed(v) => IsMailed(v)'
    BY <1>1 DEF IsMailed
  <2>2. IsMailed(u)'
    BY <1>1 DEF IsMailed
  <2>. QED
    BY <1>1, <1>4, <2>1, <2>2 DEF AccountsInv, KnownInv
<1>9. RoleInv'
  <2>1. \A v \in Users : user'[v] # None /\ user'[v].verified => v \in newcomer'
    BY <1>1, <1>3, <1>4 DEF AccountsInv, RoleInv
  <2>2. \A v \in DOMAIN batch' : user'[v] # None /\ batch'[v].verified => v \in newcomer'
    BY <1>1, <1>4, <1>5 DEF AccountsInv, RoleInv, Accounts!TypeOK
  <2>3. ASSUME NEW r \in Requests, req[r] # None
        PROVE  req[r].user \in Users /\ req[r].user # u
    BY <1>5, <2>3, Copied
  <2>. QED
    BY <1>1, <1>4, <2>1, <2>2, <2>3 DEF AccountsInv, RoleInv
<1>10. CodeInv'
  BY <1>1 DEF AccountsInv, CodeInv
<1>11. used' \subseteq mailed' /\ Accounts!UsedCodesAreDead'
  <2>1. used' \subseteq mailed'
    BY <1>1 DEF AccountsInv
  <2>2. \A d \in Codes : <<u, d>> \notin used
    BY <1>1 DEF AccountsInv, IsMailed
  <2>. QED
    BY <1>1, <1>4, <2>1, <2>2 DEF AccountsInv, Accounts!UsedCodesAreDead
<1>. QED
  BY <1>6, <1>7, <1>8, <1>9, <1>10, <1>11 DEF AccountsInv

LEMMA BeginRequestKeeps ==
    ASSUME Accounts!AccountsAssumption, AccountsInv, NEW r \in Requests, NEW u \in Users, NEW op \in Accounts!Ops,
           NEW c \in Codes \union {None}, Accounts!Begin(r, u, op, c)
    PROVE  AccountsInv'
<1>. DEFINE new == [op |-> op, user |-> u, row |-> user[u], code |-> c]
<1>1. /\ requests < MaxRequests /\ requests' = requests + 1
      /\ user[u] # None
      /\ IF op \in {"confirm", "reset"} THEN <<u, c>> \in mailed ELSE c = None
      /\ req' = [req EXCEPT ![r] = new]
      /\ UNCHANGED <<user, newcomer, mailed, now, batch, used, stale>>
  BY DEF Accounts!Begin
<1>2. /\ user[u] \in Accounts!Row /\ Accounts!Timed(user[u]) /\ req \in [Requests -> Accounts!Request \union {None}]
      /\ requests \in 0 .. MaxRequests
  BY <1>1 DEF AccountsInv, Accounts!TypeOK
<1>3. /\ new \in Accounts!Request /\ new.user = u /\ new.row = user[u] /\ new.code = c /\ new.op = op
  BY <1>2 DEF Accounts!Request
<1>. HIDE DEF new
<1>4. \A s \in Requests : req'[s] = IF s = r THEN new ELSE req[s]
  BY <1>1, <1>2
<1>5. Accounts!TypeOK'
  <2>1. requests' \in 0 .. MaxRequests
    BY <1>1, <1>2 DEF Accounts!AccountsAssumption
  <2>2. req' \in [Requests -> Accounts!Request \union {None}]
    BY <1>1, <1>2, <1>3
  <2>. QED
    BY <1>1, <2>1, <2>2 DEF AccountsInv, Accounts!TypeOK
<1>6. CopiesTimed'
  BY <1>1, <1>2, <1>3, <1>4 DEF AccountsInv, CopiesTimed
<1>7. KnownInv'
  BY <1>1, <1>3, <1>4 DEF AccountsInv, KnownInv, IsMailed
<1>8. RoleInv'
  BY <1>1, <1>3, <1>4 DEF AccountsInv, RoleInv
<1>9. CodeInv'
  BY <1>1, <1>3, <1>4 DEF AccountsInv, CodeInv
<1>10. used' \subseteq mailed' /\ Accounts!UsedCodesAreDead'
  BY <1>1 DEF AccountsInv, Accounts!UsedCodesAreDead
<1>. QED
  BY <1>5, <1>6, <1>7, <1>8, <1>9, <1>10 DEF AccountsInv

LEMMA PassKeeps == Accounts!AccountsAssumption /\ AccountsInv /\ (Accounts!Pass \/ UNCHANGED Accounts!vars) => AccountsInv'
<1>. SUFFICES ASSUME Accounts!AccountsAssumption, AccountsInv, Accounts!Pass \/ UNCHANGED Accounts!vars PROVE AccountsInv'
  OBVIOUS
<1>1. /\ UNCHANGED <<user, newcomer, mailed, req, batch, requests, used, stale>>
      /\ now' \in 0 .. MaxNow
  BY DEF Accounts!Pass, Accounts!vars, AccountsInv, Accounts!TypeOK, Accounts!AccountsAssumption
<1>2. Accounts!TypeOK'
  BY <1>1 DEF AccountsInv, Accounts!TypeOK
<1>3. CopiesTimed' /\ KnownInv' /\ RoleInv' /\ CodeInv' /\ used' \subseteq mailed' /\ Accounts!UsedCodesAreDead'
  BY <1>1 DEF AccountsInv, CopiesTimed, KnownInv, IsMailed, RoleInv, CodeInv, Accounts!UsedCodesAreDead
<1>. QED
  BY <1>2, <1>3 DEF AccountsInv

LEMMA JanitorReadKeeps == Accounts!AccountsAssumption /\ AccountsInv /\ Accounts!JanitorRead => AccountsInv'
<1>. SUFFICES ASSUME Accounts!AccountsAssumption, AccountsInv, Accounts!JanitorRead PROVE AccountsInv'
  OBVIOUS
<1>. DEFINE found == {v \in Users : user[v] # None /\ Accounts!Bad(user[v])}
<1>1. /\ batch' = [u \in found |-> user[u]]
      /\ UNCHANGED <<user, newcomer, mailed, now, req, requests, used, stale>>
  BY DEF Accounts!JanitorRead
<1>2. found \subseteq Users /\ \A u \in found : user[u] # None
  OBVIOUS
<1>. HIDE DEF found
<1>3. DOMAIN batch' = found /\ \A u \in found : batch'[u] = user[u]
  BY <1>1
<1>4. \A u \in found : user[u] \in Accounts!Row /\ Accounts!Timed(user[u])
  BY <1>2 DEF AccountsInv, Accounts!TypeOK
<1>5. Accounts!TypeOK'
  <2>1. batch' \in [found -> Accounts!Row]
    BY <1>1, <1>4
  <2>. QED
    BY <1>1, <1>2, <1>3, <2>1 DEF AccountsInv, Accounts!TypeOK
<1>6. CopiesTimed' /\ CodeInv' /\ used' \subseteq mailed' /\ Accounts!UsedCodesAreDead'
  BY <1>1, <1>3, <1>4 DEF AccountsInv, CopiesTimed, CodeInv, Accounts!UsedCodesAreDead
<1>7. KnownInv'
  BY <1>1, <1>2, <1>3 DEF AccountsInv, KnownInv, IsMailed
<1>8. RoleInv'
  BY <1>1, <1>2, <1>3 DEF AccountsInv, RoleInv
<1>. QED
  BY <1>5, <1>6, <1>7, <1>8 DEF AccountsInv

\* The janitor writes its copies back without their codes: a role or a code that
\* the row has got meanwhile is lost only together with what it stands for.
LEMMA JanitorClearKeeps == Accounts!AccountsAssumption /\ AccountsInv /\ Accounts!JanitorClear => AccountsInv'
<1>. SUFFICES ASSUME Accounts!AccountsAssumption, AccountsInv, Accounts!JanitorClear PROVE AccountsInv'
  OBVIOUS
<1>1. /\ batch' = Accounts!NoBatch
      /\ stale' = stale \union {u \in DOMAIN batch : user[u] # batch[u]}
      /\ UNCHANGED <<newcomer, mailed, now, req, requests, used>>
  BY DEF Accounts!JanitorClear
<1>2. DOMAIN batch' = {} /\ batch' \in [DOMAIN batch' -> Accounts!Row]
  BY <1>1 DEF Accounts!NoBatch
<1>3. /\ user \in [Users -> Accounts!Row \union {None}]
      /\ DOMAIN batch \subseteq Users /\ batch \in [DOMAIN batch -> Accounts!Row]
  BY DEF AccountsInv, Accounts!TypeOK
<1>4. ASSUME NEW u \in DOMAIN batch
      PROVE  /\ Accounts!ClearConfirmationCode(batch[u]) \in Accounts!Row
             /\ Accounts!Timed(Accounts!ClearConfirmationCode(batch[u]))
             /\ Accounts!ClearConfirmationCode(batch[u]).code = None
             /\ Accounts!ClearConfirmationCode(batch[u]).verified = batch[u].verified
  BY <1>3, RowOperators DEF AccountsInv, CopiesTimed
<1>5. /\ user' = [u \in Users |-> user'[u]]
      /\ \A u \in Users : \/ user'[u] = user[u]
                          \/ /\ u \in DOMAIN batch /\ user[u] # None
                             /\ user'[u] = Accounts!ClearConfirmationCode(batch[u])
  <2>1. CASE \E u \in DOMAIN batch : user[u] = None
    BY <1>3, <2>1 DEF Accounts!JanitorClear
  <2>2. CASE ~\E u \in DOMAIN batch : user[u] = None
    <3>1. user' = [u \in Users |-> IF u \in DOMAIN batch
                      THEN Accounts!ClearConfirmationCode(batch[u]) ELSE user[u]]
      BY <2>2 DEF Accounts!JanitorClear
    <3>. QED
      BY <2>2, <3>1
  <2>. QED
    BY <2>1, <2>2
<1>6. Accounts!TypeOK'
  <2>1. user' \in [Users -> Accounts!Row \union {None}]
    BY <1>3, <1>4, <1>5
  <2>2. \A u \in Users : user'[u] # None => Accounts!Timed(user'[u])
    BY <1>4, <1>5 DEF AccountsInv, Accounts!TypeOK
  <2>3. stale' \subseteq Users
    BY <1>1, <1>3 DEF AccountsInv, Accounts!TypeOK
  <2>. QED
    BY <1>1, <1>2, <2>1, <2>2, <2>3 DEF AccountsInv, Accounts!TypeOK
<1>7. \A u \in Users : user'[u] # None => user[u] # None
  BY <1>5
<1>8. CopiesTimed' /\ KnownInv' /\ CodeInv' /\ used' \subseteq mailed'
  BY <1>1, <1>2, <1>7 DEF AccountsInv, CopiesTimed, KnownInv, IsMailed, CodeInv
<1>9. RoleInv'
  <2>1. \A u \in Users : user'[u] # None /\ user'[u].verified => u \in newcomer'
    BY <1>1, <1>4, <1>5 DEF AccountsInv, RoleInv
  <2>2. \A r \in Requests : req[r] # None => req[r].user \in Users
    BY Copied
  <2>. QED
    BY <1>1, <1>2, <1>7, <2>1, <2>2 DEF AccountsInv, RoleInv
<1>10. Accounts!UsedCodesAreDead'
  BY <1>1, <1>4, <1>5 DEF AccountsInv, Accounts!UsedCodesAreDead, Accounts!AccountsAssumption
<1>. QED
  BY <1>6, <1>8, <1>9, <1>10 DEF AccountsInv

-----------------------------------------------------------------------------
(* The theorems.                                                           *)

LEMMA AccountsInvKept == Accounts!AccountsAssumption /\ AccountsInv /\ [Accounts!Next]_Accounts!vars => AccountsInv'
<1>. SUFFICES ASSUME Accounts!AccountsAssumption, AccountsInv, [Accounts!Next]_Accounts!vars PROVE AccountsInv'
  OBVIOUS
<1>1. CASE Accounts!Api
  BY <1>1, CreateUserKeeps, FinishKeeps, BeginRequestKeeps DEF Accounts!Api
<1>2. CASE Accounts!Janitor
  BY <1>2, JanitorReadKeeps, JanitorClearKeeps DEF Accounts!Janitor
<1>3. CASE Accounts!Pass \/ UNCHANGED Accounts!vars
  BY <1>3, PassKeeps
<1>. QED
  BY <1>1, <1>2, <1>3 DEF Accounts!Next

LEMMA AccountsInvHolds == Accounts!AccountsAssumption /\ Accounts!Spec => []AccountsInv
<1>. SUFFICES ASSUME Accounts!AccountsAssumption PROVE Accounts!Spec => []AccountsInv
  OBVIOUS
<1>1. Accounts!Init => AccountsInv
  BY InitAccountsInv
<1>2. AccountsInv /\ [Accounts!Next]_Accounts!vars => AccountsInv'
  BY AccountsInvKept
<1>. QED
  BY <1>1, <1>2, PTL DEF Accounts!Spec

\* Rows are well formed, and a code and its time are set and cleared together
\* (models.py), whatever is written from whatever copy.
THEOREM AccountTypes == Accounts!AccountsAssumption /\ Accounts!Spec => []Accounts!TypeOK
<1>1. AccountsInv => Accounts!TypeOK
  BY DEF AccountsInv
<1>. QED
  BY <1>1, AccountsInvHolds, PTL

\* Whoever is verified has the role of a newcomer (controllers.py): no copy of a
\* deleted user's row comes back, and no copy is verified without the role.
THEOREM TheVerifiedAreNewcomers == Accounts!AccountsAssumption /\ Accounts!Spec => []Accounts!VerifiedIsNewcomer
<1>1. AccountsInv => Accounts!VerifiedIsNewcomer
  BY DEF AccountsInv, RoleInv, Accounts!VerifiedIsNewcomer
<1>. QED
  BY <1>1, AccountsInvHolds, PTL

\* A code that confirmed or reset something is in no row any more, unless the row
\* was written from a copy that was out of date (models.py:548).
THEOREM UsedCodesStayDead == Accounts!AccountsAssumption /\ Accounts!Spec => []Accounts!UsedCodesAreDead
<1>1. AccountsInv => Accounts!UsedCodesAreDead
  BY DEF AccountsInv
<1>. QED
  BY <1>1, AccountsInvHolds, PTL

-----------------------------------------------------------------------------
\* In Services the accounts are as they are by themselves.
LEMMA ServicesRunAccounts == Spec => Accounts!Spec
<1>1. Init => Accounts!Init
  BY DEF Init
<1>2. [Next]_vars => [Accounts!Next]_Accounts!vars
  BY Zenon DEF Next, vars, accounts, Accounts!vars
<1>. QED
  BY <1>1, <1>2, PTL DEF Spec, Accounts!Spec

\* Whoever is verified is a newcomer (run services).
COROLLARY VerifiedIsNewcomerHolds == Spec => []VerifiedIsNewcomer
<1>1. Accounts!VerifiedIsNewcomer => VerifiedIsNewcomer
  BY DEF VerifiedIsNewcomer
<1>. QED
  BY <1>1, TheVerifiedAreNewcomers, ServicesRunAccounts, ConstantsAssumption, PTL DEF ConstantsAssumption

\* A code that was used is dead (run services).
COROLLARY UsedCodesAreDeadHolds == Spec => []UsedCodesAreDead
<1>1. Accounts!UsedCodesAreDead => UsedCodesAreDead
  BY DEF UsedCodesAreDead
<1>. QED
  BY <1>1, UsedCodesStayDead, ServicesRunAccounts, ConstantsAssumption, PTL DEF ConstantsAssumption

-----------------------------------------------------------------------------
(* Elements.                                                               *)

\* TypeOK in parts: the tables, the engine, the foreign keys.
TablesType ==
    /\ installed \in [ElementNames -> Manifests \union {None}]
    /\ status \in [ElementNames -> Elements!Status]
    /\ Elements!PartialFunction(resource, Elements!Keys, Elements!Resource)
    /\ Elements!PartialFunction(import, Elements!ImportKeys, Elements!Keys)
    /\ export \subseteq Elements!Keys

AgentsType ==
    /\ Elements!PartialFunction(target, Elements!Keys, Elements!Rendered)
    /\ Elements!PartialFunction(reported, Elements!Keys, Elements!Actual)
    /\ eEvents \in 0 .. MaxElementEvents /\ lost \subseteq Elements!Keys

SnapType ==
    snap # None => /\ Elements!PartialFunction(snap.row, Elements!Keys, Elements!Resource)
                   /\ Elements!PartialFunction(snap.import, Elements!ImportKeys, DOMAIN snap.row)
                   /\ Elements!PartialFunction(snap.target, Elements!Keys, Elements!Rendered)
                   /\ Elements!PartialFunction(snap.actual, Elements!Keys, Elements!Actual)

InstalledKeys ==
    /\ \A k \in DOMAIN resource : installed[k[1]] # None
    /\ \A i \in DOMAIN import : installed[i[1]] # None /\ import[i] \in DOMAIN resource

TargetKeys ==
    \A k \in DOMAIN resource : /\ resource[k].target => k \in DOMAIN target
                               /\ resource[k].actual => k \in DOMAIN reported

\* The engine was read in one go: its resources have the reports they name.
SnapInv ==
    snap # None => \A k \in DOMAIN snap.row : snap.row[k].actual => k \in DOMAIN snap.actual

LEMMA ElementTypesInParts ==
    Elements!TypeOK <=> TablesType /\ AgentsType /\ SnapType /\ InstalledKeys /\ TargetKeys
BY DEF Elements!TypeOK, TablesType, AgentsType, SnapType, InstalledKeys, TargetKeys

ElementsInv == /\ TablesType /\ AgentsType /\ SnapType /\ InstalledKeys /\ TargetKeys
               /\ SnapInv /\ Elements!ResourcesAreTheManifests

-----------------------------------------------------------------------------
(* Keys and partial functions.                                             *)

LEMMA KeysOfManifest ==
    ASSUME NEW m \in Manifests, NEW k \in Elements!KeysOf(m)
    PROVE  /\ k \in Elements!Keys /\ k[1] = Manifest[m].element
           /\ k[2] \in DOMAIN Manifest[m].resources /\ k = <<k[1], k[2]>>
           /\ Elements!Says(m, k[2]) \in Elements!Values
<1>1. k \in Elements!Keys /\ k[1] = Manifest[m].element /\ k[2] \in DOMAIN Manifest[m].resources
      /\ k = <<k[1], k[2]>>
  BY DEF Elements!KeysOf, Elements!Keys
<1>2. Elements!Says(m, k[2]) \in Elements!Values
  BY <1>1 DEF Elements!Values
<1>. QED
  BY <1>1, <1>2

LEMMA RestrictPartial ==
    ASSUME NEW f, NEW S, NEW T, NEW R, Elements!PartialFunction(f, T, R)
    PROVE  /\ Elements!PartialFunction(Elements!Restrict(f, S), T, R)
           /\ DOMAIN Elements!Restrict(f, S) = DOMAIN f \intersect S
           /\ \A k \in DOMAIN f \intersect S : Elements!Restrict(f, S)[k] = f[k]
BY DEF Elements!PartialFunction, Elements!Restrict

LEMMA RemovePartial ==
    ASSUME NEW f, NEW S, NEW T, NEW R, Elements!PartialFunction(f, T, R)
    PROVE  /\ Elements!PartialFunction(Elements!Restrict(f, DOMAIN f \ S), T, R)
           /\ DOMAIN Elements!Restrict(f, DOMAIN f \ S) = DOMAIN f \ S
           /\ \A k \in DOMAIN f \ S : Elements!Restrict(f, DOMAIN f \ S)[k] = f[k]
BY DEF Elements!PartialFunction, Elements!Restrict

LEMMA EmptyPartial ==
    ASSUME NEW T, NEW R
    PROVE  Elements!PartialFunction(Elements!Empty, T, R) /\ DOMAIN Elements!Empty = {}
BY DEF Elements!PartialFunction, Elements!Empty

LEMMA PartialRange ==
    ASSUME NEW f, NEW T, NEW R, Elements!PartialFunction(f, T, R), NEW k \in DOMAIN f
    PROVE  k \in T /\ f[k] \in R
BY DEF Elements!PartialFunction

LEMMA InitElementsInv == Elements!ElementsAssumption /\ Elements!Init => ElementsInv
<1>. SUFFICES ASSUME Elements!ElementsAssumption, Elements!Init PROVE ElementsInv
  OBVIOUS
<1>1. TablesType /\ AgentsType
  BY EmptyPartial DEF Elements!Init, TablesType, AgentsType, Elements!Status, Elements!ElementsAssumption
<1>2. DOMAIN resource = {} /\ DOMAIN import = {} /\ snap = None
  BY EmptyPartial DEF Elements!Init
<1>3. SnapType /\ SnapInv /\ InstalledKeys /\ TargetKeys
  BY <1>2 DEF SnapType, SnapInv, InstalledKeys, TargetKeys
<1>4. Elements!ResourcesAreTheManifests
  BY <1>2, Elements!ElementsAssumption DEF Elements!Init, Elements!ResourcesAreTheManifests, Elements!Old, Elements!ElementsAssumption
<1>. QED
  BY <1>1, <1>3, <1>4 DEF ElementsInv

-----------------------------------------------------------------------------
(* Requests.                                                               *)

LEMMA AppliedKeys ==
    ASSUME Elements!ElementsAssumption, ElementsInv, NEW m \in Manifests
    PROVE  /\ DOMAIN Elements!AppliedRows(m) = (DOMAIN resource \ Elements!Old(Manifest[m].element)) \union Elements!KeysOf(m)
           /\ Elements!PartialFunction(Elements!AppliedRows(m), Elements!Keys, Elements!Resource)
           /\ \A k \in DOMAIN Elements!AppliedRows(m) :
                  \/ /\ k \in DOMAIN resource /\ k[1] # Manifest[m].element
                     /\ Elements!AppliedRows(m)[k] = resource[k]
                  \/ /\ k \in Elements!KeysOf(m) /\ k \in DOMAIN resource
                     /\ Elements!AppliedRows(m)[k].value = Elements!Says(m, k[2])
                     /\ Elements!AppliedRows(m)[k].target = resource[k].target
                     /\ Elements!AppliedRows(m)[k].actual = resource[k].actual
                  \/ /\ k \in Elements!KeysOf(m) /\ k \notin DOMAIN resource
                     /\ Elements!AppliedRows(m)[k].value = Elements!Says(m, k[2])
                     /\ ~Elements!AppliedRows(m)[k].target /\ ~Elements!AppliedRows(m)[k].actual
<1>. DEFINE e == Manifest[m].element
            S == (DOMAIN resource \ Elements!Old(e)) \union Elements!KeysOf(m)
            changed(k) == [resource[k] EXCEPT !.value = Elements!Says(m, k[2])]
            new(k) == [value |-> Elements!Says(m, k[2]), target |-> FALSE, actual |-> FALSE,
                       full |-> {}, status |-> "NEW"]
<1>1. Elements!AppliedRows(m) = [k \in S |-> IF k[1] # e THEN resource[k]
                                             ELSE IF k \in DOMAIN resource THEN changed(k) ELSE new(k)]
  BY Zenon DEF Elements!AppliedRows
<1>2. Elements!PartialFunction(resource, Elements!Keys, Elements!Resource)
  BY DEF ElementsInv, TablesType
<1>3. ASSUME NEW k \in DOMAIN resource PROVE k \in Elements!Keys /\ resource[k] \in Elements!Resource
  BY <1>2, PartialRange
<1>4. ASSUME NEW k \in S, k[1] # e PROVE k \in DOMAIN resource
  BY <1>4, KeysOfManifest
<1>5. ASSUME NEW k \in S, k[1] = e PROVE k \in Elements!KeysOf(m)
  BY <1>5 DEF Elements!Old
<1>6. ASSUME NEW k \in Elements!KeysOf(m), k \in DOMAIN resource
      PROVE  /\ changed(k) \in Elements!Resource /\ changed(k).value = Elements!Says(m, k[2])
             /\ changed(k).target = resource[k].target /\ changed(k).actual = resource[k].actual
  <2>1. resource[k] \in Elements!Resource /\ Elements!Says(m, k[2]) \in Elements!Values
    BY <1>3, <1>6, KeysOfManifest
  <2>. QED
    BY <2>1 DEF Elements!Resource
<1>7. ASSUME NEW k \in Elements!KeysOf(m)
      PROVE  /\ new(k) \in Elements!Resource /\ new(k).value = Elements!Says(m, k[2])
             /\ ~new(k).target /\ ~new(k).actual
  <2>1. Elements!Says(m, k[2]) \in Elements!Values
    BY KeysOfManifest
  <2>2. {} \in Elements!Rendered
    BY DEF Elements!Rendered
  <2>. QED
    BY <2>1, <2>2 DEF Elements!Resource, Elements!Status
<1>8. S \subseteq Elements!Keys
  BY <1>3, KeysOfManifest
<1>. HIDE DEF S, changed, new, e
<1>9. \A k \in S :
          \/ /\ k \in DOMAIN resource /\ k[1] # e
             /\ Elements!AppliedRows(m)[k] = resource[k]
          \/ /\ k \in Elements!KeysOf(m) /\ k \in DOMAIN resource /\ Elements!AppliedRows(m)[k] = changed(k)
          \/ /\ k \in Elements!KeysOf(m) /\ k \notin DOMAIN resource /\ Elements!AppliedRows(m)[k] = new(k)
  BY <1>1, <1>4, <1>5
<1>10. Elements!AppliedRows(m) \in [S -> Elements!Resource] /\ DOMAIN Elements!AppliedRows(m) = S
  <2>1. \A k \in S : Elements!AppliedRows(m)[k] \in Elements!Resource
    BY <1>3, <1>6, <1>7, <1>9
  <2>. QED
    BY <1>1, <2>1
<1>11. Elements!PartialFunction(Elements!AppliedRows(m), Elements!Keys, Elements!Resource)
  BY <1>8, <1>10 DEF Elements!PartialFunction
<1>12. \A k \in S :
           \/ /\ k \in DOMAIN resource /\ k[1] # e
              /\ Elements!AppliedRows(m)[k] = resource[k]
           \/ /\ k \in Elements!KeysOf(m) /\ k \in DOMAIN resource
              /\ Elements!AppliedRows(m)[k].value = Elements!Says(m, k[2])
              /\ Elements!AppliedRows(m)[k].target = resource[k].target
              /\ Elements!AppliedRows(m)[k].actual = resource[k].actual
           \/ /\ k \in Elements!KeysOf(m) /\ k \notin DOMAIN resource
              /\ Elements!AppliedRows(m)[k].value = Elements!Says(m, k[2])
              /\ ~Elements!AppliedRows(m)[k].target /\ ~Elements!AppliedRows(m)[k].actual
  BY <1>6, <1>7, <1>9
<1>. QED
  BY <1>10, <1>11, <1>12 DEF S, e

LEMMA ApplyKeeps ==
    ASSUME Elements!ElementsAssumption, ElementsInv, NEW m \in Manifests, Elements!ApplyElement(m), Elements!Tick,
           status' \in [ElementNames -> Elements!Status], UNCHANGED <<reported, snap>>
    PROVE  ElementsInv'
<1>. DEFINE e == Manifest[m].element
            kept == {j \in DOMAIN import : j[1] # e} \union {<<e, j>> : j \in DOMAIN Manifest[m].imports}
            all == [i \in kept |-> IF i[1] = e THEN Manifest[m].imports[i[2]] ELSE import[i]]
<1>1. /\ target' = Elements!Restrict(target, DOMAIN target \ (Elements!Old(e) \ Elements!KeysOf(m)))
      /\ resource' = Elements!AppliedRows(m)
      /\ export' = {k \in export : k[1] # e} \union {<<e, n>> : n \in Manifest[m].exports}
      /\ installed' = [installed EXCEPT ![e] = m]
      /\ lost' = lost \ Elements!KeysOf(m)
  BY DEF Elements!ApplyElement, Elements!DeleteResources
<1>2. import' = Elements!Restrict(all, {i \in DOMAIN all : all[i] \in DOMAIN resource'})
  BY Zenon DEF Elements!ApplyElement
<1>3. /\ e \in ElementNames /\ m # None
      /\ installed \in [ElementNames -> Manifests \union {None}]
      /\ \A n \in ElementNames : installed'[n] = IF n = e THEN m ELSE installed[n]
  BY <1>1 DEF Elements!ElementsAssumption, ElementsInv, TablesType
<1>4. /\ DOMAIN resource' = (DOMAIN resource \ Elements!Old(e)) \union Elements!KeysOf(m)
      /\ Elements!PartialFunction(resource', Elements!Keys, Elements!Resource)
      /\ \A k \in DOMAIN resource' :
             \/ /\ k \in DOMAIN resource /\ k[1] # e /\ resource'[k] = resource[k]
             \/ /\ k \in Elements!KeysOf(m) /\ k \in DOMAIN resource /\ resource'[k].value = Elements!Says(m, k[2])
                /\ resource'[k].target = resource[k].target /\ resource'[k].actual = resource[k].actual
             \/ /\ k \in Elements!KeysOf(m) /\ k \notin DOMAIN resource /\ resource'[k].value = Elements!Says(m, k[2])
                /\ ~resource'[k].target /\ ~resource'[k].actual
  BY <1>1, AppliedKeys
<1>5. \A k \in Elements!KeysOf(m) : k[1] = e /\ k \in Elements!Keys
  BY KeysOfManifest
<1>6. Elements!PartialFunction(import, Elements!ImportKeys, Elements!Keys) /\ Elements!PartialFunction(resource, Elements!Keys, Elements!Resource)
  BY DEF ElementsInv, TablesType
<1>7. kept \subseteq Elements!ImportKeys
  BY <1>6 DEF Elements!PartialFunction, Elements!ImportKeys
<1>8. \A i \in kept : i[1] = e \/ (i[1] # e /\ i \in DOMAIN import)
  OBVIOUS
<1>9. \A k \in {<<e, n>> : n \in Manifest[m].exports} : k \in Elements!Keys
  BY DEF Elements!ElementsAssumption, Elements!Keys
<1>10. \A k \in DOMAIN resource : k[1] \in ElementNames
  BY <1>6 DEF Elements!PartialFunction, Elements!Keys, Elements!ElementsAssumption
<1>. HIDE DEF e, kept
<1>11. DOMAIN import' = {i \in kept : all[i] \in DOMAIN resource'}
       /\ \A i \in DOMAIN import' : import'[i] = all[i]
  BY <1>2 DEF Elements!Restrict
<1>. HIDE DEF all
<1>12. import' = [i \in DOMAIN import' |-> import'[i]]
  BY <1>2 DEF Elements!Restrict
<1>13. Elements!PartialFunction(import', Elements!ImportKeys, Elements!Keys)
  <2>1. DOMAIN resource' \subseteq Elements!Keys
    BY <1>4 DEF Elements!PartialFunction
  <2>. QED
    BY <1>7, <1>11, <1>12, <2>1 DEF Elements!PartialFunction
<1>14. TablesType'
  <2>1. installed' \in [ElementNames -> Manifests \union {None}]
    BY <1>1, <1>3
  <2>2. export' \subseteq Elements!Keys
    BY <1>1, <1>9 DEF ElementsInv, TablesType
  <2>. QED
    BY <1>4, <1>13, <2>1, <2>2 DEF TablesType
<1>15. DOMAIN target' = DOMAIN target \intersect (DOMAIN target \ (Elements!Old(e) \ Elements!KeysOf(m)))
       /\ Elements!PartialFunction(target', Elements!Keys, Elements!Rendered)
  BY <1>1, RestrictPartial DEF ElementsInv, AgentsType
<1>16. AgentsType'
  <2>1. eEvents' \in 0 .. MaxElementEvents
    BY DEF ElementsInv, AgentsType, Elements!Tick, Elements!ElementsAssumption
  <2>. QED
    BY <1>1, <1>15, <2>1 DEF ElementsInv, AgentsType
<1>17. SnapType' /\ SnapInv'
  BY DEF ElementsInv, SnapType, SnapInv
<1>18. InstalledKeys'
  <2>1. \A k \in DOMAIN resource' : installed'[k[1]] # None
    BY <1>3, <1>4, <1>5, <1>10 DEF ElementsInv, InstalledKeys
  <2>2. \A i \in DOMAIN import' : import'[i] \in DOMAIN resource'
    BY <1>11
  <2>3. ASSUME NEW i \in DOMAIN import' PROVE installed'[i[1]] # None
    <3>1. CASE i[1] = e
      BY <1>3, <3>1
    <3>2. CASE i[1] # e
      <4>1. i \in DOMAIN import
        BY <1>8, <1>11, <3>2
      <4>2. i[1] \in ElementNames
        BY <1>6, <4>1 DEF Elements!PartialFunction, Elements!ImportKeys, Elements!ElementsAssumption
      <4>. QED
        BY <1>3, <3>2, <4>1, <4>2 DEF ElementsInv, InstalledKeys
    <3>. QED
      BY <3>1, <3>2
  <2>. QED
    BY <2>1, <2>2, <2>3 DEF InstalledKeys
<1>19. TargetKeys'
  <2>. SUFFICES ASSUME NEW k \in DOMAIN resource'
                PROVE  (resource'[k].target => k \in DOMAIN target') /\ (resource'[k].actual => k \in DOMAIN reported)
    BY DEF TargetKeys
  <2>1. CASE k \in DOMAIN resource /\ k[1] # e /\ resource'[k] = resource[k]
    BY <1>15, <2>1 DEF ElementsInv, TargetKeys, Elements!Old
  <2>2. CASE /\ k \in Elements!KeysOf(m) /\ k \in DOMAIN resource
             /\ resource'[k].target = resource[k].target /\ resource'[k].actual = resource[k].actual
    BY <1>15, <2>2 DEF ElementsInv, TargetKeys
  <2>. QED
    BY <1>4, <2>1, <2>2
<1>20. Elements!ResourcesAreTheManifests'
  <2>. SUFFICES ASSUME NEW n \in ElementNames
                PROVE  /\ installed'[n] = None => Elements!Old(n)' = {}
                       /\ installed'[n] # None =>
                              /\ Elements!Old(n)' = Elements!KeysOf(installed'[n])
                              /\ \A k \in Elements!Old(n)' \ lost' : resource'[k].value = Elements!Says(installed'[n], k[2])
    BY DEF Elements!ResourcesAreTheManifests
  <2>1. Elements!Old(n)' = {k \in DOMAIN resource' : k[1] = n} /\ Elements!Old(n) = {k \in DOMAIN resource : k[1] = n}
    BY DEF Elements!Old
  <2>2. CASE n = e
    <3>1. Elements!Old(n)' = Elements!KeysOf(m) /\ installed'[n] = m
      BY <1>3, <1>4, <1>5, <2>1, <2>2
    <3>2. \A k \in Elements!KeysOf(m) : resource'[k].value = Elements!Says(m, k[2])
      BY <1>4, <1>5
    <3>. QED
      BY <1>3, <3>1, <3>2
  <2>3. CASE n # e
    <3>1. Elements!Old(n)' = Elements!Old(n) /\ installed'[n] = installed[n]
      BY <1>3, <1>4, <1>5, <2>1, <2>3 DEF Elements!Old
    <3>2. \A k \in Elements!Old(n) : resource'[k] = resource[k] /\ (k \notin lost' => k \notin lost)
      BY <1>1, <1>4, <1>5, <2>1, <2>3, <3>1
    <3>. QED
      BY <3>1, <3>2 DEF ElementsInv, Elements!ResourcesAreTheManifests
  <2>. QED
    BY <2>2, <2>3
<1>. QED
  BY <1>14, <1>16, <1>17, <1>18, <1>19, <1>20 DEF ElementsInv

LEMMA UninstallKeeps ==
    ASSUME Elements!ElementsAssumption, ElementsInv, NEW m \in Manifests, Elements!Uninstall(m)
    PROVE  ElementsInv'
<1>. DEFINE e == Manifest[m].element
<1>1. /\ Elements!Tick /\ installed[e] = m
      /\ target' = Elements!Restrict(target, DOMAIN target \ Elements!Old(e))
      /\ resource' = Elements!Restrict(resource, DOMAIN resource \ Elements!Old(e))
      /\ import' = Elements!Restrict(import, {i \in DOMAIN import : i[1] # e /\ import[i][1] # e})
      /\ export' = {k \in export : k[1] # e}
      /\ installed' = [installed EXCEPT ![e] = None]
      /\ status' = [status EXCEPT ![e] = "NEW"]
      /\ lost' = {k \in lost : k[1] # e}
      /\ UNCHANGED <<reported, snap>>
  BY DEF Elements!Uninstall, Elements!DeleteResources
<1>2. /\ e \in ElementNames
      /\ installed \in [ElementNames -> Manifests \union {None}]
      /\ status \in [ElementNames -> Elements!Status]
      /\ Elements!PartialFunction(resource, Elements!Keys, Elements!Resource) /\ Elements!PartialFunction(import, Elements!ImportKeys, Elements!Keys)
      /\ Elements!PartialFunction(target, Elements!Keys, Elements!Rendered)
  BY DEF Elements!ElementsAssumption, ElementsInv, TablesType, AgentsType
<1>. HIDE DEF e
<1>3. \A n \in ElementNames : installed'[n] = IF n = e THEN None ELSE installed[n]
  BY <1>1, <1>2
<1>4. /\ Elements!PartialFunction(resource', Elements!Keys, Elements!Resource)
      /\ DOMAIN resource' = {k \in DOMAIN resource : k[1] # e}
      /\ \A k \in DOMAIN resource' : resource'[k] = resource[k]
  <2>1. DOMAIN resource \ Elements!Old(e) = {k \in DOMAIN resource : k[1] # e}
    BY DEF Elements!Old
  <2>2. /\ Elements!PartialFunction(resource', Elements!Keys, Elements!Resource) /\ DOMAIN resource' = DOMAIN resource \ Elements!Old(e)
        /\ \A k \in DOMAIN resource \ Elements!Old(e) : resource'[k] = resource[k]
    BY <1>1, <1>2, RemovePartial
  <2>. QED
    BY <2>1, <2>2
<1>5. /\ Elements!PartialFunction(import', Elements!ImportKeys, Elements!Keys)
      /\ DOMAIN import' = {i \in DOMAIN import : i[1] # e /\ import[i][1] # e}
      /\ \A i \in DOMAIN import' : import'[i] = import[i]
  <2>. DEFINE S == {i \in DOMAIN import : i[1] # e /\ import[i][1] # e}
  <2>1. DOMAIN import \intersect S = S
    OBVIOUS
  <2>. HIDE DEF S
  <2>2. /\ Elements!PartialFunction(Elements!Restrict(import, S), Elements!ImportKeys, Elements!Keys)
        /\ DOMAIN Elements!Restrict(import, S) = S /\ \A i \in S : Elements!Restrict(import, S)[i] = import[i]
    BY <1>2, <2>1, RestrictPartial
  <2>. QED
    BY <1>1, <2>2 DEF S
<1>6. Elements!PartialFunction(target', Elements!Keys, Elements!Rendered) /\ DOMAIN target' = DOMAIN target \ Elements!Old(e)
  BY <1>1, <1>2, RemovePartial
<1>7. TablesType'
  <2>1. installed' \in [ElementNames -> Manifests \union {None}] /\ status' \in [ElementNames -> Elements!Status]
    BY <1>1, <1>2 DEF Elements!Status
  <2>. QED
    BY <1>1, <1>4, <1>5, <2>1 DEF ElementsInv, TablesType
<1>8. AgentsType'
  <2>1. eEvents' \in 0 .. MaxElementEvents
    BY <1>1 DEF ElementsInv, AgentsType, Elements!Tick, Elements!ElementsAssumption
  <2>. QED
    BY <1>1, <1>6, <2>1 DEF ElementsInv, AgentsType
<1>9. SnapType' /\ SnapInv'
  BY <1>1 DEF ElementsInv, SnapType, SnapInv
<1>10. InstalledKeys'
  <2>1. \A k \in DOMAIN resource : k[1] \in ElementNames
    BY <1>2 DEF Elements!PartialFunction, Elements!Keys, Elements!ElementsAssumption
  <2>2. \A i \in DOMAIN import : i[1] \in ElementNames
    BY <1>2 DEF Elements!PartialFunction, Elements!ImportKeys, Elements!ElementsAssumption
  <2>. QED
    BY <1>3, <1>4, <1>5, <2>1, <2>2 DEF ElementsInv, InstalledKeys
<1>11. TargetKeys'
  BY <1>1, <1>4, <1>6 DEF ElementsInv, TargetKeys, Elements!Old
<1>12. Elements!ResourcesAreTheManifests'
  <2>. SUFFICES ASSUME NEW n \in ElementNames
                PROVE  /\ installed'[n] = None => Elements!Old(n)' = {}
                       /\ installed'[n] # None =>
                              /\ Elements!Old(n)' = Elements!KeysOf(installed'[n])
                              /\ \A k \in Elements!Old(n)' \ lost' : resource'[k].value = Elements!Says(installed'[n], k[2])
    BY DEF Elements!ResourcesAreTheManifests
  <2>1. Elements!Old(n)' = {k \in DOMAIN resource' : k[1] = n} /\ Elements!Old(n) = {k \in DOMAIN resource : k[1] = n}
    BY DEF Elements!Old
  <2>2. CASE n = e
    BY <1>3, <1>4, <2>1, <2>2
  <2>3. CASE n # e
    <3>1. Elements!Old(n)' = Elements!Old(n) /\ installed'[n] = installed[n]
      BY <1>3, <1>4, <2>1, <2>3
    <3>2. \A k \in Elements!Old(n) : resource'[k] = resource[k] /\ (k \notin lost' => k \notin lost)
      BY <1>1, <1>4, <2>1, <2>3
    <3>. QED
      BY <3>1, <3>2 DEF ElementsInv, Elements!ResourcesAreTheManifests
  <2>. QED
    BY <2>2, <2>3
<1>. QED
  BY <1>7, <1>8, <1>9, <1>10, <1>11, <1>12 DEF ElementsInv

LEMMA UserKeeps == Elements!ElementsAssumption /\ ElementsInv /\ Elements!User => ElementsInv'
<1>. SUFFICES ASSUME Elements!ElementsAssumption, ElementsInv, NEW m \in Manifests,
                     Elements!Install(m) \/ Elements!Upgrade(m) \/ Elements!Uninstall(m)
              PROVE  ElementsInv'
  BY DEF Elements!User
<1>1. status \in [ElementNames -> Elements!Status]
  BY DEF ElementsInv, TablesType
<1>2. CASE Elements!Install(m)
  BY <1>1, <1>2, ApplyKeeps DEF Elements!Install, Elements!Status
<1>3. CASE Elements!Upgrade(m)
  BY <1>1, <1>3, ApplyKeeps DEF Elements!Upgrade
<1>. QED
  BY <1>2, <1>3, UninstallKeeps

-----------------------------------------------------------------------------
(* The builder.                                                            *)

LEMMA LoadKeeps == Elements!ElementsAssumption /\ ElementsInv /\ (Elements!Load \/ Elements!Rollback) => ElementsInv'
<1>. SUFFICES ASSUME Elements!ElementsAssumption, ElementsInv, Elements!Load \/ Elements!Rollback PROVE ElementsInv'
  OBVIOUS
<1>. USE DEF Elements!tables
<1>1. UNCHANGED <<installed, status, resource, import, export, target, reported, eEvents, lost>>
  BY DEF Elements!Load, Elements!Rollback
<1>2. TablesType' /\ AgentsType' /\ InstalledKeys' /\ TargetKeys' /\ Elements!ResourcesAreTheManifests'
  <2>1. TablesType' /\ AgentsType'
    BY <1>1 DEF ElementsInv, TablesType, AgentsType
  <2>2. InstalledKeys' /\ TargetKeys'
    BY <1>1 DEF ElementsInv, InstalledKeys, TargetKeys
  <2>3. Elements!ResourcesAreTheManifests'
    BY <1>1 DEF ElementsInv, Elements!ResourcesAreTheManifests, Elements!Old
  <2>. QED
    BY <2>1, <2>2, <2>3
<1>3. CASE Elements!Rollback
  BY <1>2, <1>3 DEF Elements!Rollback, ElementsInv, SnapType, SnapInv
<1>4. CASE Elements!Load
  <2>1. /\ snap'.row = resource /\ snap'.import = import /\ snap'.target = target /\ snap'.actual = reported
    BY <1>4 DEF Elements!Load
  <2>2. Elements!PartialFunction(import, Elements!ImportKeys, DOMAIN resource)
    <3>1. Elements!PartialFunction(import, Elements!ImportKeys, Elements!Keys) /\ \A i \in DOMAIN import : import[i] \in DOMAIN resource
      BY DEF ElementsInv, TablesType, InstalledKeys
    <3>. QED
      BY <3>1 DEF Elements!PartialFunction
  <2>3. SnapType'
    BY <2>1, <2>2 DEF ElementsInv, SnapType, TablesType, AgentsType
  <2>4. SnapInv'
    BY <2>1 DEF ElementsInv, SnapInv, TargetKeys
  <2>. QED
    BY <1>2, <2>3, <2>4 DEF ElementsInv
<1>. QED
  BY <1>3, <1>4

\* What is rendered is made of data of the manifests.
LEMMA RenderedTypes ==
    ASSUME ElementsInv, snap # None, NEW k \in DOMAIN snap.row
    PROVE  /\ Elements!RenderTargetState(k) \in Elements!Rendered
           /\ snap.row[k] \in Elements!Resource
           /\ Elements!FullHash(k) \in Elements!Rendered
<1>1. /\ Elements!PartialFunction(snap.row, Elements!Keys, Elements!Resource)
      /\ Elements!PartialFunction(snap.import, Elements!ImportKeys, DOMAIN snap.row)
      /\ Elements!PartialFunction(snap.actual, Elements!Keys, Elements!Actual)
      /\ Elements!PartialFunction(reported, Elements!Keys, Elements!Actual)
      /\ \A j \in DOMAIN snap.row : snap.row[j].actual => j \in DOMAIN snap.actual
  BY DEF ElementsInv, SnapType, SnapInv, AgentsType
<1>2. \A j \in DOMAIN snap.row : snap.row[j] \in Elements!Resource
  BY <1>1 DEF Elements!PartialFunction
<1>3. \A j \in DOMAIN snap.row : {snap.row[j].value.data} \in Elements!Rendered
  BY <1>2 DEF Elements!Resource, Elements!Rendered
<1>4. \A j \in DOMAIN snap.row : snap.row[j].actual => snap.actual[j].value \in Elements!Rendered
  <2>1. \A j \in DOMAIN snap.actual : snap.actual[j] \in Elements!Actual
    BY <1>1 DEF Elements!PartialFunction
  <2>. QED
    BY <1>1, <2>1 DEF Elements!Actual
<1>5. \A j \in DOMAIN snap.row : Elements!ActualState(j) \in Elements!Rendered
  BY <1>3, <1>4 DEF Elements!ActualState
<1>6. Elements!Refs(k) \subseteq DOMAIN snap.row
  BY <1>1 DEF Elements!Refs, Elements!PartialFunction
<1>7. Elements!RenderTargetState(k) \in Elements!Rendered
  <2>1. \A j \in Elements!Refs(k) : Elements!ActualState(j) \subseteq {v.data : v \in Elements!Values}
    BY <1>5, <1>6 DEF Elements!Rendered
  <2>2. {snap.row[k].value.data} \subseteq {v.data : v \in Elements!Values}
    BY <1>3 DEF Elements!Rendered
  <2>. QED
    BY <2>1, <2>2 DEF Elements!RenderTargetState, Elements!Rendered
<1>8. k \in DOMAIN reported => reported[k].value \in Elements!Rendered
  <2>1. k \in DOMAIN reported => reported[k] \in Elements!Actual
    BY <1>1 DEF Elements!PartialFunction
  <2>. QED
    BY <2>1 DEF Elements!Actual
<1>9. Elements!FullHash(k) \in Elements!Rendered
  BY <1>4, <1>7, <1>8 DEF Elements!FullHash
<1>. QED
  BY <1>2, <1>7, <1>9

\* The builder writes back what it has read of a resource, and what it has found.
LEMMA WrittenRow ==
    ASSUME ElementsInv, snap # None, NEW k \in DOMAIN snap.row
    PROVE  /\ Elements!Written(k) \in Elements!Resource /\ Elements!Written(k).value = snap.row[k].value
           /\ Elements!Written(k).target /\ Elements!Written(k).actual = Elements!Found(k)
<1>1. snap.row[k] \in Elements!Resource /\ Elements!FullHash(k) \in Elements!Rendered
  BY RenderedTypes
<1>2. Elements!Found(k) \in BOOLEAN
  <2>1. snap.row[k].actual \in BOOLEAN
    BY <1>1 DEF Elements!Resource
  <2>. QED
    BY <2>1 DEF Elements!Found
<1>. QED
  BY <1>1, <1>2 DEF Elements!Written, Elements!Resource

\* The tables after the builder's transaction: it was not rolled back, so what it
\* writes is there to be written.
LEMMA ActualizedRows ==
    ASSUME Elements!ElementsAssumption, ElementsInv, Elements!Actualize
    PROVE  /\ DOMAIN resource' = DOMAIN resource /\ Elements!PartialFunction(resource', Elements!Keys, Elements!Resource)
           /\ \A k \in DOMAIN resource :
                  \/ /\ k \notin Elements!Dirty
                     /\ resource'[k].value = resource[k].value
                     /\ resource'[k].target = resource[k].target /\ resource'[k].actual = resource[k].actual
                  \/ /\ k \in Elements!Dirty /\ k \in DOMAIN snap.row
                     /\ resource'[k].value = snap.row[k].value
                     /\ resource'[k].target /\ resource'[k].actual = Elements!Found(k)
           /\ \A k \in Elements!Dirty : Elements!Found(k) => k \in DOMAIN reported
<1>1. snap # None /\ ~Elements!Failed /\ resource' = [k \in DOMAIN Elements!Rows |-> Elements!Reported(k, Elements!Rows[k])]
  BY Zenon DEF Elements!Actualize
<1>2. Elements!Rows = [k \in DOMAIN resource |-> IF k \in Elements!Dirty THEN Elements!Written(k) ELSE resource[k]]
  BY Zenon DEF Elements!Rows
<1>3. Elements!Dirty \subseteq DOMAIN snap.row /\ Elements!Dirty \subseteq Elements!Actualized
  BY DEF Elements!Dirty, Elements!Actualized
<1>4. Elements!PartialFunction(resource, Elements!Keys, Elements!Resource) /\ Elements!PartialFunction(reported, Elements!Keys, Elements!Actual)
  BY DEF ElementsInv, TablesType, AgentsType
<1>5. DOMAIN resource' = DOMAIN resource /\ \A k \in DOMAIN resource : resource'[k] = Elements!Reported(k, Elements!Rows[k])
  BY <1>1, <1>2
<1>6. ASSUME NEW k \in DOMAIN resource
      PROVE  /\ Elements!Rows[k] \in Elements!Resource
             /\ \/ k \notin Elements!Dirty /\ Elements!Rows[k] = resource[k]
                \/ /\ k \in Elements!Dirty /\ k \in DOMAIN snap.row
                   /\ Elements!Rows[k].value = snap.row[k].value
                   /\ Elements!Rows[k].target /\ Elements!Rows[k].actual = Elements!Found(k)
  <2>1. resource[k] \in Elements!Resource
    BY <1>4 DEF Elements!PartialFunction
  <2>2. CASE k \in Elements!Dirty
    <3>1. k \in DOMAIN snap.row /\ Elements!Rows[k] = Elements!Written(k)
      BY <1>2, <1>3, <2>2
    <3>. QED
      BY <1>1, <2>2, <3>1, WrittenRow
  <2>3. CASE k \notin Elements!Dirty
    BY <1>2, <2>1, <2>3
  <2>. QED
    BY <2>2, <2>3
<1>7. ASSUME NEW k, NEW x \in Elements!Resource
      PROVE  /\ Elements!Reported(k, x) \in Elements!Resource /\ Elements!Reported(k, x).value = x.value
             /\ Elements!Reported(k, x).target = x.target /\ Elements!Reported(k, x).actual = x.actual
  <2>1. k \in DOMAIN reported => reported[k].status \in Elements!Status
    <3>1. k \in DOMAIN reported => reported[k] \in Elements!Actual
      BY <1>4 DEF Elements!PartialFunction
    <3>. QED
      BY <3>1 DEF Elements!Actual
  <2>. QED
    BY <2>1 DEF Elements!Reported, Elements!Resource
<1>8. \A k \in DOMAIN resource :
          /\ resource'[k] \in Elements!Resource /\ resource'[k].value = Elements!Rows[k].value
          /\ resource'[k].target = Elements!Rows[k].target /\ resource'[k].actual = Elements!Rows[k].actual
  BY <1>5, <1>6, <1>7
<1>9. Elements!PartialFunction(resource', Elements!Keys, Elements!Resource)
  <2>1. resource' = [k \in DOMAIN resource |-> resource'[k]]
    BY <1>1, <1>2
  <2>. QED
    BY <1>4, <1>8, <2>1 DEF Elements!PartialFunction
<1>10. \A k \in Elements!Dirty : Elements!Found(k) => k \in DOMAIN reported
  BY <1>1 DEF Elements!Failed, Elements!Found
<1>. QED
  BY <1>5, <1>6, <1>8, <1>9, <1>10

LEMMA ActualizedTargets ==
    ASSUME Elements!ElementsAssumption, ElementsInv, Elements!Actualize
    PROVE  /\ Elements!PartialFunction(target', Elements!Keys, Elements!Rendered)
           /\ \A k \in DOMAIN resource : k \in DOMAIN target \/ k \in Elements!Dirty => k \in DOMAIN target'
<1>. DEFINE S == (DOMAIN target \intersect DOMAIN resource) \union Elements!Inserted
<1>1. snap # None /\ ~Elements!Failed
  BY DEF Elements!Actualize
<1>2. target' = [k \in S |-> IF k \in Elements!Actualized THEN Elements!RenderTargetState(k) ELSE target[k]]
  BY Zenon DEF Elements!Actualize, Elements!Targets
<1>3. /\ Elements!Actualized \subseteq DOMAIN snap.row /\ Elements!Inserted \subseteq Elements!Actualized
      /\ Elements!Dirty \subseteq Elements!Actualized
  BY DEF Elements!Actualized, Elements!Inserted, Elements!Dirty
<1>4. Elements!PartialFunction(target, Elements!Keys, Elements!Rendered)
  BY DEF ElementsInv, AgentsType
<1>5. Elements!PartialFunction(snap.row, Elements!Keys, Elements!Resource)
  BY <1>1 DEF ElementsInv, SnapType
<1>6. S \subseteq Elements!Keys
  BY <1>3, <1>4, <1>5 DEF Elements!PartialFunction
<1>7. \A k \in S : (IF k \in Elements!Actualized THEN Elements!RenderTargetState(k) ELSE target[k]) \in Elements!Rendered
  <2>1. ASSUME NEW k \in S, k \in Elements!Actualized PROVE Elements!RenderTargetState(k) \in Elements!Rendered
    BY <1>1, <1>3, <2>1, RenderedTypes
  <2>2. ASSUME NEW k \in S, k \notin Elements!Actualized PROVE target[k] \in Elements!Rendered
    <3>1. k \in DOMAIN target
      BY <1>3, <2>2
    <3>. QED
      BY <1>4, <3>1 DEF Elements!PartialFunction
  <2>. QED
    BY <2>1, <2>2
<1>8. \A k \in Elements!Dirty : k \in Elements!Inserted \/ k \in DOMAIN target
  BY <1>1, <1>3 DEF Elements!Failed
<1>. HIDE DEF S
<1>9. Elements!PartialFunction(target', Elements!Keys, Elements!Rendered) /\ DOMAIN target' = S
  BY <1>2, <1>6, <1>7 DEF Elements!PartialFunction
<1>. QED
  BY <1>8, <1>9 DEF S

LEMMA ActualizeKeeps == Elements!ElementsAssumption /\ ElementsInv /\ Elements!Actualize => ElementsInv'
<1>. SUFFICES ASSUME Elements!ElementsAssumption, ElementsInv, Elements!Actualize PROVE ElementsInv'
  OBVIOUS
<1>1. /\ snap' = None /\ snap # None
      /\ UNCHANGED <<installed, import, export, reported, eEvents>>
      /\ lost' = lost \union {k \in Elements!Dirty : resource[k].value # snap.row[k].value}
  BY Zenon DEF Elements!Actualize
<1>2. status' = [e \in ElementNames |-> IF installed[e] = None THEN status[e] ELSE Elements!Derived(e, resource')]
  BY Zenon DEF Elements!Actualize
<1>3. TablesType'
  <2>1. \A e : Elements!Derived(e, resource') \in Elements!Status
    BY DEF Elements!Derived, Elements!Status
  <2>2. status' \in [ElementNames -> Elements!Status]
    BY <1>2, <2>1 DEF ElementsInv, TablesType
  <2>. QED
    BY <1>1, <2>2, ActualizedRows DEF ElementsInv, TablesType
<1>4. AgentsType'
  <2>1. Elements!Dirty \subseteq Elements!Keys
    BY <1>1 DEF Elements!Dirty, Elements!Actualized, ElementsInv, SnapType, Elements!PartialFunction
  <2>2. lost' \subseteq Elements!Keys
    BY <1>1, <2>1 DEF ElementsInv, AgentsType
  <2>. QED
    BY <1>1, <2>2, ActualizedTargets DEF ElementsInv, AgentsType
<1>5. SnapType' /\ SnapInv'
  BY <1>1 DEF SnapType, SnapInv
<1>6. InstalledKeys'
  BY <1>1, ActualizedRows DEF ElementsInv, InstalledKeys
<1>7. TargetKeys'
  <2>1. ASSUME NEW k \in DOMAIN resource, resource'[k].target PROVE k \in DOMAIN target'
    BY <2>1, ActualizedRows, ActualizedTargets DEF ElementsInv, TargetKeys
  <2>2. ASSUME NEW k \in DOMAIN resource, resource'[k].actual PROVE k \in DOMAIN reported
    BY <2>2, ActualizedRows DEF ElementsInv, TargetKeys
  <2>. QED
    BY <1>1, <2>1, <2>2, ActualizedRows DEF TargetKeys
<1>8. Elements!ResourcesAreTheManifests'
  <2>1. \A n : Elements!Old(n)' = Elements!Old(n)
    BY ActualizedRows DEF Elements!Old
  <2>2. ASSUME NEW k \in DOMAIN resource, k \notin lost' PROVE k \notin lost /\ resource'[k].value = resource[k].value
    BY <1>1, <2>2, ActualizedRows
  <2>3. \A n : Elements!Old(n) \subseteq DOMAIN resource
    BY DEF Elements!Old
  <2>. QED
    BY <1>1, <2>1, <2>2, <2>3 DEF ElementsInv, Elements!ResourcesAreTheManifests
<1>. QED
  BY <1>3, <1>4, <1>5, <1>6, <1>7, <1>8 DEF ElementsInv

-----------------------------------------------------------------------------
(* Agents.                                                                 *)

\* A report comes or changes.
LEMMA ReportKeeps ==
    ASSUME Elements!ElementsAssumption, ElementsInv, Elements!PartialFunction(reported', Elements!Keys, Elements!Actual),
           DOMAIN reported \subseteq DOMAIN reported',
           UNCHANGED <<Elements!tables, target, snap, eEvents, lost>>
    PROVE  ElementsInv'
<1>. USE DEF Elements!tables
<1>1. TablesType' /\ AgentsType'
  BY DEF ElementsInv, TablesType, AgentsType
<1>2. SnapType' /\ SnapInv'
  BY DEF ElementsInv, SnapType, SnapInv
<1>3. InstalledKeys' /\ TargetKeys'
  BY DEF ElementsInv, InstalledKeys, TargetKeys
<1>4. Elements!ResourcesAreTheManifests'
  BY DEF ElementsInv, Elements!ResourcesAreTheManifests, Elements!Old
<1>. QED
  BY <1>1, <1>2, <1>3, <1>4 DEF ElementsInv

LEMMA TakeKeeps ==
    ASSUME Elements!ElementsAssumption, ElementsInv, NEW k \in Elements!Keys, Elements!Take(k) \/ Elements!Done(k)
    PROVE  ElementsInv'
<1>1. Elements!PartialFunction(reported, Elements!Keys, Elements!Actual) /\ Elements!PartialFunction(target, Elements!Keys, Elements!Rendered)
  BY DEF ElementsInv, AgentsType
<1>2. CASE Elements!Take(k)
  <2>. DEFINE new == [value |-> target[k], status |-> "IN_PROGRESS"]
  <2>1. /\ k \in DOMAIN target /\ UNCHANGED <<Elements!tables, target, snap, eEvents, lost>>
        /\ reported' = [j \in DOMAIN reported \union {k} |-> IF j = k THEN new ELSE reported[j]]
    BY <1>2 DEF Elements!Take
  <2>2. new \in Elements!Actual
    BY <1>1, <2>1 DEF Elements!Actual, Elements!Status, Elements!PartialFunction
  <2>. HIDE DEF new
  <2>3. Elements!PartialFunction(reported', Elements!Keys, Elements!Actual) /\ DOMAIN reported \subseteq DOMAIN reported'
    BY <1>1, <2>1, <2>2 DEF Elements!PartialFunction
  <2>. QED
    BY <2>1, <2>3, ReportKeeps
<1>3. CASE Elements!Done(k)
  <2>1. /\ k \in DOMAIN reported /\ UNCHANGED <<Elements!tables, target, snap, eEvents, lost>>
        /\ reported' = [reported EXCEPT ![k].status = "ACTIVE"]
    BY <1>3 DEF Elements!Done
  <2>2. [reported[k] EXCEPT !.status = "ACTIVE"] \in Elements!Actual
    BY <1>1, <2>1 DEF Elements!Actual, Elements!Status, Elements!PartialFunction
  <2>3. Elements!PartialFunction(reported', Elements!Keys, Elements!Actual) /\ DOMAIN reported' = DOMAIN reported
    BY <1>1, <2>1, <2>2 DEF Elements!PartialFunction
  <2>. QED
    BY <2>1, <2>3, ReportKeeps
<1>. QED
  BY <1>2, <1>3

LEMMA DropKeeps ==
    ASSUME Elements!ElementsAssumption, ElementsInv, NEW k \in Elements!Keys, Elements!Drop(k)
    PROVE  ElementsInv'
<1>1. /\ k \in DOMAIN reported /\ k \notin DOMAIN target
      /\ reported' = Elements!Restrict(reported, DOMAIN reported \ {k})
      /\ resource' = [j \in DOMAIN resource |-> IF j = k THEN [resource[j] EXCEPT !.actual = FALSE] ELSE resource[j]]
      /\ UNCHANGED <<installed, status, import, export, target, snap, eEvents, lost>>
  BY DEF Elements!Drop
<1>2. Elements!PartialFunction(reported', Elements!Keys, Elements!Actual) /\ DOMAIN reported' = DOMAIN reported \ {k}
  BY <1>1, RemovePartial DEF ElementsInv, AgentsType
<1>3. Elements!PartialFunction(resource, Elements!Keys, Elements!Resource)
  BY DEF ElementsInv, TablesType
<1>4. DOMAIN resource' = DOMAIN resource
  BY <1>1
<1>5. ASSUME NEW j \in DOMAIN resource
      PROVE  /\ resource'[j] \in Elements!Resource /\ resource'[j].value = resource[j].value
             /\ resource'[j].target = resource[j].target
             /\ resource'[j].actual => j # k /\ resource[j].actual
  <2>1. resource[j] \in Elements!Resource
    BY <1>3 DEF Elements!PartialFunction
  <2>2. CASE j = k
    <3>1. resource'[j] = [resource[j] EXCEPT !.actual = FALSE]
      BY <1>1, <2>2
    <3>. QED
      BY <2>1, <3>1 DEF Elements!Resource
  <2>3. CASE j # k
    <3>1. resource'[j] = resource[j]
      BY <1>1, <2>3
    <3>. QED
      BY <2>1, <2>3, <3>1
  <2>. QED
    BY <2>2, <2>3
<1>6. Elements!PartialFunction(resource', Elements!Keys, Elements!Resource)
  <2>1. resource' = [j \in DOMAIN resource |-> resource'[j]]
    BY <1>1
  <2>. QED
    BY <1>3, <1>5, <2>1 DEF Elements!PartialFunction
<1>7. TablesType' /\ AgentsType'
  BY <1>1, <1>2, <1>6 DEF ElementsInv, TablesType, AgentsType
<1>8. SnapType' /\ SnapInv'
  BY <1>1 DEF ElementsInv, SnapType, SnapInv
<1>9. InstalledKeys'
  BY <1>1, <1>4 DEF ElementsInv, InstalledKeys
<1>10. TargetKeys'
  BY <1>1, <1>2, <1>4, <1>5 DEF ElementsInv, TargetKeys
<1>11. Elements!ResourcesAreTheManifests'
  <2>1. \A n : Elements!Old(n)' = Elements!Old(n) /\ Elements!Old(n) \subseteq DOMAIN resource
    BY <1>4 DEF Elements!Old
  <2>. QED
    BY <1>1, <1>5, <2>1 DEF ElementsInv, Elements!ResourcesAreTheManifests
<1>. QED
  BY <1>7, <1>8, <1>9, <1>10, <1>11 DEF ElementsInv

-----------------------------------------------------------------------------
(* The theorems.                                                           *)

LEMMA ElementsInvKept == Elements!ElementsAssumption /\ ElementsInv /\ [Elements!Next]_Elements!vars => ElementsInv'
<1>. SUFFICES ASSUME Elements!ElementsAssumption, ElementsInv, [Elements!Next]_Elements!vars PROVE ElementsInv'
  OBVIOUS
<1>1. CASE Elements!User
  BY <1>1, UserKeeps
<1>2. CASE Elements!Builder
  BY <1>2, LoadKeeps, ActualizeKeeps DEF Elements!Builder
<1>3. CASE Elements!Agent
  BY <1>3, TakeKeeps, DropKeeps DEF Elements!Agent
<1>4. CASE UNCHANGED Elements!vars
  <2>1. UNCHANGED <<Elements!tables, target, reported, snap, eEvents, lost>>
    BY <1>4 DEF Elements!vars
  <2>2. Elements!PartialFunction(reported', Elements!Keys, Elements!Actual)
    BY <2>1 DEF ElementsInv, AgentsType
  <2>. QED
    BY <2>1, <2>2, ReportKeeps
<1>. QED
  BY <1>1, <1>2, <1>3, <1>4 DEF Elements!Next

LEMMA ElementsInvHolds == Elements!ElementsAssumption /\ Elements!Spec => []ElementsInv
<1>. SUFFICES ASSUME Elements!ElementsAssumption PROVE Elements!Spec => []ElementsInv
  OBVIOUS
<1>1. Elements!Init => ElementsInv
  BY InitElementsInv
<1>2. ElementsInv /\ [Elements!Next]_Elements!vars => ElementsInv'
  BY ElementsInvKept
<1>. QED
  BY <1>1, <1>2, PTL DEF Elements!Spec

\* Every table is well formed and its foreign keys point somewhere (migrations
\* 0018, 0033, 0034): no import without its resource, no resource with a target
\* or a report that is not there, whatever the builder writes back late.
THEOREM ElementTypes == Elements!ElementsAssumption /\ Elements!Spec => []Elements!TypeOK
<1>1. ElementsInv => Elements!TypeOK
  BY ElementTypesInParts DEF ElementsInv
<1>. QED
  BY <1>1, ElementsInvHolds, PTL

\* An element has exactly the resources of the manifest installed for it
\* (models.py, apply_resources), with the values that one gives them, unless the
\* builder wrote one back that it had read before an upgrade.
THEOREM ResourcesFollowTheManifest == Elements!ElementsAssumption /\ Elements!Spec => []Elements!ResourcesAreTheManifests
<1>1. ElementsInv => Elements!ResourcesAreTheManifests
  BY DEF ElementsInv
<1>. QED
  BY <1>1, ElementsInvHolds, PTL

-----------------------------------------------------------------------------
\* In Services the elements are as they are by themselves.
LEMMA ServicesRunElements == Spec => Elements!Spec
<1>1. Init => Elements!Init
  BY DEF Init
<1>2. [Next]_vars => [Elements!Next]_Elements!vars
  BY Zenon DEF Next, vars, elements, Elements!tables, Elements!vars
<1>. QED
  BY <1>1, <1>2, PTL DEF Spec, Elements!Spec

\* Resources are what the installed manifests say (run services).
COROLLARY ResourcesAreTheManifestsHolds == Spec => []ResourcesAreTheManifests
<1>1. Elements!ResourcesAreTheManifests => ResourcesAreTheManifests
  BY DEF ResourcesAreTheManifests
<1>. QED
  BY <1>1, ResourcesFollowTheManifest, ServicesRunElements, ConstantsAssumption, PTL DEF ConstantsAssumption

-----------------------------------------------------------------------------
(* SSH keys.  The reports a pass has read are of nodes that still have their *)
(* resource when the statuses are written: no pass takes one away in between. *)

KeyWork == [key : SshKeys!Key \union {None}, tables : SshKeys!Tables]
KeyCopy == [key : SshKeys!Key \union {None}, reports : [Nodes -> SshKeys!Report \union {None}]]
Mastered(resources) == \A n \in Nodes : resources.host[n] # None => resources.master

KeyRows ==
    /\ key \in SshKeys!Key \union {None} /\ nodes \subseteq Nodes
    /\ tables \in SshKeys!Tables /\ Mastered(tables)
    /\ kActual \in [Nodes -> SshKeys!Report \union {None}]
KeyPass ==
    /\ kPass \in {"idle", "new", "changed", "outdated", "commit"}
    /\ kWork \in KeyWork /\ Mastered(kWork.tables) /\ kCopy \in KeyCopy
    /\ \A n \in Nodes : kCopy.reports[n] # None => kPass = "outdated" /\ kWork.tables.host[n] # None
KeyFlags == kLocked \in BOOLEAN /\ kOvertaken \in BOOLEAN

KeysInv == KeyRows /\ KeyPass /\ KeyFlags /\ kEvents \in 0 .. MaxKeyEvents

LEMMA KeyTypesHold == KeysInv => SshKeys!TypeOK
<1>. SUFFICES ASSUME KeysInv PROVE SshKeys!TypeOK
  OBVIOUS
<1>1. /\ kWork.key \in SshKeys!Key \union {None} /\ kWork.tables \in SshKeys!Tables
      /\ kCopy.key \in SshKeys!Key \union {None} /\ kCopy.reports \in [Nodes -> SshKeys!Report \union {None}]
  BY DEF KeysInv, KeyPass, KeyWork, KeyCopy
<1>. QED
  BY Zenon, <1>1 DEF KeysInv, KeyRows, KeyPass, KeyFlags, Mastered, SshKeys!TypeOK

LEMMA NoKeyResources ==
    /\ SshKeys!NoResources \in SshKeys!Tables /\ Mastered(SshKeys!NoResources)
    /\ SshKeys!NoCopy \in KeyCopy /\ \A n \in Nodes : SshKeys!NoCopy.reports[n] = None
BY DEF SshKeys!NoResources, SshKeys!NoHosts, SshKeys!NoCopy, SshKeys!Tables, Mastered, KeyCopy

LEMMA InitKeysInv == SshKeys!KeysAssumption /\ SshKeys!Init => KeysInv
<1>. SUFFICES ASSUME SshKeys!KeysAssumption, SshKeys!Init PROVE KeysInv
  OBVIOUS
<1>1. KeyFlags
  BY Zenon DEF KeyFlags, SshKeys!Init
<1>2. KeyRows
  BY NoKeyResources DEF KeyRows, SshKeys!Init, SshKeys!NoHosts
<1>3. KeyPass
  BY NoKeyResources DEF KeyPass, KeyWork, SshKeys!Init
<1>4. kEvents \in 0 .. MaxKeyEvents
  BY DEF SshKeys!Init, SshKeys!KeysAssumption
<1>. QED
  BY <1>1, <1>2, <1>3, <1>4 DEF KeysInv

LEMMA KeyTicks == SshKeys!KeysAssumption /\ KeysInv /\ SshKeys!Tick => kEvents' \in 0 .. MaxKeyEvents
BY DEF KeysInv, SshKeys!Tick, SshKeys!KeysAssumption

\* Only the mark is changed.
LEMMA MarkedTables ==
    ASSUME NEW t \in SshKeys!Tables, NEW mark \in BOOLEAN, Mastered(t)
    PROVE  /\ [t EXCEPT !.tracked = mark] \in SshKeys!Tables
           /\ Mastered([t EXCEPT !.tracked = mark])
           /\ [t EXCEPT !.tracked = mark].host = t.host
BY DEF SshKeys!Tables, Mastered

LEMMA KeyRequests ==
    ASSUME SshKeys!KeysAssumption, KeysInv,
           NEW new \in SshKeys!Key \union {None}, SshKeys!Request(new)
    PROVE  KeysInv'
<1>1. KeyFlags'
  BY Zenon DEF KeysInv, KeyFlags, SshKeys!Request
<1>2. KeyRows'
  <2>1. tables' = [tables EXCEPT !.tracked = FALSE] /\ tables \in SshKeys!Tables /\ Mastered(tables)
    BY DEF KeysInv, KeyRows, SshKeys!Request
  <2>2. tables' \in SshKeys!Tables /\ Mastered(tables')
    BY <2>1 DEF SshKeys!Tables, Mastered
  <2>. QED
    BY <2>2 DEF KeysInv, KeyRows, SshKeys!Request, Mastered
<1>3. KeyPass'
  <2>1. kWork' = [kWork EXCEPT !.tables.tracked = FALSE] /\ UNCHANGED <<kPass, kCopy>>
    BY DEF SshKeys!Request
  <2>2. kWork \in KeyWork /\ kWork.tables \in SshKeys!Tables /\ Mastered(kWork.tables)
    BY DEF KeysInv, KeyPass, KeyWork
  <2>3. kWork' = [key |-> kWork.key, tables |-> [kWork.tables EXCEPT !.tracked = FALSE]]
    BY <2>1, <2>2 DEF KeyWork
  <2>4. kWork' \in KeyWork /\ Mastered(kWork'.tables) /\ kWork'.tables.host = kWork.tables.host
    BY <2>2, <2>3 DEF KeyWork, SshKeys!Tables, Mastered
  <2>. QED
    BY <2>1, <2>4 DEF KeysInv, KeyPass, Mastered
<1>4. kEvents' \in 0 .. MaxKeyEvents
  BY KeyTicks DEF SshKeys!Request
<1>. QED
  BY <1>1, <1>2, <1>3, <1>4 DEF KeysInv

LEMMA UsersOfKeys ==
    ASSUME SshKeys!KeysAssumption, KeysInv,
           \/ \E wish \in SshKeys!Wish : SshKeys!CreateKey(wish) \/ SshKeys!UpdateKey(wish)
           \/ SshKeys!DeleteKey
    PROVE  KeysInv'
<1>1. \A wish \in SshKeys!Wish : [wish |-> wish, status |-> "NEW"] \in SshKeys!Key
  BY DEF SshKeys!Key
<1>. QED
  BY <1>1, KeyRequests DEF SshKeys!CreateKey, SshKeys!UpdateKey, SshKeys!DeleteKey

\* What a pass saves has its type, and its hosts are those it was given.
LEMMA SavedIs ==
    ASSUME KeysInv, NEW saved \in SshKeys!Key, NEW resources \in SshKeys!Tables, Mastered(resources)
    PROVE  /\ SshKeys!Saved(saved, resources) \in KeyWork
           /\ Mastered(SshKeys!Saved(saved, resources).tables)
<1>1. kWork.key \in SshKeys!Key \union {None} /\ key \in SshKeys!Key \union {None}
  BY DEF KeysInv, KeyRows, KeyPass, KeyWork
<1>2. SshKeys!Seen \in SshKeys!Key \union {None}
  BY <1>1 DEF SshKeys!Seen
<1>3. PICK kept \in SshKeys!Key \union {None}, mark \in BOOLEAN :
          SshKeys!Saved(saved, resources) = [key |-> kept, tables |-> [resources EXCEPT !.tracked = mark]]
  <2>1. CASE SshKeys!Seen = None
    BY Zenon, <2>1 DEF SshKeys!Saved
  <2>2. CASE SshKeys!Seen # None
    <3>. DEFINE kept == IF saved = kCopy.key THEN SshKeys!Seen ELSE saved
                mark == saved # kCopy.key \/ SshKeys!Seen = kCopy.key
    <3>1. kept \in SshKeys!Key \union {None}
      BY <1>2
    <3>2. mark \in BOOLEAN
      BY Zenon
    <3>3. SshKeys!Saved(saved, resources) = [key |-> kept, tables |-> [resources EXCEPT !.tracked = mark]]
      BY Zenon, <2>2 DEF SshKeys!Saved
    <3>. HIDE DEF kept, mark
    <3>. QED
      BY Zenon, <3>1, <3>2, <3>3
  <2>. QED
    BY <2>1, <2>2
<1>. QED
  BY <1>3, MarkedTables DEF KeyWork

LEMMA PlacedIs ==
    ASSUME KeysInv, kCopy.key # None
    PROVE  SshKeys!Placed \in KeyWork /\ Mastered(SshKeys!Placed.tables)
<1>. DEFINE targets == kCopy.key.wish.target \intersect nodes
            hosts == [n \in Nodes |-> IF n \in targets THEN SshKeys!HostFor(kCopy.key.wish) ELSE None]
<1>1. kCopy.key \in SshKeys!Key /\ kCopy.key.wish \in SshKeys!Wish
  BY DEF KeysInv, KeyPass, KeyCopy, SshKeys!Key
<1>2. CASE targets = {}
  BY <1>2, NoKeyResources DEF SshKeys!Placed, KeyWork
<1>3. CASE targets # {}
  <2>. DEFINE saved == [kCopy.key EXCEPT !.status = "IN_PROGRESS"]
              resources == [master |-> TRUE, tracked |-> FALSE, host |-> hosts]
  <2>1. saved \in SshKeys!Key
    BY <1>1 DEF SshKeys!Key
  <2>2. SshKeys!HostFor(kCopy.key.wish) \in SshKeys!Host
    BY <1>1 DEF SshKeys!HostFor, SshKeys!Host, SshKeys!Wish
  <2>3. hosts \in [Nodes -> SshKeys!Host \union {None}]
    BY <2>2
  <2>4. resources \in SshKeys!Tables /\ Mastered(resources)
    <3>. HIDE DEF hosts
    <3>. QED
      BY <2>3 DEF SshKeys!Tables, Mastered
  <2>5. SshKeys!Placed = SshKeys!Saved(saved, resources)
    BY Zenon, <1>3 DEF SshKeys!Placed
  <2>. HIDE DEF saved, resources
  <2>. QED
    BY <2>1, <2>4, <2>5, SavedIs
<1>. QED
  BY <1>2, <1>3

LEMMA PassesOfKeys ==
    ASSUME SshKeys!KeysAssumption, KeysInv,
           SshKeys!Begin \/ SshKeys!ActualizeNew \/ SshKeys!ActualizeChanged
    PROVE  KeysInv'
<1>1. UNCHANGED <<key, nodes, tables, kActual, kEvents, kOvertaken>>
  BY DEF SshKeys!Begin, SshKeys!ActualizeNew, SshKeys!ActualizeChanged
<1>2. KeyRows'
  BY <1>1 DEF KeysInv, KeyRows, Mastered
<1>3. KeyFlags'
  BY Zenon, <1>1 DEF KeysInv, KeyFlags, SshKeys!Begin, SshKeys!ActualizeNew, SshKeys!ActualizeChanged, SshKeys!Actualize
<1>4. SUFFICES KeyPass'
  BY <1>1, <1>2, <1>3 DEF KeysInv
<1>5. kWork' \in KeyWork /\ Mastered(kWork'.tables)
  <2>1. CASE SshKeys!Begin
    BY <2>1 DEF SshKeys!Begin, KeysInv, KeyRows, KeyWork
  <2>2. CASE SshKeys!Actualize
    BY <2>2, PlacedIs DEF SshKeys!Actualize, KeysInv, KeyPass
  <2>. QED
    BY <2>1, <2>2 DEF SshKeys!ActualizeNew, SshKeys!ActualizeChanged
<1>6. \A kept \in SshKeys!Key \union {None} :
          /\ [SshKeys!NoCopy EXCEPT !.key = kept] \in KeyCopy
          /\ \A n \in Nodes : [SshKeys!NoCopy EXCEPT !.key = kept].reports[n] = None
  BY DEF SshKeys!NoCopy, SshKeys!NoHosts, KeyCopy
<1>7. key \in SshKeys!Key \union {None} /\ kWork'.key \in SshKeys!Key \union {None}
  BY <1>5 DEF KeysInv, KeyRows, KeyWork
<1>8. CASE SshKeys!Begin \/ SshKeys!ActualizeNew
  <2>1. PICK kept : kept \in SshKeys!Key \union {None} /\ kCopy' = [SshKeys!NoCopy EXCEPT !.key = kept]
    <3>1. CASE SshKeys!Begin
      <4>. DEFINE kept == IF tables.master THEN None ELSE key
      <4>1. kept \in SshKeys!Key \union {None}
        BY <1>7
      <4>. QED
        BY Zenon, <3>1, <4>1 DEF SshKeys!Begin
    <3>2. CASE SshKeys!ActualizeNew
      <4>. DEFINE current == IF kLocked' THEN kWork'.key ELSE key
                  kept == IF kWork'.tables.master /\ ~kWork'.tables.tracked THEN current ELSE None
      <4>1. kept \in SshKeys!Key \union {None}
        BY <1>7
      <4>2. kCopy' = [SshKeys!NoCopy EXCEPT !.key = kept]
        BY Zenon, <3>2 DEF SshKeys!ActualizeNew
      <4>. HIDE DEF kept
      <4>. QED
        BY Zenon, <4>1, <4>2
    <3>. QED
      BY <1>8, <3>1, <3>2
  <2>2. kCopy' \in KeyCopy /\ \A n \in Nodes : kCopy'.reports[n] = None
    BY <2>1 DEF SshKeys!NoCopy, SshKeys!NoHosts, KeyCopy
  <2>3. kPass' \in {"new", "changed"}
    BY <1>8 DEF SshKeys!Begin, SshKeys!ActualizeNew
  <2>. QED
    BY <1>5, <2>2, <2>3 DEF KeyPass
<1>9. CASE SshKeys!ActualizeChanged
  <2>. DEFINE current == IF kLocked' THEN kWork'.key ELSE key
              outdated == IF current = None THEN {} ELSE SshKeys!Outdated(kWork'.tables)
              reports == [n \in Nodes |-> IF n \in outdated THEN kActual[n] ELSE None]
  <2>1. current \in SshKeys!Key \union {None}
    BY <1>7
  <2>2. reports \in [Nodes -> SshKeys!Report \union {None}]
    BY DEF KeysInv, KeyRows
  <2>3. \A n \in Nodes : reports[n] # None => kWork'.tables.host[n] # None
    BY DEF SshKeys!Outdated
  <2>4. kPass' = "outdated" /\ kCopy' = IF outdated = {} THEN SshKeys!NoCopy ELSE [key |-> current, reports |-> reports]
    BY Zenon, <1>9 DEF SshKeys!ActualizeChanged
  <2>. HIDE DEF current, outdated, reports
  <2>5. kCopy' \in KeyCopy /\ \A n \in Nodes : kCopy'.reports[n] # None => kWork'.tables.host[n] # None
    BY <2>1, <2>2, <2>3, <2>4, NoKeyResources DEF KeyCopy
  <2>. QED
    BY <1>5, <2>4, <2>5 DEF KeyPass
<1>. QED
  BY <1>8, <1>9

LEMMA AnswersOfKeys ==
    ASSUME SshKeys!KeysAssumption, KeysInv, SshKeys!ActualizeOutdated
    PROVE  KeysInv'
<1>. DEFINE answered == {n \in Nodes : kCopy.reports[n] # None}
            hosts == [n \in Nodes |-> IF n \in answered
                                      THEN SshKeys!Answered(kWork.tables.host[n], kCopy.reports[n])
                                      ELSE kWork.tables.host[n]]
            became == SshKeys!KeyStatus({hosts[n].status : n \in answered})
            marked == [kWork.tables EXCEPT !.host = hosts]
            saved == [kCopy.key EXCEPT !.status = became]
<1>1. /\ UNCHANGED <<key, nodes, tables, kActual, kEvents, kOvertaken>>
      /\ kPass' = "commit" /\ kCopy' = SshKeys!NoCopy
  BY DEF SshKeys!ActualizeOutdated
<1>2. KeyRows'
  BY <1>1 DEF KeysInv, KeyRows, Mastered
<1>3. KeyFlags'
  BY Zenon, <1>1 DEF KeysInv, KeyFlags, SshKeys!ActualizeOutdated
<1>4. kWork \in KeyWork /\ kWork.tables \in SshKeys!Tables /\ kCopy \in KeyCopy /\ Mastered(kWork.tables)
  BY DEF KeysInv, KeyPass, KeyWork
<1>5. \A n \in answered : kWork.tables.host[n] \in SshKeys!Host /\ kCopy.reports[n] \in SshKeys!Report
                          /\ kWork.tables.host[n] # None
  BY <1>4 DEF KeysInv, KeyPass, KeyCopy, SshKeys!Tables
<1>6. hosts \in [Nodes -> SshKeys!Host \union {None}]
  <2>1. \A n \in answered : SshKeys!Answered(kWork.tables.host[n], kCopy.reports[n]) \in SshKeys!Host
    BY <1>5 DEF SshKeys!Answered, SshKeys!Host, SshKeys!Report
  <2>. QED
    BY <1>4, <2>1 DEF SshKeys!Tables
<1>7. \A n \in Nodes : hosts[n] # None => kWork.tables.host[n] # None
  BY <1>5
<1>8. marked \in SshKeys!Tables /\ Mastered(marked)
  <2>. HIDE DEF hosts
  <2>. QED
    BY <1>4, <1>6, <1>7 DEF SshKeys!Tables, Mastered
<1>9. kWork' \in KeyWork /\ Mastered(kWork'.tables)
  <2>1. \/ kWork' = kWork
        \/ kWork' = [kWork EXCEPT !.tables = marked]
        \/ kCopy.key # None /\ kWork' = SshKeys!Saved(saved, marked)
    BY Zenon DEF SshKeys!ActualizeOutdated
  <2>2. ASSUME kCopy.key # None PROVE saved \in SshKeys!Key
    <3>1. kCopy.key \in SshKeys!Key
      BY <1>4, <2>2 DEF KeyCopy
    <3>2. became \in {"NEW", "IN_PROGRESS", "ACTIVE"}
      BY <3>1 DEF SshKeys!KeyStatus, SshKeys!Key
    <3>. HIDE DEF became
    <3>. QED
      BY <3>1, <3>2 DEF SshKeys!Key
  <2>. HIDE DEF saved, marked
  <2>3. CASE kWork' = [kWork EXCEPT !.tables = marked]
    BY <1>4, <1>8, <2>3 DEF KeyWork
  <2>4. CASE kCopy.key # None /\ kWork' = SshKeys!Saved(saved, marked)
    BY <1>8, <2>2, <2>4, SavedIs
  <2>. QED
    BY <1>4, <2>1, <2>3, <2>4
<1>10. KeyPass'
  BY <1>1, <1>9, NoKeyResources DEF KeyPass
<1>. QED
  BY <1>1, <1>2, <1>3, <1>10 DEF KeysInv

LEMMA EndsOfPasses ==
    ASSUME SshKeys!KeysAssumption, KeysInv, SshKeys!Commit \/ SshKeys!Rollback
    PROVE  KeysInv'
<1>1. KeyFlags'
  BY Zenon DEF KeysInv, KeyFlags, SshKeys!Commit, SshKeys!Rollback
<1>2. KeyRows'
  <2>1. CASE SshKeys!Commit
    <3>1. kWork.key \in SshKeys!Key \union {None} /\ kWork.tables \in SshKeys!Tables /\ Mastered(kWork.tables)
      BY DEF KeysInv, KeyPass, KeyWork
    <3>2. tables' = SshKeys!NoResources \/ tables' = kWork.tables
      BY <2>1 DEF SshKeys!Commit
    <3>3. tables' \in SshKeys!Tables /\ Mastered(tables')
      BY <3>1, <3>2, NoKeyResources
    <3>. QED
      BY <2>1, <3>1, <3>3 DEF KeysInv, KeyRows, SshKeys!Commit, SshKeys!Seen, Mastered
  <2>2. CASE SshKeys!Rollback
    BY <2>2 DEF KeysInv, KeyRows, SshKeys!Rollback, Mastered
  <2>. QED
    BY <2>1, <2>2
<1>3. KeyPass'
  <2>1. CASE SshKeys!Commit
    BY <2>1 DEF KeysInv, KeyPass, Mastered, SshKeys!Commit
  <2>2. CASE SshKeys!Rollback
    BY <2>2, NoKeyResources DEF KeysInv, KeyPass, Mastered, SshKeys!Rollback
  <2>. QED
    BY <2>1, <2>2
<1>4. kEvents' \in 0 .. MaxKeyEvents
  BY KeyTicks DEF KeysInv, SshKeys!Commit, SshKeys!Rollback
<1>. QED
  BY <1>1, <1>2, <1>3, <1>4 DEF KeysInv

LEMMA NodesOfKeys ==
    ASSUME SshKeys!KeysAssumption, KeysInv, NEW n \in Nodes,
           SshKeys!DeleteNode(n) \/ SshKeys!AgentActs(n) \/ SshKeys!AgentFails(n)
    PROVE  KeysInv'
<1>1. UNCHANGED <<key, tables, kPass, kWork, kLocked, kCopy, kOvertaken>> /\ nodes' \subseteq nodes
  BY DEF SshKeys!DeleteNode, SshKeys!AgentActs, SshKeys!AgentFails, SshKeys!AgentReports
<1>2. kEvents' \in 0 .. MaxKeyEvents
  BY KeyTicks DEF KeysInv, SshKeys!DeleteNode, SshKeys!AgentActs, SshKeys!AgentFails
<1>3. kActual' \in [Nodes -> SshKeys!Report \union {None}]
  <2>1. ASSUME NEW s \in {"IN_PROGRESS", "ACTIVE", "ERROR"}, SshKeys!AgentReports(n, s)
        PROVE  kActual' \in [Nodes -> SshKeys!Report \union {None}]
    <3>1. tables.host[n] # None => [form |-> tables.host[n].form, status |-> s] \in SshKeys!Report
      BY DEF KeysInv, KeyRows, SshKeys!Tables, SshKeys!Host, SshKeys!Report
    <3>. QED
      BY <2>1, <3>1 DEF SshKeys!AgentReports, KeysInv, KeyRows
  <2>2. CASE SshKeys!DeleteNode(n)
    BY <2>2 DEF SshKeys!DeleteNode, KeysInv, KeyRows
  <2>. QED
    BY <2>1, <2>2 DEF SshKeys!AgentActs, SshKeys!AgentFails
<1>4. KeyRows' /\ KeyPass'
  BY <1>1, <1>3 DEF KeysInv, KeyRows, KeyPass, Mastered
<1>5. KeyFlags'
  BY Zenon, <1>1 DEF KeysInv, KeyFlags
<1>. QED
  BY <1>2, <1>4, <1>5 DEF KeysInv

LEMMA KeysInvKept ==
    ASSUME SshKeys!KeysAssumption, KeysInv, [SshKeys!Next]_(SshKeys!vars)
    PROVE  KeysInv'
<1>1. CASE UNCHANGED SshKeys!vars
  <2>1. UNCHANGED <<key, nodes, tables, kActual, kPass, kWork, kLocked, kCopy, kEvents, kOvertaken>>
    BY <1>1 DEF SshKeys!vars
  <2>2. KeyRows' /\ KeyPass' /\ kEvents' \in 0 .. MaxKeyEvents
    BY <2>1 DEF KeysInv, KeyRows, KeyPass, Mastered
  <2>3. KeyFlags'
    BY Zenon, <2>1 DEF KeysInv, KeyFlags
  <2>. QED
    BY <2>2, <2>3 DEF KeysInv
<1>. QED
  BY <1>1, UsersOfKeys, PassesOfKeys, AnswersOfKeys, EndsOfPasses, NodesOfKeys
  DEF SshKeys!Next, SshKeys!Service

\* A host's resource never outlives the one of its key, whatever users do between the
\* passes (secret/service.py).
THEOREM KeyTypes == SshKeys!KeysAssumption /\ SshKeys!Spec => []SshKeys!TypeOK
<1>. SUFFICES ASSUME SshKeys!KeysAssumption PROVE SshKeys!Spec => []SshKeys!TypeOK
  OBVIOUS
<1>1. SshKeys!Init => KeysInv
  BY InitKeysInv
<1>2. KeysInv /\ [SshKeys!Next]_(SshKeys!vars) => KeysInv'
  BY KeysInvKept
<1>. QED
  BY <1>1, <1>2, KeyTypesHold, PTL DEF SshKeys!Spec

-----------------------------------------------------------------------------
(* Sessions.  A request writes what it made of rows that may be gone by     *)
(* then; the database refuses what refers to none, and a token that goes    *)
(* with its user or project is remembered as closed.                        *)

SessionRows ==
    /\ users \subseteq Users /\ orgs \subseteq Orgs
    /\ sMembers \in Seq(Sessions!Member \union {None})
    /\ project \in [Projects -> Orgs \union {None}]
    /\ bindings \in Seq((Users \X Projects) \union {None})

MembersStand == \A m \in Sessions!Rows(sMembers) : m.user \in users /\ m.org \in orgs
ProjectsStand == \A p \in Projects : project[p] # None => project[p] \in orgs
BindingsStand == \A b \in Sessions!Rows(bindings) : b[1] \in users /\ project[b[2]] # None

TokenRows ==
    /\ token \in [Tokens -> Sessions!Token \union {None}]
    /\ closed \intersect Sessions!Live = {} /\ held \subseteq closed \union Sessions!Live

TokensStand ==
    \A t \in Sessions!Live :
        token[t].user \in users /\ (token[t].project # None => project[token[t].project] # None)

CodeStands == code # None => code.token \in Sessions!Live \union {None}

\* What is under way would write a token, or hand out one that was there.
RequestRows ==
    /\ request \in [Requests -> Sessions!Request \union {None}]
    /\ \A r \in Requests : request[r] # None =>
           \/ request[r].op = "exchange" /\ request[r].token \in closed \union Sessions!Live
           \/ request[r].op # "exchange" /\ request[r].row \in Sessions!Token

SessionFlags == asked \in BOOLEAN

SessionsInv ==
    /\ SessionRows /\ MembersStand /\ ProjectsStand /\ BindingsStand
    /\ TokenRows /\ TokensStand /\ CodeStands /\ RequestRows
    /\ SessionFlags /\ changes \in 0 .. MaxChanges

LEMMA SessionTypesHold == SessionsInv => Sessions!TypeOK
<1>. SUFFICES ASSUME SessionsInv PROVE Sessions!TypeOK
  OBVIOUS
<1>1. Sessions!Rows(sMembers) \subseteq Sessions!Member
  BY DEF SessionsInv, SessionRows, Sessions!Rows
<1>. QED
  BY Zenon, <1>1 DEF SessionsInv, SessionRows, MembersStand, ProjectsStand, BindingsStand,
    TokenRows, TokensStand, CodeStands, RequestRows, SessionFlags, Sessions!TypeOK

-----------------------------------------------------------------------------
\* A table keeps its type, whatever is taken out, changed or put in.
LEMMA TableWithout ==
    ASSUME NEW S, None \in S, NEW table \in Seq(S), NEW gone
    PROVE  /\ Sessions!Without(table, gone) \in Seq(S)
           /\ Sessions!Rows(Sessions!Without(table, gone)) \subseteq Sessions!Rows(table) \ gone
<1>1. Len(table) \in Nat /\ DOMAIN table = 1 .. Len(table) /\ \A i \in 1 .. Len(table) : table[i] \in S
  OBVIOUS
<1>. DEFINE less == [i \in 1 .. Len(table) |-> IF table[i] \in gone THEN None ELSE table[i]]
<1>2. Sessions!Without(table, gone) = less
  BY <1>1 DEF Sessions!Without
<1>3. less \in [1 .. Len(table) -> S]
  BY <1>1
<1>4. less \in Seq(S)
  BY <1>1, <1>3
<1>5. ASSUME NEW x \in Sessions!Rows(less) PROVE x \in Sessions!Rows(table) \ gone
  <2>1. PICK i \in DOMAIN less : x = less[i] /\ x # None
    BY <1>5 DEF Sessions!Rows
  <2>2. i \in DOMAIN table /\ less[i] = IF table[i] \in gone THEN None ELSE table[i]
    BY <1>1
  <2>3. table[i] \notin gone /\ x = table[i]
    BY <2>1, <2>2
  <2>. QED
    BY Zenon, <2>1, <2>2, <2>3 DEF Sessions!Rows
<1>. HIDE DEF less
<1>6. Sessions!Rows(less) \subseteq Sessions!Rows(table) \ gone
  BY <1>5
<1>. QED
  BY <1>2, <1>4, <1>6

LEMMA TableWith ==
    ASSUME NEW S, NEW table \in Seq(S), NEW x \in S
    PROVE  /\ Append(table, x) \in Seq(S)
           /\ Sessions!Rows(Append(table, x)) \subseteq Sessions!Rows(table) \union {x}
<1>1. Append(table, x) \in Seq(S)
  OBVIOUS
<1>2. ASSUME NEW y \in Sessions!Rows(Append(table, x)) PROVE y \in Sessions!Rows(table) \union {x}
  <2>1. PICK i \in DOMAIN Append(table, x) : y = Append(table, x)[i] /\ y # None
    BY <1>2 DEF Sessions!Rows
  <2>2. Len(table) \in Nat /\ i \in 1 .. Len(table) + 1 /\ DOMAIN table = 1 .. Len(table)
    BY <2>1
  <2>3. CASE i = Len(table) + 1
    BY <2>1, <2>3
  <2>4. CASE i \in 1 .. Len(table)
    BY <2>1, <2>2, <2>4 DEF Sessions!Rows
  <2>. QED
    BY <2>2, <2>3, <2>4
<1>. QED
  BY <1>1, <1>2

LEMMA FirstOfSome ==
    ASSUME NEW n \in Nat, NEW S \in SUBSET (1 .. n), S # {}
    PROVE  \E x \in S : \A y \in S : x <= y
<1>. DEFINE Below(x) == {y \in S : y < x}
            F == {Below(x) : x \in S}
<1>1. IsFiniteSet(S)
  <2>1. IsFiniteSet(1 .. n)
    BY FS_Interval
  <2>. QED
    BY <2>1, FS_Subset
<1>2. F \subseteq FiniteSubsetsOf(S) /\ F # {}
  <2>1. \A x \in S : IsFiniteSet(Below(x))
    BY <1>1, FS_Subset
  <2>. QED
    BY <2>1 DEF FiniteSubsetsOf
<1>3. PICK B \in F : \A C \in F : <<C, B>> \notin StrictSubsetOrdering(S)
  <2>. HIDE DEF F
  <2>. QED
    BY <1>1, <1>2, FS_StrictSubsetOrderingWellFounded, WFMin
<1>4. PICK x \in S : B = Below(x)
  BY <1>3
<1>5. \A y \in S : x <= y
  <2>. SUFFICES ASSUME NEW y \in S, y < x PROVE FALSE
    OBVIOUS
  <2>1. \A z \in Below(y) : z \in S /\ z < x
    OBVIOUS
  <2>2. y \in Below(x) /\ y \notin Below(y)
    OBVIOUS
  <2>3. <<Below(y), Below(x)>> \in StrictSubsetOrdering(S)
    BY <2>1, <2>2 DEF StrictSubsetOrdering
  <2>. QED
    BY <1>3, <1>4, <2>3
<1>. QED
  BY <1>5

LEMMA OldestIsOne ==
    ASSUME NEW S, NEW table \in Seq(S), NEW some \in SUBSET Sessions!Rows(table), some # {}
    PROVE  Sessions!Oldest(table, some) \in some
<1>. DEFINE I == {i \in DOMAIN table : table[i] \in some}
<1>1. Len(table) \in Nat /\ DOMAIN table = 1 .. Len(table)
  OBVIOUS
<1>2. I \subseteq 1 .. Len(table) /\ I # {}
  BY <1>1 DEF Sessions!Rows
<1>3. PICK i \in I : \A j \in I : i <= j
  <2>. HIDE DEF I
  <2>. QED
    BY <1>1, <1>2, FirstOfSome
<1>4. \E k \in DOMAIN table : table[k] \in some /\ \A j \in DOMAIN table : table[j] \in some => k <= j
  BY <1>3
<1>. QED
  BY <1>4 DEF Sessions!Oldest

\* The default project of a user is one of the projects, or there is none.
LEMMA DefaultIsAProject ==
    ASSUME SessionRows, NEW u
    PROVE  Sessions!DefaultProject(u) \in Projects \union {None}
<1>. DEFINE mine == {b \in Sessions!Rows(bindings) : b[1] = u /\ project[b[2]] = Sessions!DefaultOrg(u)}
<1>1. Sessions!Rows(bindings) \subseteq Users \X Projects
  BY DEF SessionRows, Sessions!Rows
<1>2. mine # {} => Sessions!Oldest(bindings, mine) \in mine
  BY OldestIsOne DEF SessionRows
<1>3. mine # {} => Sessions!Oldest(bindings, mine)[2] \in Projects
  BY <1>1, <1>2
<1>4. Sessions!DefaultProject(u) = IF mine = {} THEN None ELSE Sessions!Oldest(bindings, mine)[2]
  BY DEF Sessions!DefaultProject
<1>. HIDE DEF mine
<1>. QED
  BY <1>3, <1>4

-----------------------------------------------------------------------------
LEMMA InitSessionsInv == Sessions!SessionsAssumption /\ Sessions!Init => SessionsInv
<1>. SUFFICES ASSUME Sessions!SessionsAssumption, Sessions!Init PROVE SessionsInv
  OBVIOUS
<1>1. PICK n \in 0 .. 3, o \in Orgs, p \in Projects, s \in ServiceUsers :
        /\ orgs = IF n = 0 THEN {} ELSE {o}
        /\ sMembers = IF n = 0 THEN << >> ELSE <<[org |-> o, user |-> Admin, role |-> "OWNER"]>>
        /\ project = [q \in Projects |-> IF n >= 2 /\ q = p THEN o ELSE None]
        /\ bindings = CASE n = 2 -> <<<<Admin, p>>>>
                        [] n = 3 -> <<<<Admin, p>>, <<s, p>>>>
                        [] OTHER -> << >>
  BY DEF Sessions!Init
<1>2. Admin \in Users /\ s \in Users /\ None \notin Orgs
  BY DEF Sessions!SessionsAssumption
<1>3. [org |-> o, user |-> Admin, role |-> "OWNER"] \in Sessions!Member
  BY <1>2 DEF Sessions!Member
<1>4. /\ sMembers \in Seq(Sessions!Member \union {None})
      /\ \A m \in Sessions!Rows(sMembers) : n # 0 /\ m.org = o /\ m.user = Admin
  <2>1. CASE n = 0
    <3>1. sMembers = << >>
      BY <1>1, <2>1
    <3>. QED
      BY <3>1 DEF Sessions!Rows
  <2>2. CASE n # 0
    <3>. DEFINE owner == [org |-> o, user |-> Admin, role |-> "OWNER"]
    <3>1. sMembers = <<owner>> /\ owner.org = o /\ owner.user = Admin
      BY <1>1, <2>2
    <3>2. owner \in Sessions!Member
      BY <1>3
    <3>. HIDE DEF owner
    <3>. QED
      BY <3>1, <3>2, <2>2 DEF Sessions!Rows
  <2>. QED
    BY <2>1, <2>2
<1>5. /\ bindings \in Seq((Users \X Projects) \union {None})
      /\ \A b \in Sessions!Rows(bindings) : n >= 2 /\ b[1] \in Users /\ b[2] = p
  <2>2. n = 0 \/ n = 1 \/ n = 2 \/ n = 3
    OBVIOUS
  <2>3. CASE n = 0 \/ n = 1
    <3>1. bindings = << >>
      BY <1>1, <2>3
    <3>. QED
      BY <3>1 DEF Sessions!Rows
  <2>4. CASE n = 2
    <3>1. bindings = <<<<Admin, p>>>>
      BY <1>1, <2>4
    <3>. QED
      BY <3>1, <2>4, <1>2 DEF Sessions!Rows
  <2>5. CASE n = 3
    <3>1. bindings = <<<<Admin, p>>, <<s, p>>>>
      BY <1>1, <2>5
    <3>. QED
      BY <3>1, <2>5, <1>2 DEF Sessions!Rows
  <2>. QED
    BY <2>2, <2>3, <2>4, <2>5
<1>6. users = Users /\ orgs \subseteq Orgs /\ project \in [Projects -> Orgs \union {None}]
  BY <1>1 DEF Sessions!Init
<1>7. SessionRows
  BY <1>4, <1>5, <1>6 DEF SessionRows
<1>8. MembersStand /\ ProjectsStand
  BY <1>1, <1>2, <1>4, <1>6 DEF MembersStand, ProjectsStand
<1>9. BindingsStand
  <2>1. n >= 2 => project[p] = o
    BY <1>1
  <2>. QED
    BY <2>1, <1>2, <1>5, <1>6 DEF BindingsStand
<1>10. TokenRows /\ TokensStand /\ CodeStands /\ RequestRows /\ changes \in 0 .. MaxChanges
  BY DEF Sessions!SessionsAssumption, Sessions!Init, Sessions!Live, TokenRows, TokensStand, CodeStands, RequestRows
<1>11. SessionFlags
  BY Zenon DEF Sessions!Init, SessionFlags
<1>. QED
  BY <1>7, <1>8, <1>9, <1>10, <1>11 DEF SessionsInv

-----------------------------------------------------------------------------
LEMMA ChangesCounted ==
    ASSUME Sessions!SessionsAssumption, SessionsInv, Sessions!Changed
    PROVE  SessionFlags' /\ changes' \in 0 .. MaxChanges
<1>1. SessionFlags'
  BY Zenon DEF SessionsInv, SessionFlags, Sessions!Changed
<1>2. changes' \in 0 .. MaxChanges
  BY DEF SessionsInv, Sessions!SessionsAssumption, Sessions!Changed
<1>. QED
  BY <1>1, <1>2

\* People and projects may come, and members and bindings go, beside the tokens.
LEMMA PeopleBesideTokens ==
    ASSUME Sessions!SessionsAssumption, SessionsInv, Sessions!Changed, Sessions!Kept,
           SessionRows', MembersStand', ProjectsStand', BindingsStand',
           users' = users, \A p \in Projects : project[p] # None => project'[p] # None
    PROVE  SessionsInv'
<1>1. Sessions!Live' = Sessions!Live
  BY DEF Sessions!Live, Sessions!Kept
<1>2. token' = token /\ closed' = closed /\ code' = code /\ held' = held /\ request' = request
  BY DEF Sessions!Kept, Sessions!Changed
<1>3. TokenRows'
  BY <1>1, <1>2 DEF TokenRows, SessionsInv
<1>4. TokensStand'
  <2>1. \A t \in Sessions!Live : token[t] \in Sessions!Token
    BY DEF SessionsInv, TokenRows, Sessions!Live
  <2>2. \A t \in Sessions!Live : token[t].project # None => token[t].project \in Projects
    BY <2>1 DEF Sessions!Token
  <2>. QED
    BY <1>1, <1>2, <2>2 DEF TokensStand, SessionsInv
<1>5. CodeStands' /\ RequestRows'
  BY <1>1, <1>2 DEF CodeStands, RequestRows, SessionsInv
<1>. QED
  BY <1>3, <1>4, <1>5, ChangesCounted DEF SessionsInv

\* Tokens go with their user or project: none is left that refers to it.
LEMMA TokensGo ==
    ASSUME SessionsInv, NEW gone \in SUBSET Sessions!Live, Sessions!Cascade(gone),
           code' = code, held' = held, request' = request
    PROVE  /\ TokenRows' /\ CodeStands' /\ RequestRows'
           /\ Sessions!Live' = Sessions!Live \ gone
           /\ \A t \in Sessions!Live' : token'[t] = token[t]
<1>1. /\ token' = [t \in Tokens |-> IF t \in gone THEN None ELSE token[t]]
      /\ closed' = closed \union gone
      /\ code # None => code.token \notin gone
  BY DEF Sessions!Cascade
<1>2. /\ Sessions!Live' = Sessions!Live \ gone
      /\ \A t \in Sessions!Live' : token'[t] = token[t]
  BY <1>1 DEF Sessions!Live
<1>3. TokenRows'
  <2>1. token' \in [Tokens -> Sessions!Token \union {None}]
    BY <1>1 DEF SessionsInv, TokenRows
  <2>. QED
    BY <1>1, <1>2, <2>1 DEF SessionsInv, TokenRows
<1>4. CodeStands'
  BY <1>1, <1>2 DEF SessionsInv, CodeStands
<1>5. RequestRows'
  BY <1>1, <1>2 DEF SessionsInv, RequestRows
<1>. QED
  BY <1>2, <1>3, <1>4, <1>5

LEMMA TokensAreTyped ==
    ASSUME SessionsInv, NEW t \in Sessions!Live
    PROVE  /\ t \in Tokens /\ token[t] \in Sessions!Token
           /\ token[t].user \in users /\ token[t].user \in Users
           /\ token[t].project # None => token[t].project \in Projects
           /\ token[t].scope \in {"openid", "default"} \union Projects
<1>1. t \in Tokens /\ token[t] \in Sessions!Token
  BY DEF SessionsInv, TokenRows, Sessions!Live
<1>2. token[t].user \in users
  BY DEF SessionsInv, TokensStand
<1>. QED
  BY <1>1, <1>2 DEF Sessions!Token

-----------------------------------------------------------------------------
(* Organizations and their members.                                         *)

LEMMA OrganizationsChange ==
    ASSUME Sessions!SessionsAssumption, SessionsInv, NEW t \in Tokens, NEW o \in Orgs,
           Sessions!CreateOrganization(t, o) \/ Sessions!DeleteOrganization(t, o)
    PROVE  SessionsInv'
<1>1. /\ Sessions!Changed /\ Sessions!Kept
      /\ users' = users /\ project' = project /\ bindings' = bindings
      /\ t \in Sessions!Live
  BY DEF Sessions!CreateOrganization, Sessions!DeleteOrganization, Sessions!Valid
<1>2. BindingsStand'
  BY <1>1 DEF BindingsStand, SessionsInv, Sessions!Rows
<1>3. CASE Sessions!CreateOrganization(t, o)
  <2>. DEFINE owner == [org |-> o, user |-> token[t].user, role |-> "OWNER"]
  <2>1. orgs' = orgs \union {o} /\ sMembers' = Append(sMembers, owner)
    BY <1>3 DEF Sessions!CreateOrganization
  <2>2. token[t].user \in users /\ token[t].user \in Users
    BY <1>1, TokensAreTyped
  <2>3. owner \in Sessions!Member /\ owner.org = o /\ owner.user \in users
    BY <2>2 DEF Sessions!Member
  <2>. HIDE DEF owner
  <2>4. sMembers' \in Seq(Sessions!Member \union {None})
        /\ Sessions!Rows(sMembers') \subseteq Sessions!Rows(sMembers) \union {owner}
    <3>1. sMembers \in Seq(Sessions!Member \union {None}) /\ owner \in Sessions!Member \union {None}
      BY <2>3 DEF SessionsInv, SessionRows
    <3>. QED
      BY <2>1, <3>1, TableWith
  <2>5. MembersStand'
    BY <1>1, <2>1, <2>3, <2>4 DEF MembersStand, SessionsInv, Sessions!Rows
  <2>6. SessionRows' /\ ProjectsStand'
    BY <1>1, <2>1, <2>4 DEF SessionRows, ProjectsStand, SessionsInv
  <2>. QED
    BY <1>1, <1>2, <2>5, <2>6, PeopleBesideTokens
<1>4. CASE Sessions!DeleteOrganization(t, o)
  <2>. DEFINE gone == {m \in Sessions!Rows(sMembers) : m.org = o}
  <2>1. /\ orgs' = orgs \ {o} /\ \A p \in Projects : project[p] # o
        /\ sMembers' = Sessions!Without(sMembers, gone)
    BY <1>4 DEF Sessions!DeleteOrganization
  <2>2. /\ sMembers' \in Seq(Sessions!Member \union {None})
        /\ Sessions!Rows(sMembers') \subseteq Sessions!Rows(sMembers) \ gone
    <3>1. sMembers \in Seq(Sessions!Member \union {None})
      BY DEF SessionsInv, SessionRows
    <3>. QED
      BY <2>1, <3>1, TableWithout
  <2>3. \A m \in Sessions!Rows(sMembers') : m \in Sessions!Rows(sMembers) /\ m.org # o
    BY <2>2
  <2>4. MembersStand'
    BY <1>1, <2>1, <2>3 DEF MembersStand, SessionsInv, Sessions!Rows
  <2>5. SessionRows' /\ ProjectsStand'
    BY <1>1, <2>1, <2>2 DEF SessionRows, ProjectsStand, SessionsInv
  <2>. QED
    BY <1>1, <1>2, <2>4, <2>5, PeopleBesideTokens
<1>. QED
  BY <1>3, <1>4

\* Members of organizations that are there come, change their role and go.
LEMMA MembersBeside ==
    ASSUME Sessions!SessionsAssumption, SessionsInv, Sessions!Changed, Sessions!Kept,
           UNCHANGED <<users, orgs, project, bindings>>,
           sMembers' \in Seq(Sessions!Member \union {None}),
           \A m \in Sessions!Rows(sMembers') : m.user \in users /\ m.org \in orgs
    PROVE  SessionsInv'
<1>1. SessionRows' /\ ProjectsStand'
  BY DEF SessionRows, ProjectsStand, SessionsInv
<1>2. MembersStand' /\ BindingsStand'
  BY DEF MembersStand, BindingsStand, SessionsInv, Sessions!Rows
<1>. QED
  BY <1>1, <1>2, PeopleBesideTokens

LEMMA MembersChange ==
    ASSUME Sessions!SessionsAssumption, SessionsInv, NEW t \in Tokens,
           \/ \E m \in Sessions!Member : Sessions!AddMember(t, m)
           \/ \E m \in Sessions!Rows(sMembers) : Sessions!DeleteMember(t, m)
           \/ \E i \in DOMAIN sMembers, role \in {"OWNER", "MEMBER"} : Sessions!UpdateMember(t, i, role)
    PROVE  SessionsInv'
<1>. DEFINE Stand(rows) == \A m \in rows : m.user \in users /\ m.org \in orgs
<1>1. /\ sMembers \in Seq(Sessions!Member \union {None}) /\ Stand(Sessions!Rows(sMembers))
      /\ Len(sMembers) \in Nat /\ DOMAIN sMembers = 1 .. Len(sMembers)
  BY DEF SessionsInv, SessionRows, MembersStand
<1>2. ASSUME NEW m \in Sessions!Member, Sessions!AddMember(t, m)
      PROVE  SessionsInv'
  <2>1. /\ m.org \in orgs /\ m.user \in users /\ sMembers' = Append(sMembers, m)
        /\ UNCHANGED <<users, orgs, project, bindings>> /\ Sessions!Changed /\ Sessions!Kept
    BY <1>2 DEF Sessions!AddMember
  <2>2. m \in Sessions!Member \union {None}
    OBVIOUS
  <2>3. /\ sMembers' \in Seq(Sessions!Member \union {None})
        /\ Sessions!Rows(sMembers') \subseteq Sessions!Rows(sMembers) \union {m}
    BY <1>1, <2>1, <2>2, TableWith
  <2>4. Stand(Sessions!Rows(sMembers'))
    BY <1>1, <2>1, <2>3
  <2>. QED
    BY <2>1, <2>3, <2>4, MembersBeside
<1>3. ASSUME NEW m \in Sessions!Rows(sMembers), Sessions!DeleteMember(t, m)
      PROVE  SessionsInv'
  <2>1. /\ sMembers' = Sessions!Without(sMembers, {m})
        /\ UNCHANGED <<users, orgs, project, bindings>> /\ Sessions!Changed /\ Sessions!Kept
    BY <1>3 DEF Sessions!DeleteMember
  <2>2. /\ sMembers' \in Seq(Sessions!Member \union {None})
        /\ Sessions!Rows(sMembers') \subseteq Sessions!Rows(sMembers) \ {m}
    BY <1>1, <2>1, TableWithout
  <2>3. Stand(Sessions!Rows(sMembers'))
    BY <1>1, <2>2
  <2>. QED
    BY <2>1, <2>2, <2>3, MembersBeside
<1>4. ASSUME NEW i \in DOMAIN sMembers, NEW role \in {"OWNER", "MEMBER"}, Sessions!UpdateMember(t, i, role)
      PROVE  SessionsInv'
  <2>1. /\ sMembers[i] # None /\ sMembers' = [sMembers EXCEPT ![i].role = role]
        /\ UNCHANGED <<users, orgs, project, bindings>> /\ Sessions!Changed /\ Sessions!Kept
    BY <1>4 DEF Sessions!UpdateMember
  <2>. DEFINE changed == [sMembers[i] EXCEPT !.role = role]
  <2>2. sMembers[i] \in Sessions!Member /\ sMembers[i] \in Sessions!Rows(sMembers)
    BY <1>1, <2>1 DEF Sessions!Rows
  <2>3. changed \in Sessions!Member /\ changed.user \in users /\ changed.org \in orgs
    BY <1>1, <2>2 DEF Sessions!Member
  <2>4. sMembers' = [sMembers EXCEPT ![i] = changed]
    BY <2>1
  <2>. HIDE DEF changed
  <2>5. sMembers' \in Seq(Sessions!Member \union {None})
    BY <1>1, <2>3, <2>4
  <2>6. ASSUME NEW m \in Sessions!Rows(sMembers') PROVE m.user \in users /\ m.org \in orgs
    <3>1. PICK j \in DOMAIN sMembers' : m = sMembers'[j] /\ m # None
      BY <2>6 DEF Sessions!Rows
    <3>2. CASE j = i
      BY <1>1, <2>3, <2>4, <3>1, <3>2
    <3>3. CASE j # i
      <4>1. j \in DOMAIN sMembers /\ m = sMembers[j] /\ m # None
        BY <1>1, <2>4, <3>1, <3>3
      <4>2. m \in Sessions!Rows(sMembers)
        BY <4>1 DEF Sessions!Rows
      <4>. QED
        BY <1>1, <4>2
    <3>. QED
      BY <3>2, <3>3
  <2>. QED
    BY <2>1, <2>5, <2>6, MembersBeside
<1>. QED
  BY <1>2, <1>3, <1>4

-----------------------------------------------------------------------------
(* Projects, bindings and users.                                            *)

LEMMA BindingsBeside ==
    ASSUME Sessions!SessionsAssumption, SessionsInv, Sessions!Changed, Sessions!Kept,
           UNCHANGED <<users, orgs, sMembers>>, ProjectsStand',
           project' \in [Projects -> Orgs \union {None}],
           \A p \in Projects : project[p] # None => project'[p] # None,
           bindings' \in Seq((Users \X Projects) \union {None}),
           \A b \in Sessions!Rows(bindings') : b[1] \in users /\ project'[b[2]] # None
    PROVE  SessionsInv'
<1>1. SessionRows'
  BY DEF SessionRows, SessionsInv
<1>2. MembersStand' /\ BindingsStand'
  BY DEF MembersStand, BindingsStand, SessionsInv, Sessions!Rows
<1>. QED
  BY <1>1, <1>2, PeopleBesideTokens

LEMMA ProjectsCome ==
    ASSUME Sessions!SessionsAssumption, SessionsInv, NEW t \in Tokens, NEW o \in Orgs, NEW p \in Projects,
           Sessions!CreateProject(t, o, p)
    PROVE  SessionsInv'
<1>1. /\ o \in orgs /\ t \in Sessions!Live /\ project[p] = None
      /\ project' = [project EXCEPT ![p] = o]
      /\ bindings' = Append(bindings, <<token[t].user, p>>)
      /\ UNCHANGED <<users, orgs, sMembers>> /\ Sessions!Changed /\ Sessions!Kept
  BY DEF Sessions!CreateProject, Sessions!Valid
<1>2. o # None /\ project \in [Projects -> Orgs \union {None}]
  BY DEF Sessions!SessionsAssumption, SessionsInv, SessionRows
<1>3. /\ project' \in [Projects -> Orgs \union {None}] /\ project'[p] # None
      /\ \A q \in Projects : q # p => project'[q] = project[q]
      /\ \A q \in Projects : project[q] # None => project'[q] # None
  BY <1>1, <1>2
<1>4. ProjectsStand'
  BY <1>1, <1>2 DEF ProjectsStand, SessionsInv
<1>. DEFINE own == <<token[t].user, p>>
<1>5. own \in Users \X Projects /\ own[1] \in users /\ own[2] = p /\ bindings' = Append(bindings, own)
  BY <1>1, TokensAreTyped
<1>. HIDE DEF own
<1>6. bindings \in Seq((Users \X Projects) \union {None}) /\ own \in (Users \X Projects) \union {None}
  BY <1>5 DEF SessionsInv, SessionRows
<1>7. /\ bindings' \in Seq((Users \X Projects) \union {None})
      /\ Sessions!Rows(bindings') \subseteq Sessions!Rows(bindings) \union {own}
  BY <1>5, <1>6, TableWith
<1>8. \A b \in Sessions!Rows(bindings) : b[1] \in users /\ b[2] \in Projects /\ project[b[2]] # None
  <2>1. Sessions!Rows(bindings) \subseteq Users \X Projects
    BY <1>6 DEF Sessions!Rows
  <2>. QED
    BY <2>1 DEF SessionsInv, BindingsStand
<1>9. \A b \in Sessions!Rows(bindings') : b[1] \in users /\ project'[b[2]] # None
  BY <1>3, <1>5, <1>7, <1>8
<1>. QED
  BY <1>1, <1>3, <1>4, <1>7, <1>9, BindingsBeside

LEMMA BindingsChange ==
    ASSUME Sessions!SessionsAssumption, SessionsInv, NEW t \in Tokens,
           \/ \E u \in Users, p \in Projects : Sessions!BindRole(t, u, p)
           \/ \E b \in Sessions!Rows(bindings) : Sessions!UnbindRole(t, b)
    PROVE  SessionsInv'
<1>1. /\ bindings \in Seq((Users \X Projects) \union {None})
      /\ \A b \in Sessions!Rows(bindings) : b[1] \in users /\ project[b[2]] # None
      /\ project \in [Projects -> Orgs \union {None}]
  BY DEF SessionsInv, SessionRows, BindingsStand
<1>2. ASSUME NEW u \in Users, NEW p \in Projects, Sessions!BindRole(t, u, p)
      PROVE  SessionsInv'
  <2>1. /\ u \in users /\ project[p] # None /\ bindings' = Append(bindings, <<u, p>>)
        /\ UNCHANGED <<users, orgs, sMembers, project>> /\ Sessions!Changed /\ Sessions!Kept
    BY <1>2 DEF Sessions!BindRole
  <2>2. <<u, p>> \in (Users \X Projects) \union {None}
    OBVIOUS
  <2>3. /\ bindings' \in Seq((Users \X Projects) \union {None})
        /\ Sessions!Rows(bindings') \subseteq Sessions!Rows(bindings) \union {<<u, p>>}
    BY <1>1, <2>1, <2>2, TableWith
  <2>4. \A b \in Sessions!Rows(bindings') : b[1] \in users /\ project'[b[2]] # None
    BY <1>1, <2>1, <2>3
  <2>5. ProjectsStand'
    BY <2>1 DEF ProjectsStand, SessionsInv
  <2>. QED
    BY <1>1, <2>1, <2>3, <2>4, <2>5, BindingsBeside
<1>3. ASSUME NEW b \in Sessions!Rows(bindings), Sessions!UnbindRole(t, b)
      PROVE  SessionsInv'
  <2>1. /\ bindings' = Sessions!Without(bindings, {b})
        /\ UNCHANGED <<users, orgs, sMembers, project>> /\ Sessions!Changed /\ Sessions!Kept
    BY <1>3 DEF Sessions!UnbindRole
  <2>2. /\ bindings' \in Seq((Users \X Projects) \union {None})
        /\ Sessions!Rows(bindings') \subseteq Sessions!Rows(bindings) \ {b}
    BY <1>1, <2>1, TableWithout
  <2>3. \A x \in Sessions!Rows(bindings') : x[1] \in users /\ project'[x[2]] # None
    BY <1>1, <2>1, <2>2
  <2>4. ProjectsStand'
    BY <2>1 DEF ProjectsStand, SessionsInv
  <2>. QED
    BY <1>1, <2>1, <2>2, <2>3, <2>4, BindingsBeside
<1>. QED
  BY <1>2, <1>3

LEMMA ProjectsGo ==
    ASSUME Sessions!SessionsAssumption, SessionsInv, NEW t \in Tokens, NEW p \in Projects,
           Sessions!DeleteProject(t, p)
    PROVE  SessionsInv'
<1>. DEFINE gone == {x \in Sessions!Live : token[x].project = p}
            unbound == {b \in Sessions!Rows(bindings) : b[2] = p}
<1>1. /\ project' = [project EXCEPT ![p] = None]
      /\ bindings' = Sessions!Without(bindings, unbound)
      /\ Sessions!Cascade(gone)
      /\ UNCHANGED <<users, orgs, sMembers>> /\ Sessions!Changed
  BY DEF Sessions!DeleteProject
<1>2. project \in [Projects -> Orgs \union {None}] /\ bindings \in Seq((Users \X Projects) \union {None})
  BY DEF SessionsInv, SessionRows
<1>3. /\ project' \in [Projects -> Orgs \union {None}]
      /\ \A q \in Projects : q # p => project'[q] = project[q]
      /\ project'[p] = None
  BY <1>1, <1>2
<1>4. /\ bindings' \in Seq((Users \X Projects) \union {None})
      /\ Sessions!Rows(bindings') \subseteq Sessions!Rows(bindings) \ unbound
  BY <1>1, <1>2, TableWithout
<1>5. SessionRows'
  BY <1>1, <1>3, <1>4 DEF SessionRows, SessionsInv
<1>6. MembersStand'
  BY <1>1 DEF MembersStand, SessionsInv, Sessions!Rows
<1>7. ProjectsStand'
  BY <1>1, <1>3 DEF ProjectsStand, SessionsInv
<1>8. BindingsStand'
  <2>1. \A b \in Sessions!Rows(bindings) : b[2] \in Projects
    BY <1>2 DEF Sessions!Rows
  <2>2. \A b \in Sessions!Rows(bindings') : b \in Sessions!Rows(bindings) /\ b[2] # p
    BY <1>4
  <2>3. ASSUME NEW b \in Sessions!Rows(bindings') PROVE b[1] \in users' /\ project'[b[2]] # None
    BY <1>1, <1>3, <2>1, <2>2 DEF BindingsStand, SessionsInv
  <2>. QED
    BY <2>3 DEF BindingsStand, Sessions!Rows
<1>9. /\ TokenRows' /\ CodeStands' /\ RequestRows'
      /\ Sessions!Live' = Sessions!Live \ gone
      /\ \A x \in Sessions!Live' : token'[x] = token[x]
  <2>1. gone \in SUBSET Sessions!Live /\ code' = code /\ held' = held /\ request' = request
    BY <1>1 DEF Sessions!Changed
  <2>. HIDE DEF gone
  <2>. QED
    BY <1>1, <2>1, TokensGo
<1>10. TokensStand'
  <2>1. ASSUME NEW x \in Sessions!Live \ gone
        PROVE  token[x].user \in users' /\ (token[x].project # None => project'[token[x].project] # None)
    <3>1. /\ token[x].user \in users
          /\ token[x].project # None => token[x].project \in Projects /\ token[x].project # p
      BY TokensAreTyped
    <3>2. token[x].project # None => project[token[x].project] # None
      BY DEF SessionsInv, TokensStand
    <3>. QED
      BY <1>1, <1>3, <3>1, <3>2
  <2>. QED
    BY <1>9, <2>1 DEF TokensStand
<1>. QED
  BY <1>1, <1>5, <1>6, <1>7, <1>8, <1>9, <1>10, ChangesCounted DEF SessionsInv

LEMMA UsersGo ==
    ASSUME Sessions!SessionsAssumption, SessionsInv, NEW t \in Tokens, NEW u \in Users,
           Sessions!DeleteUser(t, u)
    PROVE  SessionsInv'
<1>. DEFINE gone == {x \in Sessions!Live : token[x].user = u}
            left == {m \in Sessions!Rows(sMembers) : m.user = u}
            unbound == {b \in Sessions!Rows(bindings) : b[1] = u}
<1>1. /\ users' = users \ {u}
      /\ sMembers' = Sessions!Without(sMembers, left)
      /\ bindings' = Sessions!Without(bindings, unbound)
      /\ Sessions!Cascade(gone)
      /\ UNCHANGED <<orgs, project>> /\ Sessions!Changed
  BY DEF Sessions!DeleteUser
<1>2. /\ sMembers \in Seq(Sessions!Member \union {None})
      /\ bindings \in Seq((Users \X Projects) \union {None})
  BY DEF SessionsInv, SessionRows
<1>3. /\ sMembers' \in Seq(Sessions!Member \union {None})
      /\ Sessions!Rows(sMembers') \subseteq Sessions!Rows(sMembers) \ left
  BY <1>1, <1>2, TableWithout
<1>4. /\ bindings' \in Seq((Users \X Projects) \union {None})
      /\ Sessions!Rows(bindings') \subseteq Sessions!Rows(bindings) \ unbound
  BY <1>1, <1>2, TableWithout
<1>5. SessionRows'
  BY <1>1, <1>3, <1>4 DEF SessionRows, SessionsInv
<1>6. MembersStand'
  <2>1. \A m \in Sessions!Rows(sMembers') : m \in Sessions!Rows(sMembers) /\ m.user # u
    BY <1>3
  <2>2. \A m \in Sessions!Rows(sMembers') : m.user \in users' /\ m.org \in orgs'
    BY <1>1, <2>1 DEF MembersStand, SessionsInv
  <2>. QED
    BY <2>2 DEF MembersStand, Sessions!Rows
<1>7. ProjectsStand'
  BY <1>1 DEF ProjectsStand, SessionsInv
<1>8. BindingsStand'
  <2>1. \A b \in Sessions!Rows(bindings') : b \in Sessions!Rows(bindings) /\ b[1] # u
    BY <1>4
  <2>2. \A b \in Sessions!Rows(bindings') : b[1] \in users' /\ project'[b[2]] # None
    BY <1>1, <2>1 DEF BindingsStand, SessionsInv
  <2>. QED
    BY <2>2 DEF BindingsStand, Sessions!Rows
<1>9. /\ TokenRows' /\ CodeStands' /\ RequestRows'
      /\ Sessions!Live' = Sessions!Live \ gone
      /\ \A x \in Sessions!Live' : token'[x] = token[x]
  <2>1. gone \in SUBSET Sessions!Live /\ code' = code /\ held' = held /\ request' = request
    BY <1>1 DEF Sessions!Changed
  <2>. HIDE DEF gone
  <2>. QED
    BY <1>1, <2>1, TokensGo
<1>10. TokensStand'
  <2>1. ASSUME NEW x \in Sessions!Live \ gone
        PROVE  token[x].user \in users' /\ (token[x].project # None => project'[token[x].project] # None)
    BY <1>1 DEF SessionsInv, TokensStand
  <2>. QED
    BY <1>9, <2>1 DEF TokensStand
<1>. QED
  BY <1>1, <1>5, <1>6, <1>7, <1>8, <1>9, <1>10, ChangesCounted DEF SessionsInv

-----------------------------------------------------------------------------
(* Tokens: what a request reads.                                            *)

LEMMA RequestBegins ==
    ASSUME SessionsInv, NEW r \in Requests, NEW op, NEW t, NEW made,
           Sessions!Begins(r, op, t, made),
           \/ op = "exchange" /\ t \in Sessions!Live /\ made = None
           \/ op \in {"issue", "refresh", "confirm"} /\ t \in Tokens \union {None} /\ made \in Sessions!Token
    PROVE  SessionsInv'
<1>. DEFINE begun == [op |-> op, token |-> t, row |-> made]
<1>1. /\ request' = [request EXCEPT ![r] = begun]
      /\ UNCHANGED <<users, orgs, sMembers, project, bindings, token, code, asked, held, changes, closed>>
  BY DEF Sessions!Begins, Sessions!people
<1>2. begun \in Sessions!Request /\ begun.op = op /\ begun.token = t /\ begun.row = made
  BY DEF Sessions!Request, Sessions!Live
<1>3. Sessions!Live' = Sessions!Live
  BY <1>1 DEF Sessions!Live
<1>. HIDE DEF begun
<1>4. RequestRows'
  <2>1. request \in [Requests -> Sessions!Request \union {None}]
    BY DEF SessionsInv, RequestRows
  <2>2. request' \in [Requests -> Sessions!Request \union {None}]
    BY <1>1, <1>2, <2>1
  <2>3. request'[r] = begun /\ \A x \in Requests : x # r => request'[x] = request[x]
    BY <1>1, <2>1
  <2>4. \/ begun.op = "exchange" /\ begun.token \in Sessions!Live
        \/ begun.op # "exchange" /\ begun.row \in Sessions!Token
    BY <1>2
  <2>. QED
    BY <1>1, <1>3, <2>2, <2>3, <2>4 DEF RequestRows, SessionsInv
<1>5. SessionRows' /\ ProjectsStand' /\ CodeStands' /\ changes' \in 0 .. MaxChanges
  BY <1>1, <1>3 DEF SessionRows, ProjectsStand, CodeStands, SessionsInv
<1>6. MembersStand' /\ BindingsStand'
  BY <1>1 DEF MembersStand, BindingsStand, SessionsInv, Sessions!Rows
<1>7. TokenRows' /\ TokensStand'
  BY <1>1, <1>3 DEF TokenRows, TokensStand, SessionsInv
<1>8. SessionFlags'
  BY Zenon, <1>1 DEF SessionFlags, SessionsInv
<1>. QED
  BY <1>4, <1>5, <1>6, <1>7, <1>8 DEF SessionsInv

LEMMA ProjectOfScope ==
    ASSUME SessionsInv, NEW u, NEW scope \in {"openid", "default"} \union Projects
    PROVE  Sessions!ProjectByScope(u, scope) \in Projects \union {None}
<1>1. Sessions!DefaultProject(u) \in Projects \union {None}
  BY DefaultIsAProject DEF SessionsInv
<1>. QED
  BY <1>1 DEF Sessions!ProjectByScope

LEMMA NewTokens ==
    ASSUME Sessions!SessionsAssumption, NEW u \in Users, NEW p \in Projects \union {None},
           NEW scope \in {"openid", "default"} \union Projects
    PROVE  Sessions!NewToken(u, p, scope) \in Sessions!Token
BY DEF Sessions!SessionsAssumption, Sessions!NewToken, Sessions!Token

LEMMA RefreshedTokens ==
    ASSUME Sessions!SessionsAssumption, NEW old \in Sessions!Token, NEW p \in Projects \union {None},
           NEW scope \in {"openid", "default"} \union Projects
    PROVE  Sessions!Refreshed(old, p, scope) \in Sessions!Token
<1>1. Access \in 0 .. Access
  BY DEF Sessions!SessionsAssumption
<1>. DEFINE again == [old EXCEPT !.left = Access]
            moved == [again EXCEPT !.project = p]
<1>2. again \in Sessions!Token
  BY <1>1 DEF Sessions!Token
<1>. HIDE DEF again
<1>3. moved \in Sessions!Token
  BY <1>2 DEF Sessions!Token
<1>. HIDE DEF moved
<1>4. [moved EXCEPT !.scope = scope] \in Sessions!Token
  BY <1>3 DEF Sessions!Token
<1>. QED
  BY <1>4 DEF Sessions!Refreshed, moved, again

LEMMA RequestsRead ==
    ASSUME Sessions!SessionsAssumption, SessionsInv, NEW r \in Requests, Sessions!Reads(r)
    PROVE  SessionsInv'
<1>. DEFINE AllScopes == {"openid", "default"} \union Projects
<1>0. Scopes \subseteq AllScopes /\ ServiceUsers \subseteq Users
  BY DEF Sessions!SessionsAssumption
<1>1. ASSUME NEW u \in Users, NEW scope \in Scopes, Sessions!LogIn(r, u, scope)
      PROVE  SessionsInv'
  <2>. DEFINE made == Sessions!NewToken(u, Sessions!ProjectByScope(u, scope), scope)
  <2>1. made \in Sessions!Token
    BY <1>0, ProjectOfScope, NewTokens
  <2>2. Sessions!Begins(r, "issue", None, made)
    BY <1>1 DEF Sessions!LogIn
  <2>. HIDE DEF made
  <2>. QED
    BY <2>1, <2>2, RequestBegins
<1>2. ASSUME NEW u \in Users, NEW s \in Users, NEW p \in Projects, Sessions!AskServiceToken(r, u, s, p)
      PROVE  SessionsInv'
  <2>1. Sessions!NewToken(s, p, p) \in Sessions!Token
    BY NewTokens
  <2>2. Sessions!Begins(r, "issue", None, Sessions!NewToken(s, p, p))
    BY <1>2 DEF Sessions!AskServiceToken
  <2>. QED
    BY <2>1, <2>2, RequestBegins
<1>3. ASSUME NEW t \in Tokens, Sessions!Confirm(r, t)
      PROVE  SessionsInv'
  <2>1. t \in Sessions!Live
    BY <1>3 DEF Sessions!Confirm, Sessions!Valid
  <2>. DEFINE made == Sessions!NewToken(token[t].user, token[t].project, "openid")
  <2>2. token[t].user \in Users /\ token[t].project \in Projects \union {None}
    BY <2>1, TokensAreTyped
  <2>3. made \in Sessions!Token
    BY <2>2, NewTokens
  <2>4. Sessions!Begins(r, "confirm", None, made)
    BY <1>3 DEF Sessions!Confirm
  <2>. HIDE DEF made
  <2>. QED
    BY <2>3, <2>4, RequestBegins
<1>4. ASSUME NEW t \in Tokens, NEW scope \in AllScopes, Sessions!AskRefresh(r, t, scope)
      PROVE  SessionsInv'
  <2>. DEFINE found == Sessions!ProjectByScope(token[t].user, scope)
              made == Sessions!Refreshed(token[t], found, scope)
  <2>1. t \in Sessions!Live /\ Sessions!Begins(r, "refresh", t, made)
    BY <1>4 DEF Sessions!AskRefresh
  <2>2. found \in Projects \union {None}
    BY ProjectOfScope
  <2>3. token[t] \in Sessions!Token
    BY <2>1, TokensAreTyped
  <2>. HIDE DEF found
  <2>4. made \in Sessions!Token
    BY <2>2, <2>3, RefreshedTokens
  <2>. HIDE DEF made
  <2>. QED
    BY <2>1, <2>4, RequestBegins
<1>5. ASSUME Sessions!Exchange(r) PROVE SessionsInv'
  <2>1. /\ code # None /\ code.token # None
        /\ Sessions!Begins(r, "exchange", code.token, None)
    BY <1>5 DEF Sessions!Exchange
  <2>2. code.token \in Sessions!Live
    BY <2>1 DEF SessionsInv, CodeStands
  <2>. QED
    BY <2>1, <2>2, RequestBegins
<1>6. \A t \in Sessions!Live : t \in Tokens /\ token[t].scope \in AllScopes
  BY TokensAreTyped
<1>. QED
  BY <1>0, <1>1, <1>2, <1>3, <1>4, <1>5, <1>6 DEF Sessions!Reads

-----------------------------------------------------------------------------
(* Tokens: what a request writes, and the passage of time.                  *)

\* A request that ends leaves people and projects alone.
LEMMA RequestEnds ==
    ASSUME SessionsInv, NEW r \in Requests, Sessions!Ends(r),
           TokenRows', TokensStand', CodeStands', Sessions!Live \subseteq Sessions!Live'
    PROVE  SessionsInv'
<1>1. /\ request' = [request EXCEPT ![r] = None]
      /\ UNCHANGED <<users, orgs, sMembers, project, bindings, asked, changes, closed>>
  BY DEF Sessions!Ends, Sessions!people
<1>2. RequestRows'
  <2>1. request \in [Requests -> Sessions!Request \union {None}]
    BY DEF SessionsInv, RequestRows
  <2>2. /\ request' \in [Requests -> Sessions!Request \union {None}]
        /\ \A x \in Requests : request'[x] # None => request'[x] = request[x]
    BY <1>1, <2>1
  <2>3. ASSUME NEW x \in Requests, request'[x] # None
        PROVE  \/ request'[x].op = "exchange" /\ request'[x].token \in closed' \union Sessions!Live'
               \/ request'[x].op # "exchange" /\ request'[x].row \in Sessions!Token
    BY <1>1, <2>2, <2>3 DEF RequestRows, SessionsInv
  <2>. QED
    BY <2>2, <2>3 DEF RequestRows
<1>3. SessionRows' /\ ProjectsStand' /\ changes' \in 0 .. MaxChanges
  BY <1>1 DEF SessionRows, ProjectsStand, SessionsInv
<1>4. MembersStand' /\ BindingsStand'
  BY <1>1 DEF MembersStand, BindingsStand, SessionsInv, Sessions!Rows
<1>5. SessionFlags'
  BY Zenon, <1>1 DEF SessionFlags, SessionsInv
<1>. QED
  BY <1>2, <1>3, <1>4, <1>5 DEF SessionsInv

LEMMA TokenIsWritten ==
    ASSUME Sessions!SessionsAssumption, SessionsInv, NEW r \in Requests, NEW t \in Tokens,
           request[r] # None, request[r].op # "exchange",
           Sessions!Stored(request[r].row), token' = [token EXCEPT ![t] = request[r].row],
           UNCHANGED <<users, project, closed>>, t \notin closed
    PROVE  /\ token' \in [Tokens -> Sessions!Token \union {None}]
           /\ Sessions!Live' = Sessions!Live \union {t}
           /\ closed' \intersect Sessions!Live' = {}
           /\ TokensStand'
<1>1. request[r].row \in Sessions!Token /\ request[r].row # None
  BY DEF SessionsInv, RequestRows, Sessions!SessionsAssumption
<1>2. token \in [Tokens -> Sessions!Token \union {None}] /\ closed \intersect Sessions!Live = {}
  BY DEF SessionsInv, TokenRows
<1>3. /\ token' \in [Tokens -> Sessions!Token \union {None}]
      /\ token'[t] = request[r].row /\ \A x \in Tokens : x # t => token'[x] = token[x]
  BY <1>1, <1>2
<1>4. Sessions!Live' = Sessions!Live \union {t}
  BY <1>1, <1>3 DEF Sessions!Live
<1>5. TokensStand'
  BY <1>1, <1>3, <1>4 DEF TokensStand, SessionsInv, Sessions!Stored, Sessions!Live
<1>. QED
  BY <1>2, <1>3, <1>4, <1>5

LEMMA RequestsWrite ==
    ASSUME Sessions!SessionsAssumption, SessionsInv, NEW r \in Requests, Sessions!Writes(r)
    PROVE  SessionsInv'
<1>. DEFINE Refers == code # None => code.token \in Sessions!Live \union {None}
<1>0. /\ token \in [Tokens -> Sessions!Token \union {None}]
      /\ closed \intersect Sessions!Live = {} /\ held \subseteq closed \union Sessions!Live
      /\ Refers
  BY DEF SessionsInv, TokenRows, CodeStands
<1>1. ASSUME NEW t \in Tokens, Sessions!Issue(r, t) \/ Sessions!SaveConfirmed(r, t)
      PROVE  SessionsInv'
  <2>1. /\ request[r] # None /\ request[r].op # "exchange"
        /\ Sessions!Stored(request[r].row) /\ token' = [token EXCEPT ![t] = request[r].row]
        /\ t \notin closed /\ Sessions!Ends(r)
        /\ \/ held' = held \union {t} /\ code' = code
           \/ held' = held /\ code' = [token |-> t]
    BY <1>1 DEF Sessions!Issue, Sessions!SaveConfirmed, Sessions!Insert, Sessions!Does
  <2>2. UNCHANGED <<users, project, closed>>
    BY <2>1 DEF Sessions!Ends, Sessions!people
  <2>3. /\ token' \in [Tokens -> Sessions!Token \union {None}]
        /\ Sessions!Live' = Sessions!Live \union {t}
        /\ closed' \intersect Sessions!Live' = {}
        /\ TokensStand'
    BY <2>1, <2>2, TokenIsWritten
  <2>4. held' \subseteq closed' \union Sessions!Live'
    BY <1>0, <2>1, <2>2, <2>3
  <2>5. TokenRows'
    BY <2>3, <2>4 DEF TokenRows
  <2>6. CodeStands'
    BY <1>0, <2>1, <2>3 DEF CodeStands
  <2>. QED
    BY <2>1, <2>3, <2>5, <2>6, RequestEnds
<1>2. ASSUME Sessions!SaveRefreshed(r) PROVE SessionsInv'
  <2>1. /\ request[r] # None /\ request[r].op # "exchange" /\ request[r].token \in Sessions!Live
        /\ Sessions!Stored(request[r].row)
        /\ token' = [token EXCEPT ![request[r].token] = request[r].row]
        /\ Sessions!Ends(r) /\ UNCHANGED <<code, held>>
    BY <1>2 DEF Sessions!SaveRefreshed, Sessions!Does
  <2>2. UNCHANGED <<users, project, closed>>
    BY <2>1 DEF Sessions!Ends, Sessions!people
  <2>3. request[r].token \in Tokens /\ request[r].token \notin closed
    BY <1>0, <2>1 DEF Sessions!Live
  <2>4. /\ token' \in [Tokens -> Sessions!Token \union {None}]
        /\ Sessions!Live' = Sessions!Live \union {request[r].token}
        /\ closed' \intersect Sessions!Live' = {}
        /\ TokensStand'
    BY <2>1, <2>2, <2>3, TokenIsWritten
  <2>5. Sessions!Live' = Sessions!Live
    BY <2>1, <2>4
  <2>6. TokenRows' /\ CodeStands'
    BY <1>0, <2>1, <2>2, <2>4, <2>5 DEF TokenRows, CodeStands
  <2>. QED
    BY <2>1, <2>4, <2>5, <2>6, RequestEnds
<1>3. ASSUME Sessions!Exchanged(r) \/ Sessions!Fail(r) PROVE SessionsInv'
  <2>1. /\ request[r] # None /\ Sessions!Ends(r) /\ token' = token
        /\ \/ request[r].op = "exchange" /\ code' = None /\ held' = held \union {request[r].token}
           \/ code' = code /\ held' = held
    BY <1>3 DEF Sessions!Exchanged, Sessions!Fail, Sessions!Does
  <2>2. UNCHANGED <<users, project, closed>>
    BY <2>1 DEF Sessions!Ends, Sessions!people
  <2>3. Sessions!Live' = Sessions!Live
    BY <2>1 DEF Sessions!Live
  <2>4. request[r].op = "exchange" => request[r].token \in closed \union Sessions!Live
    BY <2>1 DEF SessionsInv, RequestRows
  <2>5. TokenRows'
    BY <1>0, <2>1, <2>2, <2>3, <2>4 DEF TokenRows
  <2>6. TokensStand' /\ CodeStands'
    BY <1>0, <2>1, <2>2, <2>3 DEF TokensStand, CodeStands, SessionsInv
  <2>. QED
    BY <2>1, <2>3, <2>5, <2>6, RequestEnds
<1>. QED
  BY <1>1, <1>2, <1>3 DEF Sessions!Writes

LEMMA OlderTokens ==
    ASSUME Sessions!SessionsAssumption, NEW x \in Sessions!Token
    PROVE  /\ Sessions!Older(x) \in Sessions!Token
           /\ Sessions!Older(x).user = x.user /\ Sessions!Older(x).project = x.project
<1>1. x.left \in 0 .. Access /\ x.refresh \in 0 .. Refresh /\ Access \in Nat /\ Refresh \in Nat
  BY DEF Sessions!Token, Sessions!SessionsAssumption
<1>. DEFINE l == IF x.left = 0 THEN 0 ELSE x.left - 1
            f == IF x.refresh = 0 THEN 0 ELSE x.refresh - 1
            sooner == [x EXCEPT !.left = l]
            older == [sooner EXCEPT !.refresh = f]
<1>2. l \in 0 .. Access /\ f \in 0 .. Refresh
  BY <1>1
<1>3. sooner.refresh = x.refresh
  BY DEF Sessions!Token
<1>4. Sessions!Older(x) = older
  BY <1>3 DEF Sessions!Older
<1>. HIDE DEF l, f
<1>5. sooner \in Sessions!Token /\ sooner.user = x.user /\ sooner.project = x.project
  BY <1>2 DEF Sessions!Token
<1>. HIDE DEF sooner
<1>6. older \in Sessions!Token /\ older.user = sooner.user /\ older.project = sooner.project
  BY <1>2, <1>5 DEF Sessions!Token
<1>. QED
  BY <1>4, <1>5, <1>6

LEMMA TimePasses ==
    ASSUME Sessions!SessionsAssumption, SessionsInv, Sessions!Tick
    PROVE  SessionsInv'
<1>1. /\ token' = [t \in Tokens |-> IF token[t] = None THEN None ELSE Sessions!Older(token[t])]
      /\ request' = [r \in Requests |-> IF request[r] = None \/ request[r].row = None
                       THEN request[r] ELSE [request[r] EXCEPT !.row = Sessions!Older(@)]]
      /\ UNCHANGED <<users, orgs, sMembers, project, bindings, code, asked, held, changes, closed>>
  BY DEF Sessions!Tick, Sessions!people
<1>2. /\ token \in [Tokens -> Sessions!Token \union {None}]
      /\ request \in [Requests -> Sessions!Request \union {None}]
      /\ None \notin Sessions!Token
  BY DEF SessionsInv, TokenRows, RequestRows, Sessions!SessionsAssumption
<1>3. \A x \in Sessions!Token :
        /\ Sessions!Older(x) \in Sessions!Token /\ Sessions!Older(x) # None
        /\ Sessions!Older(x).user = x.user /\ Sessions!Older(x).project = x.project
  BY <1>2, OlderTokens
<1>4. /\ token' \in [Tokens -> Sessions!Token \union {None}]
      /\ Sessions!Live' = Sessions!Live
      /\ \A t \in Sessions!Live : token'[t].user = token[t].user /\ token'[t].project = token[t].project
  BY <1>1, <1>2, <1>3 DEF Sessions!Live
<1>5. TokenRows' /\ CodeStands'
  BY <1>1, <1>4 DEF TokenRows, CodeStands, SessionsInv
<1>6. TokensStand'
  BY <1>1, <1>4 DEF TokensStand, SessionsInv
<1>7. RequestRows'
  <2>1. ASSUME NEW r \in Requests, request[r] # None, request[r].row # None
        PROVE  LET older == [request[r] EXCEPT !.row = Sessions!Older(@)]
               IN  /\ older \in Sessions!Request /\ older.row \in Sessions!Token
                   /\ older.op = request[r].op /\ older.token = request[r].token
    <3>1. request[r] \in Sessions!Request
      BY <1>2, <2>1
    <3>2. request[r].row \in Sessions!Token
      BY <2>1, <3>1 DEF Sessions!Request
    <3>. DEFINE o == Sessions!Older(request[r].row)
    <3>3. o \in Sessions!Token
      BY <1>3, <3>2
    <3>. HIDE DEF o
    <3>4. /\ [request[r] EXCEPT !.row = o] \in Sessions!Request
          /\ [request[r] EXCEPT !.row = o].row = o
          /\ [request[r] EXCEPT !.row = o].op = request[r].op
          /\ [request[r] EXCEPT !.row = o].token = request[r].token
      BY <3>1, <3>3 DEF Sessions!Request
    <3>. QED
      BY <3>3, <3>4 DEF o
  <2>2. ASSUME NEW r \in Requests
        PROVE  /\ request'[r] \in Sessions!Request \union {None}
               /\ request'[r] # None => request[r] # None
               /\ request'[r] # None => request'[r].op = request[r].op /\ request'[r].token = request[r].token
               /\ request'[r] # None /\ request[r].row \in Sessions!Token => request'[r].row \in Sessions!Token
    <3>1. CASE request[r] = None \/ request[r].row = None
      BY <1>1, <1>2, <3>1
    <3>2. CASE request[r] # None /\ request[r].row # None
      <4>1. request'[r] = [request[r] EXCEPT !.row = Sessions!Older(@)]
        BY <1>1, <3>2
      <4>. QED
        BY <2>1, <3>2, <4>1
    <3>. QED
      BY <3>1, <3>2
  <2>3. request' \in [Requests -> Sessions!Request \union {None}]
    BY <1>1, <2>2
  <2>. QED
    BY <1>1, <1>4, <2>2, <2>3 DEF RequestRows, SessionsInv
<1>8. SessionRows' /\ ProjectsStand' /\ changes' \in 0 .. MaxChanges
  BY <1>1 DEF SessionRows, ProjectsStand, SessionsInv
<1>9. MembersStand' /\ BindingsStand'
  BY <1>1 DEF MembersStand, BindingsStand, SessionsInv, Sessions!Rows
<1>10. SessionFlags'
  BY Zenon, <1>1 DEF SessionFlags, SessionsInv
<1>. QED
  BY <1>5, <1>6, <1>7, <1>8, <1>9, <1>10 DEF SessionsInv

LEMMA SessionsInvKept ==
    ASSUME Sessions!SessionsAssumption, SessionsInv, [Sessions!Next]_(Sessions!vars)
    PROVE  SessionsInv'
<1>. DEFINE Beside == UNCHANGED <<users, orgs, sMembers, project, bindings, held, request, changes>>
<1>1. CASE UNCHANGED Sessions!vars \/ Sessions!Authorize
  <2>1. Beside /\ UNCHANGED <<token, closed>> /\ (code' = code \/ code' = [token |-> None])
    BY <1>1 DEF Sessions!vars, Sessions!people, Sessions!Authorize
  <2>2. Sessions!Live' = Sessions!Live
    BY <2>1 DEF Sessions!Live
  <2>3. TokenRows' /\ TokensStand' /\ CodeStands' /\ RequestRows'
    BY <2>1, <2>2 DEF TokenRows, TokensStand, CodeStands, RequestRows, SessionsInv
  <2>4. SessionRows' /\ ProjectsStand' /\ changes' \in 0 .. MaxChanges
    BY <2>1 DEF SessionRows, ProjectsStand, SessionsInv
  <2>5. MembersStand' /\ BindingsStand'
    BY <2>1 DEF MembersStand, BindingsStand, SessionsInv, Sessions!Rows
  <2>6. SessionFlags'
    BY Zenon, <1>1 DEF SessionFlags, SessionsInv, Sessions!vars, Sessions!Authorize
  <2>. QED
    BY <2>3, <2>4, <2>5, <2>6 DEF SessionsInv
<1>2. ASSUME NEW t \in Tokens, Sessions!LogOut(t) PROVE SessionsInv'
  <2>1. /\ Beside /\ code' = code /\ asked' = asked
        /\ {t} \in SUBSET Sessions!Live /\ Sessions!Cascade({t})
    BY <1>2 DEF Sessions!LogOut, Sessions!Valid, Sessions!people
  <2>2. /\ TokenRows' /\ CodeStands' /\ RequestRows'
        /\ Sessions!Live' = Sessions!Live \ {t}
        /\ \A x \in Sessions!Live' : token'[x] = token[x]
    BY <2>1, TokensGo
  <2>3. TokensStand'
    BY <2>1, <2>2 DEF TokensStand, SessionsInv
  <2>4. SessionRows' /\ ProjectsStand' /\ changes' \in 0 .. MaxChanges
    BY <2>1 DEF SessionRows, ProjectsStand, SessionsInv
  <2>5. MembersStand' /\ BindingsStand'
    BY <2>1 DEF MembersStand, BindingsStand, SessionsInv, Sessions!Rows
  <2>6. SessionFlags'
    BY Zenon, <2>1 DEF SessionFlags, SessionsInv
  <2>. QED
    BY <2>2, <2>3, <2>4, <2>5, <2>6 DEF SessionsInv
<1>3. ASSUME NEW t \in Tokens, Sessions!People(t) PROVE SessionsInv'
  BY <1>3, OrganizationsChange, MembersChange, ProjectsCome, BindingsChange, ProjectsGo, UsersGo
  DEF Sessions!People
<1>4. ASSUME NEW r \in Requests, Sessions!Reads(r) \/ Sessions!Writes(r) PROVE SessionsInv'
  BY <1>4, RequestsRead, RequestsWrite
<1>. QED
  BY <1>1, <1>2, <1>3, <1>4, TimePasses DEF Sessions!Next

\* Members, projects, bindings and tokens refer to users, organizations and projects
\* that are there, a code to a token that is, and a deleted token stays deleted
\* (user_api/iam/dm/models.py), whatever requests that read before a cascade write
\* after it.
THEOREM SessionTypes == Sessions!SessionsAssumption /\ Sessions!Spec => []Sessions!TypeOK
<1>. SUFFICES ASSUME Sessions!SessionsAssumption PROVE Sessions!Spec => []Sessions!TypeOK
  OBVIOUS
<1>1. Sessions!Init => SessionsInv
  BY InitSessionsInv
<1>2. SessionsInv /\ [Sessions!Next]_(Sessions!vars) => SessionsInv'
  BY SessionsInvKept
<1>. QED
  BY <1>1, <1>2, SessionTypesHold, PTL DEF Sessions!Spec

-----------------------------------------------------------------------------
\* In Services sessions and SSH keys are as they are by themselves.
LEMMA ServicesRunSessions == Spec => Sessions!Spec
<1>1. Init => Sessions!Init
  BY DEF Init
<1>2. [Next]_vars => [Sessions!Next]_(Sessions!vars)
  BY Zenon DEF Next, vars, sessions, Sessions!people, Sessions!vars
<1>. QED
  BY <1>1, <1>2, PTL DEF Spec, Sessions!Spec

LEMMA ServicesRunKeys == Spec => SshKeys!Spec
<1>1. Init => SshKeys!Init
  BY DEF Init
<1>2. [Next]_vars => [SshKeys!Next]_(SshKeys!vars)
  BY Zenon DEF Next, vars, keys, SshKeys!vars
<1>. QED
  BY <1>1, <1>2, PTL DEF Spec, SshKeys!Spec

\* Rows, requests, copies and reports of every part are well formed and agree (run
\* services).
COROLLARY TypeOKHolds == Spec => []TypeOK
<1>. DEFINE All == /\ Accounts!TypeOK /\ Sessions!TypeOK /\ Elements!TypeOK /\ MachineLife!TypeOK
                   /\ Volumes!TypeOK /\ Secrets!TypeOK /\ SshKeys!TypeOK
<1>1. All => TypeOK
  <2>. SUFFICES ASSUME All PROVE TypeOK
    OBVIOUS
  <2>1. CASE focus = "accounts"
    BY Zenon, <2>1 DEF TypeOK
  <2>2. CASE focus = "sessions"
    BY Zenon, <2>2 DEF TypeOK
  <2>3. CASE focus = "elements"
    BY Zenon, <2>3 DEF TypeOK
  <2>4. CASE focus = "machine"
    BY Zenon, <2>4 DEF TypeOK
  <2>5. CASE focus = "volumes"
    BY Zenon, <2>5 DEF TypeOK
  <2>6. CASE focus = "secrets"
    BY Zenon, <2>6 DEF TypeOK
  <2>7. CASE focus = "keys"
    BY Zenon, <2>7 DEF TypeOK
  <2>8. CASE focus \notin {"accounts", "sessions", "elements", "machine", "volumes", "secrets", "keys"}
    BY Zenon, <2>8 DEF TypeOK
  <2>. QED
    BY <2>1, <2>2, <2>3, <2>4, <2>5, <2>6, <2>7, <2>8
<1>2. Spec => []Accounts!TypeOK /\ []Sessions!TypeOK /\ []Elements!TypeOK /\ []MachineLife!TypeOK
  BY ServicesRunAccounts, ServicesRunSessions, ServicesRunElements, ServicesRunMachineLife,
     AccountTypes, SessionTypes, ElementTypes, MachineTypes, ConstantsAssumption, PTL DEF ConstantsAssumption
<1>3. Spec => []Volumes!TypeOK /\ []Secrets!TypeOK /\ []SshKeys!TypeOK
  BY ServicesRunVolumes, ServicesRunSecrets, ServicesRunKeys,
     VolumeTypes, SecretTypes, KeyTypes, ConstantsAssumption, PTL DEF ConstantsAssumption
<1>. QED
  BY <1>1, <1>2, <1>3, PTL
=============================================================================
