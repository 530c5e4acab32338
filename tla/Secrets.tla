------------------------------ MODULE Secrets ------------------------------
(***************************************************************************)
(* A password or a certificate: the row users write, the service that      *)
(* makes a target resource of it (secret/service.py), and the agent that   *)
(* generates the secret and keeps it (agent/universal/drivers/secret/).    *)
(* What is generated goes back to the row with the agent's report.         *)
(*                                                                         *)
(* An iteration of the service is one READ COMMITTED transaction with four *)
(* passes; each reads rows, and a later step writes them as they were      *)
(* read.  A row the transaction has written is locked until it ends.       *)
(***************************************************************************)
EXTENDS Naturals

CONSTANTS
    Names,         \* what a change leaves alone in the secret itself
    Forms,         \* length of a password, domains of a certificate
    None,
    MaxValues,     \* bound: secrets generated
    MaxEvents      \* bound: requests, rollbacks, expirations

VARIABLES
    kind,          \* of the secret
    row,           \* its row, in secret_passwords or secret_certificates
    res,           \* its target resource
    tracked,       \* tracked_at of the resource is updated_at of the row
    store,         \* what the agent keeps, in storage_passwords or storage_certs
    rep            \* the agent's last report

VARIABLES
    pass,          \* where the iteration is
    work,          \* row, resource and tracking as the transaction sees them
    locked,        \* the transaction has written the row
    copy           \* the row, and the report, as the pass read them

VARIABLES
    values,        \* generated so far
    events,
    overtaken      \* history: a request came after the iteration looked for changes

db == <<row, res, tracked>>
agent == <<store, rep, values>>
iter == <<pass, work, locked, copy>>
vars == <<kind, db, agent, iter, events, overtaken>>

Values == 1 .. MaxValues
Wish == [name : Names, form : Forms]
Row == [wish : Wish, status : {"NEW", "IN_PROGRESS", "ACTIVE"}, value : Values \union {None}]
\* `under`: a certificate about to expire, which a target resource never is.
Stored == [wish : Wish, under : BOOLEAN, value : Values]
Resource == [wish : Wish, full : Stored \union {None}]

\* None is no row, no secret and no value.
SecretsAssumption ==
    /\ MaxValues \in Nat /\ MaxEvents \in Nat
    /\ None \notin Row /\ None \notin Stored /\ None \notin Resource /\ None \notin Nat

TypeOK ==
    /\ kind \in {"password", "certificate"}
    /\ row \in Row \union {None} /\ res \in Resource \union {None}
    /\ tracked \in BOOLEAN
    /\ store \in Stored \union {None} /\ rep \in Stored \union {None}
    /\ pass \in {"idle", "new", "changed", "outdated", "commit"}
    /\ work \in [row : Row \union {None}, res : Resource \union {None}, tracked : BOOLEAN]
    /\ copy \in [row : Row \union {None}, rep : Stored \union {None}]
    /\ locked \in BOOLEAN /\ overtaken \in BOOLEAN
    /\ values \in 0 .. MaxValues /\ events \in 0 .. MaxEvents
    \* A row shows only what was generated.
    /\ row # None /\ row.value # None => row.value <= values

NoCopy == [row |-> None, rep |-> None]

Init ==
    /\ kind \in {"password", "certificate"}
    /\ row = None /\ res = None /\ tracked = FALSE
    /\ store = None /\ rep = None /\ values = 0
    /\ pass = "idle" /\ copy = NoCopy /\ locked = FALSE
    /\ work = [row |-> None, res |-> None, tracked |-> FALSE]
    /\ events = 0 /\ overtaken = FALSE

Tick == events < MaxEvents /\ events' = events + 1

-----------------------------------------------------------------------------
(* Users.                                                                   *)

\* The request is written; the resource no longer follows the row.
Request(new) ==
    /\ Tick
    /\ ~locked
    /\ row' = new
    /\ tracked' = FALSE /\ work' = [work EXCEPT !.tracked = FALSE]
    /\ overtaken' = (overtaken \/ pass \in {"changed", "outdated"})
    /\ UNCHANGED <<kind, res, agent, pass, locked, copy>>

CreateSecret(wish) ==
    /\ row = None /\ store = None /\ res = None /\ rep = None /\ pass = "idle"
    /\ Request([wish |-> wish, status |-> "NEW", value |-> None])

UpdateSecret(wish) ==
    /\ row # None /\ row.wish # wish
    /\ Request([row EXCEPT !.wish = wish, !.status = "NEW"])

DeleteSecret == row # None /\ Request(None)

-----------------------------------------------------------------------------
(* The service.                                                             *)

Seen == IF locked THEN work.row ELSE row

Begin ==
    /\ pass = "idle" /\ pass' = "new"
    /\ work' = [row |-> row, res |-> res, tracked |-> tracked]
    /\ copy' = [NoCopy EXCEPT !.row = IF res = None THEN row ELSE None]
    /\ UNCHANGED <<kind, db, agent, locked, events, overtaken>>

\* The transaction after `saved` is written over the row, which a user may have
\* changed since it was read; saving a row that a user deleted raises, after
\* `inserted` is in place and before `updated` is.
Written(saved, inserted, updated) ==
    IF Seen = None
    THEN [row |-> None, res |-> inserted, tracked |-> FALSE]
    ELSE [row |-> saved, res |-> updated,
          tracked |-> saved # copy.row \/ Seen = copy.row]

\* to_ua_resource: hash and full_hash are those of the row.
ResourceFor(secret) == [wish |-> secret.wish, full |-> None]

\* The pass over new secrets, or over changed ones.
Follow ==
    LET saved == [copy.row EXCEPT !.status = "IN_PROGRESS"]
        before == IF pass = "new" THEN ResourceFor(copy.row) ELSE work.res
    IN  IF copy.row = None THEN work ELSE Written(saved, before, ResourceFor(copy.row))

ActualizeNew ==
    /\ pass = "new" /\ pass' = "changed"
    /\ work' = Follow
    /\ locked' = (locked \/ (copy.row # None /\ Seen # None))
    /\ LET now == IF locked' THEN work'.row ELSE row
           changed == work'.res # None /\ ~work'.tracked
       IN  copy' = [NoCopy EXCEPT !.row = IF changed THEN now ELSE None]
    /\ UNCHANGED <<kind, db, agent, events, overtaken>>

ActualizeChanged ==
    /\ pass = "changed" /\ pass' = "outdated"
    /\ work' = Follow
    /\ locked' = (locked \/ (copy.row # None /\ Seen # None))
    /\ LET now == IF locked' THEN work'.row ELSE row
           outdated == work'.res # None /\ rep # None /\ work'.res.full # rep
       IN  copy' = IF outdated /\ now # None THEN [row |-> now, rep |-> rep] ELSE NoCopy
    /\ UNCHANGED <<kind, db, agent, events, overtaken>>

\* Mutant of SameHash: the hashes are not compared.
AnyHash(resource, report) == ~report.under

\* `ACTIVE` only if the hash is the same.
SameHash(resource, report) == resource.wish = report.wish /\ ~report.under

\* The row gets what was generated.  A report that changes nothing in it only
\* marks the resource.
ActualizeOutdated ==
    /\ pass = "outdated" /\ pass' = "commit"
    /\ LET active == SameHash(work.res, copy.rep)
           saves == active \/ copy.rep.value # copy.row.value
           marked == [work.res EXCEPT !.full = copy.rep]
           saved == [copy.row EXCEPT !.value = copy.rep.value,
                                     !.status = IF active THEN "ACTIVE" ELSE @]
       IN  IF copy.row = None THEN UNCHANGED <<work, locked>>
           ELSE IF saves
           THEN /\ work' = Written(saved, work.res, marked)
                /\ locked' = (Seen # None)
           ELSE /\ work' = [work EXCEPT !.res = marked, !.tracked = Seen = copy.row]
                /\ UNCHANGED locked
    /\ copy' = NoCopy
    /\ UNCHANGED <<kind, db, agent, events, overtaken>>

\* Mutant of Orphan: only the resources that follow their row.
OrphanTracked == Seen = None /\ work.tracked

Orphan == Seen = None

\* The pass over deleted secrets ends the transaction.
Commit ==
    /\ pass = "commit" /\ pass' = "idle"
    /\ row' = Seen
    /\ res' = IF Orphan THEN None ELSE work.res
    /\ tracked' = work.tracked
    /\ locked' = FALSE
    /\ UNCHANGED <<kind, agent, work, copy, events, overtaken>>

Rollback ==
    /\ Tick
    /\ pass # "idle" /\ pass' = "idle"
    /\ locked' = FALSE /\ copy' = NoCopy
    /\ UNCHANGED <<kind, db, agent, work, overtaken>>

-----------------------------------------------------------------------------
(* The agent.                                                               *)

Generate(wish) ==
    /\ values < MaxValues /\ values' = values + 1
    /\ store' = [wish |-> wish, under |-> FALSE, value |-> values + 1]

Create == res # None /\ store = None /\ Generate(res.wish)

\* Mutant of Regenerates: any change makes another secret.
RegeneratesAlways == TRUE

\* Only another length asks for another password.
Regenerates == res.wish.form # store.wish.form

\* Everything but the length and the value is left as it was.  The update of a
\* certificate raises, whatever changed and when it is due for renewal.
Update ==
    /\ kind = "password"
    /\ res # None /\ store # None /\ ~SameHash(res, store)
    /\ Regenerates
    /\ Generate([store.wish EXCEPT !.form = res.wish.form])

Delete ==
    /\ res = None /\ store # None
    /\ store' = None
    /\ UNCHANGED values

Apply ==
    /\ Create \/ Update \/ Delete
    /\ UNCHANGED <<kind, db, rep, iter, events, overtaken>>

\* A report of a secret whose resource is gone is dropped with it.
Report ==
    /\ rep' = store /\ rep' # rep
    /\ UNCHANGED <<kind, db, store, values, iter, events, overtaken>>

\* The days before expiration fall under expiration_threshold.
Expire ==
    /\ Tick
    /\ kind = "certificate" /\ store # None /\ ~store.under
    /\ store' = [store EXCEPT !.under = TRUE]
    /\ UNCHANGED <<kind, db, rep, values, iter, overtaken>>

-----------------------------------------------------------------------------
Service == Begin \/ ActualizeNew \/ ActualizeChanged \/ ActualizeOutdated \/ Commit
Agent == Apply \/ Report

Next ==
    \/ \E wish \in Wish : CreateSecret(wish) \/ UpdateSecret(wish)
    \/ DeleteSecret \/ Rollback \/ Expire
    \/ Service \/ Agent

Spec == Init /\ [][Next]_vars
\* The service and the agent are run for ever.
FairSpec == Spec /\ WF_vars(Service) /\ WF_vars(Apply) /\ WF_vars(Report)

-----------------------------------------------------------------------------
\* Once the agent's last report has been handled, an ACTIVE row shows the
\* secret the agent keeps, and the agent keeps it as the row describes it, but
\* for a length it is about to change; unless a request came in the middle of an
\* iteration (secret/service.py:286, "`ACTIVE` only if the hash is the same").
ActiveIsStored ==
    /\ row # None /\ row.status = "ACTIVE" /\ ~overtaken
    /\ res # None /\ res.full = rep /\ rep = store
    => /\ store # None /\ store.value = row.value
       /\ store.wish = row.wish \/ (kind = "password" /\ store.wish.name = row.wish.name)

\* A password that its row already shows is not generated anew unless its user
\* has asked for another length: whoever uses it can rely on it across
\* renamings, rollbacks and late reports.
SecretIsKept ==
    [][store # None /\ store' \notin {None, store} /\ store'.value # store.value =>
         row = None \/ row.wish.form # store.wish.form \/ res.wish # row.wish \/ overtaken]_vars

\* What the agent would have to change and does not.
Refused ==
    \/ store.wish.name # row.wish.name
    \/ kind = "certificate" /\ (store.wish # row.wish \/ store.under)

InAgreement ==
    IF row = None THEN res = None /\ store = None
    ELSE \/ row.status = "ACTIVE" /\ store # None /\ row.value = store.value
         \/ store # None /\ Refused
         \/ overtaken

\* When the requests stop, a deleted secret is gone everywhere and any other is
\* ACTIVE with what is stored; but for a change the agent does not apply
\* and a request that the service overtook.
SecretsSettle == <>[]InAgreement
=============================================================================
