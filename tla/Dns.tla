-------------------------------- MODULE Dns --------------------------------
(***************************************************************************)
(* Publication of local DNS records in the ecosystem                       *)
(* (dns_sync/service.py, user_api/dns/dm/models.py).                       *)
(*                                                                         *)
(* A push runs in a thread of its own, one at a time, in one transaction   *)
(* that sees what users commit meanwhile; every request over HTTP is a     *)
(* step and may fail before or after it took effect.  The remote side is   *)
(* this program's own API on another stand: records have one primary key   *)
(* whatever their zone.                                                    *)
(*                                                                         *)
(* Of time only comparisons are kept: whether a full pass is due, and      *)
(* which rows bear a time that is not older than the last pass.            *)
(***************************************************************************)
EXTENDS Naturals, FiniteSets

CONSTANTS
    Domains,       \* identifiers of local domains
    Names,         \* names of domains, here and there
    Realm,         \* the name the ecosystem has for this stand
    Records,
    Values,
    MaxEvents,     \* bound: what users do, failures and restarts
    None

VARIABLES
    domain,        \* table dns_domains: name and sync_to_ecosystem
    record,        \* table dns_records, without the SOA records
    writing,       \* a request that has stamped its row and not committed
    recent, fresh, \* rows updated, created no earlier than the last pass, if there was one
    zones, remote, \* domains and records in the ecosystem
    pass,          \* the push under way
    marking,       \* the realm's domain, written and not committed by the push
    initialized, due, synced,
    events

vars == <<domain, record, writing, recent, fresh, zones, remote, pass, marking,
          initialized, due, synced, events>>
tables == <<domain, record, recent, fresh>>

NoPass == [todo |-> {}, ops |-> {}, on |-> FALSE, full |-> FALSE]
Op == [op : {"post", "put", "delete"}, rec : Records, zone : Names, value : Values \union {None}]
NoMark == [domain |-> None, row |-> None]

\* None is no row and no domain.
DnsAssumption ==
    /\ Realm \in Names /\ MaxEvents \in Nat
    /\ None \notin [name : Names, sync : BOOLEAN] /\ None \notin [domain : Domains, value : Values]
    /\ None \notin [zone : Names, value : Values]
    /\ None \notin Domains

Named(n) == {d \in Domains : domain[d] # None /\ domain[d].name = n}

TypeOK ==
    /\ domain \in [Domains -> [name : Names, sync : BOOLEAN] \union {None}]
    /\ \A n \in Names : Cardinality(Named(n)) <= 1
    /\ record \in [Records -> [domain : Domains, value : Values] \union {None}]
    /\ \A r \in Records : record[r] # None => domain[record[r].domain] # None
    /\ recent \subseteq Records /\ fresh \subseteq Records
    /\ zones \subseteq Names
    /\ remote \in [Records -> [zone : Names, value : Values] \union {None}]
    /\ \A r \in Records : remote[r] # None => remote[r].zone \in zones
    /\ pass.ops \subseteq Op
    /\ ~pass.on => pass = NoPass /\ marking = NoMark
    /\ initialized \in BOOLEAN /\ due \in BOOLEAN /\ synced \in BOOLEAN
    /\ events \in 0 .. MaxEvents

Init ==
    /\ domain = [d \in Domains |-> None] /\ record = [r \in Records |-> None]
    /\ writing = None /\ recent = {} /\ fresh = {}
    /\ zones = {} /\ remote = [r \in Records |-> None]
    /\ pass = NoPass /\ marking = NoMark
    /\ initialized = FALSE /\ due \in BOOLEAN /\ synced = FALSE
    /\ events = 0

Event == events < MaxEvents /\ events' = events + 1

-----------------------------------------------------------------------------
(* Users.  The row the push has written is locked until it commits.         *)

Free(d, n) == marking # NoMark => d # marking.domain /\ n # marking.row.name

CreateDomain(d, n, s) ==
    /\ domain[d] = None /\ Named(n) = {} /\ Free(d, n)
    /\ Event
    /\ domain' = [domain EXCEPT ![d] = [name |-> n, sync |-> s]]
    /\ UNCHANGED <<record, writing, recent, fresh, zones, remote, pass, marking,
                   initialized, due, synced>>

EditDomain(d, n, s) ==
    /\ domain[d] # None /\ Named(n) \subseteq {d} /\ Free(d, n)
    /\ domain[d] # [name |-> n, sync |-> s]
    /\ Event
    /\ domain' = [domain EXCEPT ![d] = [name |-> n, sync |-> s]]
    /\ UNCHANGED <<record, writing, recent, fresh, zones, remote, pass, marking,
                   initialized, due, synced>>

DeleteDomain(d) ==
    /\ domain[d] # None /\ Free(d, domain[d].name)
    /\ Event
    /\ domain' = [domain EXCEPT ![d] = None]
    /\ LET its == {r \in Records : record[r] # None /\ record[r].domain = d}
       IN  /\ record' = [r \in Records |-> IF r \in its THEN None ELSE record[r]]
           /\ recent' = recent \ its /\ fresh' = fresh \ its
    /\ UNCHANGED <<writing, zones, remote, pass, marking, initialized, due, synced>>

\* The times of a row are taken when the object is made or changed.
Stamp(r, d, v) ==
    /\ writing = None
    /\ domain[d] # None
    /\ record[r] # None => record[r].domain = d /\ record[r].value # v
    /\ Event
    /\ writing' = [rec |-> r, row |-> [domain |-> d, value |-> v],
                   new |-> record[r] = None, late |-> FALSE]
    /\ UNCHANGED <<tables, zones, remote, pass, marking, initialized, due, synced>>

\* An insert needs its domain and a free key, an update its row.
Commits(w) ==
    /\ domain[w.row.domain] # None
    /\ IF w.new THEN record[w.rec] = None
       ELSE record[w.rec] # None /\ record[w.rec].domain = w.row.domain

Write ==
    /\ writing # None
    /\ writing' = None
    /\ IF Commits(writing)
       THEN /\ record' = [record EXCEPT ![writing.rec] = writing.row]
            /\ recent' = IF ~synced \/ writing.late THEN recent \ {writing.rec}
                         ELSE recent \union {writing.rec}
            /\ fresh' = IF synced /\ writing.new /\ ~writing.late
                        THEN fresh \union {writing.rec} ELSE fresh
       ELSE UNCHANGED <<record, recent, fresh>>
    /\ UNCHANGED <<domain, zones, remote, pass, marking, initialized, due, synced, events>>

DeleteRecord(r) ==
    /\ record[r] # None
    /\ Event
    /\ record' = [record EXCEPT ![r] = None]
    /\ recent' = recent \ {r} /\ fresh' = fresh \ {r}
    /\ UNCHANGED <<domain, writing, zones, remote, pass, marking, initialized, due, synced>>

-----------------------------------------------------------------------------
(* A push.                                                                  *)

\* _ensure_realm_domain: the row the domain of the realm is to have.
RealmMarks ==
    LET mine == Named(Realm)
    IN  IF mine = {}
        THEN {[domain |-> d, row |-> [name |-> Realm, sync |-> TRUE]] :
                 d \in {e \in Domains : domain[e] = None}}
        ELSE {IF domain[d].sync THEN NoMark
              ELSE [domain |-> d, row |-> [name |-> Realm, sync |-> TRUE]] : d \in mine}

\* The tables as the push sees them.
Seen(mark, d) == IF d = mark.domain THEN mark.row ELSE domain[d]

ToSync(mark) ==
    {[domain |-> d, name |-> Seen(mark, d).name] :
        d \in {e \in Domains : Seen(mark, e) # None /\ Seen(mark, e).sync}}

\* What the fast pass sends: a row made since the last pass is posted.
FastOps(mark) ==
    {[op |-> IF r \in fresh THEN "post" ELSE "put", rec |-> r,
      zone |-> Seen(mark, record[r].domain).name, value |-> record[r].value] :
        r \in {q \in recent : /\ Seen(mark, record[q].domain).sync
                               /\ Seen(mark, record[q].domain).name \in zones}}

Idle == ~pass.on

\* The session ends well: the realm's domain is committed.
Committed(mark) ==
    domain' = IF mark = NoMark THEN domain ELSE [domain EXCEPT ![mark.domain] = mark.row]

\* The realm is known from here on, whatever becomes of the transaction.
Ensured(mark) ==
    /\ IF initialized THEN mark = NoMark ELSE mark \in RealmMarks
    /\ initialized' = TRUE

BeginFull(mark) ==
    /\ Idle /\ due
    /\ Ensured(mark)
    /\ IF ToSync(mark) = {}
       THEN Committed(mark) /\ UNCHANGED <<pass, marking>>
       ELSE /\ pass' = [NoPass EXCEPT !.on = TRUE, !.full = TRUE, !.todo = ToSync(mark)]
            /\ marking' = mark
            /\ UNCHANGED domain
    /\ UNCHANGED <<record, writing, recent, fresh, zones, remote, due, synced, events>>

\* The list of remote domains does not arrive: the transaction is rolled back.
BeginFails(mark) ==
    /\ Idle
    /\ due \/ (synced /\ recent # {})
    /\ Ensured(mark)
    /\ Event
    /\ UNCHANGED <<tables, writing, zones, remote, pass, marking, due, synced>>

BeginFast(mark) ==
    /\ Idle /\ ~due
    /\ Ensured(mark)
    /\ IF synced
       THEN /\ pass' = [NoPass EXCEPT !.on = TRUE, !.ops = FastOps(mark)]
            /\ marking' = mark
            /\ UNCHANGED domain
       ELSE Committed(mark) /\ UNCHANGED <<pass, marking>>
    /\ UNCHANGED <<record, writing, recent, fresh, zones, remote, due, synced, events>>

\* Mutant of Extra: what the ecosystem has too much is left there.
ExtraKept(z, local) == {}

\* Remote records of the zone that no local row has.
Extra(z, local) == {r \in Records : remote[r] # None /\ remote[r].zone = z} \ local

Differs(r) == remote[r].value # record[r].value

\* _full_sync_domain, up to its first request: create, update, delete.
FullOps(t) ==
    LET local == {r \in Records : record[r] # None /\ record[r].domain = t.domain}
        there == {r \in Records : remote[r] # None /\ remote[r].zone = t.name}
        ToSend(kind, r) == [op |-> kind, rec |-> r, zone |-> t.name, value |-> record[r].value]
    IN  {ToSend("post", r) : r \in local \ there}
        \union {ToSend("put", r) : r \in {q \in local \intersect there : Differs(q)}}
        \union {[op |-> "delete", rec |-> r, zone |-> t.name, value |-> None] :
                    r \in Extra(t.name, local)}

Diff(t) ==
    /\ pass.ops = {} /\ t \in pass.todo
    /\ zones' = zones \union {t.name}
    /\ pass' = [pass EXCEPT !.todo = @ \ {t}, !.ops = FullOps(t)]
    /\ UNCHANGED <<tables, writing, remote, marking, initialized, due, synced, events>>

\* The domain is not created, or its records do not arrive.
DiffFails(t, created) ==
    /\ pass.ops = {} /\ t \in pass.todo
    /\ Event
    /\ zones' = IF created THEN zones \union {t.name} ELSE zones
    /\ pass' = [pass EXCEPT !.todo = @ \ {t}]
    /\ UNCHANGED <<tables, writing, remote, marking, initialized, due, synced>>

\* What the ecosystem makes of a request; it refuses a key it has, and a
\* record that is not in the zone.
Accepted(o) ==
    CASE o.op = "post" -> IF remote[o.rec] = None /\ o.zone \in zones
                          THEN [zone |-> o.zone, value |-> o.value] ELSE remote[o.rec]
      [] o.op = "put"  -> IF remote[o.rec] # None /\ remote[o.rec].zone = o.zone
                          THEN [zone |-> o.zone, value |-> o.value] ELSE remote[o.rec]
      [] o.op = "delete" -> IF remote[o.rec] # None /\ remote[o.rec].zone = o.zone
                            THEN None ELSE remote[o.rec]

Rank == [post |-> 1, put |-> 2, delete |-> 3]
First(o) == o \in pass.ops /\ \A q \in pass.ops : Rank[o.op] <= Rank[q.op]

\* A refusal is logged and the next request follows.
Push(o) ==
    /\ First(o)
    /\ remote' = [remote EXCEPT ![o.rec] = Accepted(o)]
    /\ pass' = [pass EXCEPT !.ops = @ \ {o}]
    /\ UNCHANGED <<tables, writing, zones, marking, initialized, due, synced, events>>

PushLost(o) ==
    /\ First(o)
    /\ Event
    /\ pass' = [pass EXCEPT !.ops = @ \ {o}]
    /\ UNCHANGED <<tables, writing, zones, remote, marking, initialized, due, synced>>

\* The time of the last pass is taken at its end.
End ==
    /\ pass.on /\ pass.todo = {} /\ pass.ops = {}
    /\ pass' = NoPass /\ marking' = NoMark
    /\ Committed(marking)
    /\ recent' = {} /\ fresh' = {}
    /\ writing' = IF writing = None THEN None ELSE [writing EXCEPT !.late = TRUE]
    /\ due' = (due /\ ~pass.full)
    /\ synced' = TRUE
    /\ UNCHANGED <<record, zones, remote, initialized, events>>

Service ==
    \/ \E mark \in RealmMarks \union {NoMark} : BeginFull(mark) \/ BeginFast(mark)
    \/ \E t \in pass.todo : Diff(t)
    \/ \E o \in pass.ops : Push(o)
    \/ End

Faults ==
    \/ \E mark \in RealmMarks \union {NoMark} : BeginFails(mark)
    \/ \E t \in pass.todo, created \in BOOLEAN : DiffFails(t, created)
    \/ \E o \in pass.ops : PushLost(o)

\* The clock starts anywhere, and "sync immediately on start" compares with it:
\* a full pass is due at once only if the clock has gone far enough.
Restart ==
    /\ Event
    /\ pass' = NoPass /\ marking' = NoMark
    /\ initialized' = FALSE /\ synced' = FALSE
    /\ due' \in BOOLEAN
    /\ recent' = {} /\ fresh' = {}
    /\ UNCHANGED <<domain, record, writing, zones, remote>>

Tick ==
    /\ ~due /\ due' = TRUE
    /\ UNCHANGED <<tables, writing, zones, remote, pass, marking, initialized, synced, events>>

Users ==
    \/ \E d \in Domains, n \in Names, s \in BOOLEAN : CreateDomain(d, n, s) \/ EditDomain(d, n, s)
    \/ \E d \in Domains : DeleteDomain(d)
    \/ \E r \in Records, d \in Domains, v \in Values : Stamp(r, d, v)
    \/ \E r \in Records : DeleteRecord(r)
    \/ Write

Next == Users \/ Service \/ Faults \/ Restart \/ Tick

Spec == Init /\ [][Next]_vars
\* The loop starts pushes for ever, a push ends, time goes on.
Fairness == WF_vars(Service) /\ WF_vars(Tick)
FairSpec == Spec /\ Fairness

-----------------------------------------------------------------------------
\* A domain of this name is published.
Published(n) == \E d \in Named(n) : domain[d].sync

\* Published domains have their records in the ecosystem and no others - but for
\* records whose key the ecosystem still has under a name that is no longer
\* published (a renamed domain): their inserts are refused for ever.
InStep == \A d \in Domains : domain[d] # None /\ domain[d].sync =>
    \A r \in Records :
        /\ record[r] # None /\ record[r].domain = d =>
             \/ remote[r] = [zone |-> domain[d].name, value |-> record[r].value]
             \/ remote[r] # None /\ ~Published(remote[r].zone)
        /\ remote[r] # None /\ remote[r].zone = domain[d].name =>
             record[r] # None /\ record[r].domain = d

\* It comes to that, whatever the fast pass missed or sent twice, and whatever failed.
DnsConverges == <>[]InStep
=============================================================================
