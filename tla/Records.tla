------------------------------- MODULE Records ------------------------------
(***************************************************************************)
(* Parts of the system that share no table: the addresses of one subnet    *)
(* (Ipam), DNS records, profiles and values, a load balancer, and the      *)
(* bootstrap of a stand.  The one in focus moves in each behaviour.        *)
(***************************************************************************)
EXTENDS Ipam

CONSTANTS
    None,
    Domains, Names, Realm, DnsRecords, DnsValues, MaxDnsEvents,
    Global, Listed, Vals, MaxRequests, Underway,
    Nodes, MaxSize, Contents, LbUnderway, MaxLbEvents,
    Uris, MaxBootEvents

VARIABLE focus

-----------------------------------------------------------------------------
VARIABLES domain, record, writing, recent, fresh, zones, remote, pass, marking,
          initialized, due, synced, dnsEvents
dns == <<domain, record, writing, recent, fresh, zones, remote, pass, marking,
         initialized, due, synced, dnsEvents>>

Dns == INSTANCE Dns WITH
    Records <- DnsRecords, Values <- DnsValues, MaxEvents <- MaxDnsEvents, events <- dnsEvents

-----------------------------------------------------------------------------
VARIABLES active, own, val, var, changed, touched, underway, requests, missed
profiles == <<active, own, val, var, changed, touched, underway, requests, missed>>

Profiles == INSTANCE Profiles

-----------------------------------------------------------------------------
VARIABLES lb, content, lbUnderway, iaasDirty, paasDirty, want, setNew, set, setDirty, members,
          nodesNew, row, served, report, paasSeen, turn, lbEvents
balancer == <<lb, content, lbUnderway, iaasDirty, paasDirty, want, setNew, set, setDirty, members,
              nodesNew, row, served, report, paasSeen, turn, lbEvents>>

Balancers == INSTANCE Balancers WITH
    Underway <- LbUnderway, MaxEvents <- MaxLbEvents,
    underway <- lbUnderway, events <- lbEvents

-----------------------------------------------------------------------------
VARIABLES at, n, cdrom, runs, disk, pgdata, saved, rows, hashed, relocated, file, services, bootEvents
stand == <<at, n, cdrom, runs, disk, pgdata, saved, rows, hashed, relocated, file, services, bootEvents>>

Bootstrap == INSTANCE Bootstrap WITH MaxEvents <- MaxBootEvents, events <- bootEvents

-----------------------------------------------------------------------------
ASSUME RecordsAssumption ==
    /\ Dns!DnsAssumption /\ Profiles!ProfilesAssumption /\ Balancers!BalancersAssumption
    /\ Bootstrap!BootstrapAssumption

RecordsInit ==
    /\ focus \in {"ipam", "dns", "profiles", "balancer", "stand"}
    /\ Init
    /\ Dns!Init /\ Profiles!Init /\ Balancers!Init /\ Bootstrap!Init

RecordsNext ==
    /\ UNCHANGED focus
    /\ \/ /\ focus = "ipam" /\ Next
          /\ UNCHANGED <<dns, profiles, balancer, stand>>
       \/ /\ focus = "dns" /\ Dns!Next
          /\ UNCHANGED <<vars, profiles, balancer, stand>>
       \/ /\ focus = "profiles" /\ Profiles!Next
          /\ UNCHANGED <<vars, dns, balancer, stand>>
       \/ /\ focus = "balancer" /\ Balancers!Next
          /\ UNCHANGED <<vars, dns, profiles, stand>>
       \/ /\ focus = "stand" /\ Bootstrap!Next
          /\ UNCHANGED <<vars, dns, profiles, balancer>>

\* Each is scheduled as its own specification says.
Fairness ==
    /\ WF_dns(focus = "dns" /\ Dns!Service)
    /\ WF_dns(focus = "dns" /\ Dns!Tick)
    /\ WF_profiles(focus = "profiles" /\ Profiles!Builder)
    /\ WF_balancer(focus = "balancer" /\ Balancers!Process)
    /\ \A m \in Nodes :
        /\ SF_balancer(focus = "balancer" /\ Balancers!NodeProceeds(m))
        /\ SF_balancer(focus = "balancer" /\ Balancers!Serve(m))
    /\ WF_stand(focus = "stand" /\ Bootstrap!Program)
    /\ WF_stand(focus = "stand" /\ Bootstrap!Services)

recordsVars == <<focus, vars, dns, profiles, balancer, stand>>

RecordsSpec == RecordsInit /\ [][RecordsNext]_recordsVars /\ Fairness

-----------------------------------------------------------------------------
\* Every row, request and report has its type, and what belongs together agrees.
TypesOK ==
    CASE focus = "ipam" -> TypeOK
      [] focus = "dns" -> Dns!TypeOK
      [] focus = "profiles" -> Profiles!TypeOK
      [] focus = "balancer" -> Balancers!TypeOK
      [] focus = "stand" -> Bootstrap!TypeOK

\* Once users and failures stop: records reach the ecosystem, a variable has the
\* value its setter calls for, a balancer's nodes serve what they should, and a
\* stand has come up (DnsConverges, VariableFollows, BalancerSettles and
\* BootstrapSettles of the modules).
Converges == <>[](
    CASE focus = "dns" -> Dns!InStep
      [] focus = "profiles" -> Profiles!Follows
      [] focus = "balancer" -> Balancers!Balanced
      [] focus = "stand" -> Bootstrap!Booted
      [] OTHER -> TRUE)

\* Of a balancer: a change of size or content replaces no node.
NodesAreKept == Balancers!NodesAreKept

\* Of the bootstrap: no other salt than the one the secrets were hashed with.
SaltIsKept == focus = "stand" => Bootstrap!SaltIsKept

\* Of the bootstrap: what is in the database stays, whatever image boots.
RowsSurvive == Bootstrap!RowsSurvive
=============================================================================
