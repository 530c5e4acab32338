------------------------------ MODULE Services ------------------------------
(***************************************************************************)
(* Accounts, sessions, elements, the life of a machine, volumes of their   *)
(* own, secrets, an SSH key, and the network service, side by side.  They  *)
(* share no table in these models: the one in focus moves in each          *)
(* behaviour.                                                              *)
(***************************************************************************)
EXTENDS Naturals

CONSTANTS
    None,
    Users, Requests,               \* of Accounts and Sessions
    Codes, Passwords, MaxNow, MaxRequests,
    ServiceUsers, Admin, Orgs, Projects, Scopes, Tokens, Access, Refresh, MaxChanges,
    ElementNames, Manifests, Manifest, MaxElementEvents,
    Images, MaxSize, MaxMachineEvents,
    Vols, Nodes, Pools, MaxVolumeEvents,
    Names, Forms, MaxValues, MaxSecretEvents,
    MaxKeyEvents,
    VmNode, HwNode, Target, NoIp, RangeFirst, RangeLast, Uuid, NoPort, MaxMoves, MaxFaults

VARIABLE focus

-----------------------------------------------------------------------------
VARIABLES user, newcomer, mailed, now, req, batch, requests, used, stale
accounts == <<user, newcomer, mailed, now, req, batch, requests, used, stale>>

Accounts == INSTANCE Accounts WITH
    Secrets <- Passwords

-----------------------------------------------------------------------------
VARIABLES users, orgs, sMembers, project, bindings, token, code, asked, held, request, changes, closed
sessions == <<users, orgs, sMembers, project, bindings, token, code, asked, held, request, changes, closed>>

Sessions == INSTANCE Sessions WITH members <- sMembers

-----------------------------------------------------------------------------
VARIABLES installed, status, resource, import, export, target, reported, snap, eEvents, lost
elements == <<installed, status, resource, import, export, target, reported, snap, eEvents, lost>>

Elements == INSTANCE Elements WITH
    MaxEvents <- MaxElementEvents, row <- resource, actual <- reported, events <- eEvents

-----------------------------------------------------------------------------
VARIABLES node, vol, mvol, machine, nres, vres, hyper, guest,
          vm, disk, os, poolrep, guestrep, seen, turn, events, data, other, disturbed, missed
machines == <<node, vol, mvol, machine, nres, vres, hyper, guest,
              vm, disk, os, poolrep, guestrep, seen, turn, events, data, other, disturbed, missed>>

MachineLife == INSTANCE MachineLife WITH MaxEvents <- MaxMachineEvents, pool <- hyper

-----------------------------------------------------------------------------
VARIABLES placement, home, volume, machineVolume, touched, volumeTarget, pv, pm, dom, disks, vTurn, vEvents, early
volumes == <<placement, home, volume, machineVolume, touched, volumeTarget, pv, pm, dom, disks, vTurn, vEvents, early>>

Volumes == INSTANCE Volumes WITH
    MaxEvents <- MaxVolumeEvents, node <- placement, vol <- volume, mvol <- machineVolume, vres <- volumeTarget,
    disk <- disks, turn <- vTurn, events <- vEvents

-----------------------------------------------------------------------------
VARIABLES kind, row, res, tracked, store, rep, pass, work, locked, copy,
          values, sEvents, overtaken
secrets == <<kind, row, res, tracked, store, rep, pass, work, locked, copy,
             values, sEvents, overtaken>>

Secrets == INSTANCE Secrets WITH MaxEvents <- MaxSecretEvents, events <- sEvents

-----------------------------------------------------------------------------
VARIABLES key, nodes, tables, kActual, kPass, kWork, kLocked, kCopy, kEvents, kOvertaken
keys == <<key, nodes, tables, kActual, kPass, kWork, kLocked, kCopy, kEvents, kOvertaken>>

SshKeys == INSTANCE SshKeys WITH
    MaxEvents <- MaxKeyEvents, actual <- kActual, pass <- kPass, work <- kWork, locked <- kLocked, copy <- kCopy,
    events <- kEvents, overtaken <- kOvertaken

-----------------------------------------------------------------------------
VARIABLES life, placed, ports, defaultNet, pc, newVm, newHw, netPorts, todo, pool, port,
          actual, written, netWrites, aborted, ctx, ctxValid, served, moves, faults, staleFreed
network == <<life, placed, ports, defaultNet, pc, newVm, newHw, netPorts, todo, pool, port,
             actual, written, netWrites, aborted, ctx, ctxValid, served, moves, faults, staleFreed>>

Network == INSTANCE NetworkService

-----------------------------------------------------------------------------
ASSUME ConstantsAssumption ==
    /\ Accounts!AccountsAssumption /\ Elements!ElementsAssumption /\ Volumes!VolumesAssumption
    /\ Secrets!SecretsAssumption /\ MachineLife!MachineAssumption
    /\ SshKeys!KeysAssumption /\ Sessions!SessionsAssumption

Init ==
    /\ focus \in {"accounts", "sessions", "elements", "machine", "volumes", "secrets", "keys", "network"}
    /\ Accounts!Init /\ Sessions!Init /\ Elements!Init /\ MachineLife!Init
    /\ Volumes!Init /\ Secrets!Init /\ SshKeys!Init
    /\ Network!Init

Next ==
    /\ UNCHANGED focus
    /\ \/ /\ focus = "accounts" /\ Accounts!Next
          /\ UNCHANGED <<sessions, elements, machines, volumes, secrets, keys, network>>
       \/ /\ focus = "sessions" /\ Sessions!Next
          /\ UNCHANGED <<accounts, elements, machines, volumes, secrets, keys, network>>
       \/ /\ focus = "elements" /\ Elements!Next
          /\ UNCHANGED <<accounts, sessions, machines, volumes, secrets, keys, network>>
       \/ /\ focus = "machine" /\ MachineLife!Next
          /\ UNCHANGED <<accounts, sessions, elements, volumes, secrets, keys, network>>
       \/ /\ focus = "volumes" /\ Volumes!Next
          /\ UNCHANGED <<accounts, sessions, elements, machines, secrets, keys, network>>
       \/ /\ focus = "secrets" /\ Secrets!Next
          /\ UNCHANGED <<accounts, sessions, elements, machines, volumes, keys, network>>
       \/ /\ focus = "keys" /\ SshKeys!Next
          /\ UNCHANGED <<accounts, sessions, elements, machines, volumes, secrets, network>>
       \/ /\ focus = "network" /\ Network!Next
          /\ UNCHANGED <<accounts, sessions, elements, machines, volumes, secrets, keys>>

vars == <<focus, accounts, sessions, elements, machines, volumes, secrets, keys, network>>

\* Each is scheduled as its own specification says.
Fairness ==
    /\ WF_accounts(focus = "accounts" /\ Accounts!Janitor)
    /\ WF_sessions(focus = "sessions" /\ Sessions!Tick)
    /\ WF_elements(focus = "elements" /\ Elements!Builder)
    /\ WF_elements(focus = "elements" /\ Elements!Agent)
    /\ WF_machines(focus = "machine" /\ MachineLife!Process)
    /\ WF_machines(focus = "machine" /\ MachineLife!Guest)
    /\ WF_volumes(focus = "volumes" /\ Volumes!Process)
    /\ WF_secrets(focus = "secrets" /\ Secrets!Service)
    /\ WF_secrets(focus = "secrets" /\ Secrets!Apply)
    /\ WF_secrets(focus = "secrets" /\ Secrets!Report)
    /\ WF_keys(focus = "keys" /\ SshKeys!Service)
    /\ \A n \in Nodes : WF_keys(focus = "keys" /\ SshKeys!AgentActs(n))
    /\ WF_network(focus = "network" /\ Network!Service)

Spec == Init /\ [][Next]_vars /\ Fairness

-----------------------------------------------------------------------------
\* Every row, target and report has its type, and what belongs together agrees.
TypeOK ==
    CASE focus = "accounts" -> Accounts!TypeOK
      [] focus = "sessions" -> Sessions!TypeOK
      [] focus = "elements" -> Elements!TypeOK
      [] focus = "machine" -> MachineLife!TypeOK
      [] focus = "volumes" -> Volumes!TypeOK
      [] focus = "secrets" -> Secrets!TypeOK
      [] focus = "keys" -> SshKeys!TypeOK
      [] OTHER -> TRUE    \* MCNetworkService has the network's

\* Of accounts: whoever is verified has the role of a newcomer, whatever
\* requests and the janitor overwrite.
VerifiedIsNewcomer == focus = "accounts" => Accounts!VerifiedIsNewcomer

\* A confirmation code that did its work is not in the row any more.
UsedCodesAreDead == focus = "accounts" => Accounts!UsedCodesAreDead

\* The janitor clears the codes that have expired.
OldCodesAreCleared == <>[](focus = "accounts" => Accounts!NoneIsOld)

\* Of elements: resources are what the installed manifests say.
ResourcesAreTheManifests == focus = "elements" => Elements!ResourcesAreTheManifests

\* Elements become ACTIVE, and what was uninstalled is gone everywhere.
ElementsBecomeActive == <>[](focus = "elements" => Elements!Made)

\* Of a machine: unless it was changed while it was installed, it boots from its
\* disk only when a whole image is on it.
InstalledThenBooted == focus = "machine" => MachineLife!InstalledThenBooted

\* A disk that a system runs from is wiped only for another image.
DataIsKept == MachineLife!DataIsKept

\* The machine becomes what the user asked for.
MachineSettles == <>[](focus = "machine" => missed \/ disturbed \/ MachineLife!Delivered)

\* Of volumes: a disk lives as long as its volume, not as its node.
DiskIsKept == Volumes!DiskIsKept

\* A volume ends up attached to the machine of its node, in its size.
AttachedAsAsked == <>[](focus = "volumes" => Volumes!Attached)

\* Of secrets: an ACTIVE row shows what the agent stores.
ActiveIsStored == focus = "secrets" => Secrets!ActiveIsStored

\* A secret changes only when its user has asked for another.
SecretIsKept == Secrets!SecretIsKept

\* Row, store and status come to agree, and what was deleted is gone.
SecretsSettle == <>[](focus = "secrets" => Secrets!InAgreement)

\* Of the network: once users and failures leave it alone, tables and DHCP agree,
\* and the hosts that a restart lost are back.  Of sessions: each ends, however
\* often it is refreshed.  Of SSH keys: a key is on its nodes, or nowhere.
Settles == <>[](
    /\ focus = "network" => Network!Settled
    /\ focus = "sessions" => Sessions!Ended
    /\ focus = "keys" => SshKeys!KeySettled)
=============================================================================
