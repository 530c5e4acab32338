# A TLA+ development of exordos_core

exordos_core is the control plane of a small cloud: users create nodes, volumes,
networks, configurations, secrets and elements through REST APIs; a single
service process reconciles the tables with machines, hypervisors, a DHCP server
and the agents on the nodes. Nearly all of its logic has one shape: *rows in
PostgreSQL say what should be, an iteration reads them together with what is,
and changes one or the other*. Users, agents and schedulers write the same rows
meanwhile. The modules here model that logic as state machines, TLC checks them on
small instances, and TLAPS proves the most important facts for every instance.

Paths below are relative to `src/exordos_core/`.

## 1. Inventory

### The process and what surrounds it

`gservice/service.py` starts one process that runs some twenty services in a
fixed order, one iteration of each, for ever. Each iteration is one database
session: it commits at the end and rolls back on an exception. Concurrently with it
act the user API, the boot, orchestration and status APIs (each in a process of
its own) and the *universal agents* on hypervisors and nodes, which read target
resources and report actual ones. Services never talk to each other except
through tables. gcl_sdk (agents, target and actual resources, the universal
builder), gcl_looper (the loop), restalchemy (ORM) and PostgreSQL are external.

Three properties of these decide much of what follows. Isolation is READ
COMMITTED, so two reads of an iteration see different tables. An update of the ORM
writes *every* column from the copy that was read, if the copy was changed or
the update is forced; of a row that is gone it raises. A statement that PostgreSQL
refuses spoils the rest of its transaction, also when Python catches the
exception.

### Components

| Component | State | Operations | What is hard | Correct when |
|---|---|---|---|---|
| IPAM (`network/ipam.py`) | list of free ranges per subnet, in memory for one iteration | construct from ports, allocate (with or without target), deallocate | list surgery at the ends of ranges, merging, an empty pool | the list is a set of addresses; an address in use is never on offer |
| Network service and flat driver (`network/service.py`, `network/driver/flat.py`) | compute_ports, nodes.default_network; DHCP context file and its hash; the running server | find nodes without a port, allocate, insert, create/delete ports in DHCP, actualize status | DHCP is changed before the commit; failed statements abort the transaction; users delete nodes in the middle; restarts make the context unreadable | one address per port, one port per node, the node is told the truth, DHCP converges to the table and is not interrupted |
| Scheduler (`compute/scheduler`) | nodes.pool, machines, machine volumes; availability in memory | place nodes and volumes on pools, bind nodes to existing machines | availability in the tables is an iteration old | a machine fits where it is placed, mates apart; every node that fits somewhere is placed |
| Pool builder (`compute/builders/pool.py`) | machines, guests, machine volumes and their resources; boot mode | check capacity again, reschedule, switch boot mode after flashing, derive status | rescheduling deletes rows others refer to; agents answer late | nothing is overcommitted, no node is lost, a machine boots from disk only with the image asked for |
| Pool agent (`compute/agents/universal/drivers/pool.py`, `compute/pool/drivers`) | the hypervisor's domains and volumes, a snapshot of the pool | create, update, delete machines and volumes, report | capacity is counted in a snapshot; a change is a deletion and a creation | no overcommit; a machine has its root volume; a user's disk is never deleted with a machine |
| Node and volume builders (`compute/builders`) | machines, machine volumes and statuses | derive one level of rows from another | the levels lag behind each other by a turn | every change arrives, in every order |
| Node sets (`compute/builders/node_set.py`) | set rows, the nodes of each | grow, shrink, derive status | members are made and lost while the set changes | as many as asked for, and none replaced |
| Configuration delivery (`config/service.py`) | configs, renders per node, agents' answers | new, changed, outdated, deleted | answers to an old render arrive after a change; users write rows between two passes | every render belongs to a config, is ACTIVE only if applied, and carries the current body |
| Secrets (`secret/service.py`) | passwords, certificates, SSH keys and their resources; the agent's store | the same four passes; generate | the agent owns the value, the user may change it; a key is on many hosts | an ACTIVE row shows what is stored, a value changes only when asked for |
| Identity and access (`user_api/iam`) | users, confirmation codes; organizations, members, projects, bindings; tokens, authorization codes | register, confirm, reset; log in, refresh, log out, authorize; delete with everything that refers to it | requests write whole rows from old copies; cascades | a code works once, a session ends, nothing refers to what is gone |
| Janitor (`janitor/service.py`) | - | clears expired codes, hourly | users ask for new codes meanwhile | expired codes go, and nothing else is lost |
| Values and profiles (`vs`) | profiles, variables, values | activate, select, release, derive a variable's value | two requests at once; deletion while in use | a variable's value is the one its setter calls for |
| Element manager (`elements`) | manifests, elements, resources, imports and exports, targets | install, upgrade, uninstall; render and actualize | dependencies between elements change under an upgrade and under the builder | resources are what the manifests say; every element becomes ACTIVE |
| DNS synchronisation (`dns_sync/service.py`) | local records, remote records, time of the last pass | fast pass, full pass, the realm's domain | a pass in a thread, clocks, pushes that fail after they took effect | remote records converge to the local ones |
| Load balancers (`network/lb`, `user_api/network`) | balancer rows and their children, node set, agent resources | two builders on one row | each sees the other's write as a change | balancer, nodes and status agree in the end; nodes are kept |
| Bootstrap (`cmd/bootstrap*.py`, `bootstrap`, `genesis/images/bootstrap.sh`) | data disk, database, config, default rows | bring up a stand, and again on each boot | boots that are cut short anywhere, new images | one salt, no row lost, the stand comes up |
| APIs, telemetry, events, DHCP text, migrations | none of their own | requests, reports | - | - |

`PROJECT.json` lists the components with their sources and, under `hazards`,
what in this code a test would hardly reach, each with its line and the
properties that watch it.

## 2. Plan

Modelled (section 3): every component of the table with state of its own. Proved (section 5): every
invariant and every action property the runs check, and the refinement of the abstract pool. Liveness is left to TLC. What is left:

1. The builder of systemd services (`elements/builders/service.py`), several subnets,
   balancers of the other kind.
2. Disks of several sizes in **Placement**, whose capacity proofs count sums already.
3. Proofs that a pass of a builder loses no change (`ConfigDelivery`, `Secrets`), the safety half of what
   `DeliverySettles` and `SecretsSettle` say.

Each module keeps its bounds as CONSTANTS, has one action per statement group between
which another process may act, and declares no RECURSIVE operator.

## 3. Modules

**IpRanges** - the operators of class `Ipam` on one list of ranges: `OccupyIp`,
`FirstFree`/`TakeFirst` (allocate_ip without target), `DeallocateIp`. The loops,
which act on the first range that meets a condition and return, become
`FirstIndex` of the set of indices that meet it. `FreeAddresses` is what a list
means and `WellFormed` the shape it must keep.

**IpPool** - the abstract specification: a set of free and a set of held
addresses. **Ipam** - the IPAM as the network service drives it: the constructor
excludes the ports' addresses one at a time (`ExcludePort`), then addresses are
allocated and given back. `ImplementsPool` is the refinement, with
`free <- FreeAddresses(pool)`. The smallest free address is part of the abstraction because
callers may rely on the order in which addresses are handed out.

**NetworkService** - the whole iteration of `NetworkService._iteration` on one
subnet, cut where other processes can act:

| Model | Code |
|---|---|
| `Begin`, `ReadSubnetMap`, `ReadHwNodes` | the three reads, each its own statement under READ COMMITTED |
| `ExcludePort` | construction of the IPAM |
| `AllocatePort`, `InsertPort`, `FailInsert` | `_allocate_port`, `port.insert()`, and the handler of its failure |
| `FailAllocation`, `FailUnbound` | the handler when `_allocate_port` raises: with the `port` of an earlier turn, and with none |
| `AllocateHw`, `FailHw` | the loop over ports of hardware nodes |
| `CreateSubnet`, `CreatePorts`, `DeletePorts`, `ActualizePorts` | `_actualize_network` and `_actualize_subnet` with the driver calls they make |
| `Applied`, `NotApplied` | `_apply_cfg` succeeds, or fails after the file was written |
| `Commit` | end of the session: writes reach the tables, or nothing does if a statement had failed |
| `Crash` | the process dies; the driver's hash is salted per process, so the context reads as empty afterwards |
| `CreateNode`, `DeleteNode`, `PlaceHw`, `LoseMachine` | users and scheduler, with the foreign keys' cascades |

`written`, `netWrites` and `aborted` are the open transaction. A row written in
it is locked, so `DeleteNode` and `LoseMachine` wait for nodes it has touched. The
history variable `staleFreed` records that the handler gave back the address of
another node's port; it occurs in one property and in no guard. Ports are model
records: masks, names and MAC addresses play no part in the properties.
`uuid4` yields an identifier nothing refers to.

**ConfigDelivery** - one iteration of `ConfigServiceBuilder`, cut at its reads and at
the turns of its loops, with users and agents in between:

| Model | Code |
|---|---|
| `CreateConfig`, `UpdateConfig`, `DeleteConfig` | the API; a PUT forces the status NEW (`user_api/config/api/controllers.py`) |
| `CreateNode`, `DeleteNode` | nodes of a target come and go; a config outlives them |
| `Begin`, `ActualizeNew` | `_actualize_new_configs`, one turn per config: `DropOwnerless`, `WaitForNodes`, `FailRender` (the body is a template, which cannot be rendered yet: its resource is inserted, no render is), `FailInsert` or `InsertRenders` |
| `ReadChanged`, `ActualizeNew` | `_actualize_changed_configs`: delete resource and renders, then as new |
| `ReadOutdated`, `ActualizeOutdated` | `_actualize_outdated_configs`: renders whose report has another full hash; `PairedWith` is the `zip` of configs and resources |
| `ReadDeleted` | `_actualize_deleted_configs` |
| `Commit`, `Rollback`, `Crash` | end of the session, its end after a statement failed, death of the process |
| `Apply`, `ReportDisk`, `ReportTrouble` | agents: the file follows the render, the report follows the file |

`store` is the committed state of the target resources, `work` what the open
transaction sees of it, `written` the config rows it wrote; these are locked, so
users wait for them. `batch` holds the rows as the pass read them: `config.save()` writes
the whole row back. Whether tracked_at equals updated_at is all the code asks of
the two timestamps, so `tracked` is the set of configs for which they
are equal, and every write to a row moves the config in or out of it. A report and
its full hash are one value; `hash` is the body. Mode, owner, group and on_change are part of the
body. Path and target of a config do not change here; `limit` of the queries is
taken as never reached; reading the target nodes and checking the owners of one config is one step.

**Placement** - scheduler, pool builder and pool agent over one set of tables, in the
order in which `gservice` runs them (`turn`), with the network's and the node builder's
part reduced to one action each:

| Model | Code |
|---|---|
| `ScheduleBegin`, `PlaceNode`, `SchedulePass`, `ScheduleCommit` | an iteration of `SchedulerService`: reads, one node at a time with its filters (`Suitable`, `Apart`), and the writes, which are lost if an insert failed |
| `BuildPools`, `BuildVolumes`, `BuildMachines`, `BuildNodes` | the builders' passes over new, changed and deleted rows; `NoSpace`, `NotEnough`, `CannotGrow` are their checks, `Rescheduled` what they give back |
| `AgentStart`, `AgentVolume`, `CreateOrUpdateMachine`, `LeaveMachine`, `DeleteMachine`, `AgentReport` | the agent: snapshot, volumes, machines, report; `Fits` and `Startable` are its checks |
| `Crash`, `CrashInUpdate` | the process dies between two turns, or with the domain undefined and not yet defined again |
| `CreateNode`, `ResizeNode`, `DeleteNode` | users |

**MachineLife** - one placed machine from the order to the running system: `BuildMachine`
(ports, image and boot of the machine; `BootToCreate`, `BootToUpdate` and `Switched` are the
three places that choose where it boots from), `BuildNode` and `BuildVolume`, which carry a
change over, `AgentIteration`, which defines the domain anew (`CrashInRecreate` dies in
between), and the guest: `Flash`, `FlashDone`, `BootDisk`. Users change the node whenever they
like. Three history variables tell apart what properties speak of: `other`, another image than
the one that last ran was asked for since, or was on its way; `disturbed`, a change reached the
machine while it was being installed; `missed`, a change that may never arrive: it came before
the node builder's first pass, or after the machine had been rebuilt already.

**Volumes** - volumes of users: `CreateVolume`, `Attach`, `Detach`, `Resize`, `DeleteVolume`,
`CreateNode`, `DeleteNode`; `Schedule` (with the aborts of its transaction), `BuildPools`,
`BuildVolumes`, `AgentVolumes`, `AgentMachines`, crashes.

**Secrets** - a password or certificate: the service's passes (`Begin`, `ActualizeNew`,
`ActualizeChanged`, `ActualizeOutdated`, `Commit`, `Rollback`) in one transaction, the agent
that generates and keeps it (`Apply`, `Report`), users. A certificate is never renewed: its
update raises, due (`Expire`) or not (`backend/cert.py:120`). **SshKeys** - the
same passes over a key and its hosts, one resource per node.

**Accounts** - the rows of users as requests and the janitor see them: each reads at its
start (`Begin`, `JanitorRead`) and writes the whole row at its end (`Confirm`, `Reset`, `Send`,
`Rename`, `ChangePassword`, `Otp`, `DeleteUser`, `JanitorClear`); codes reach users by mail
(`mailed`), which may be lost.

**Sessions** - organizations, members, projects and bindings, and the tokens that refer to
them. A request that makes or refreshes a token reads first (`LogIn`, `AskServiceToken`,
`AskRefresh`, `Confirm`, `Exchange`) and writes in a later step (`Issue`, `SaveRefreshed`,
`SaveConfirmed`, `Exchanged`, or `Fail`); the requests of `People`, `LogOut` and `Authorize`
are one step. `Cascade` is what the foreign keys do to tokens. Members and bindings stand in the order in
which they were created, by which defaults are chosen; a deleted row leaves its place empty. Time is what is left of a
token's life, so `Tick` only counts down.

**Elements** - `Install`, `Upgrade`, `Uninstall`, each one transaction; the builder in two
steps, since it loads all tables into its engine (`Load`) and works on that copy
(`Actualize`, or `Rollback` when an import dangles, a provider is missing or an insert meets
a row); agents that make what targets say (`Take`, `Done`, `Drop`).

**Profiles** - a variable, the values it may take and the profiles that determine it.
Requests read at their start and write at their end; the builder follows
(`ByProfile`, `BySelector`).

**Dns** - one push at a time, in a thread and a transaction of its own: `BeginFull` or
`BeginFast`, `Diff` for the zones of the full pass, `Push` one request at a time, each of
which may take effect and fail all the same (`PushLost`, `DiffFails`, `BeginFails`), `End`. A
user's request stamps its row before it commits (`Stamp`, `Write`), which is how a change can be older
than the pass that missed it.

**Balancers** - `LbIaas` and `LbPaas`, the two builders of a balancer, with `SetBuilder` and
`InfraAgent` between them and the nodes, in their order in the process; nodes that come up
or fail, agents that serve or fail; requests with whole-row writes (`Resize`, `EditChild`).
The reports of the set and the nodes are their rows, with the flags `setNew` and `nodesNew`: `infra_agent`
reports what it finds, and nobody writes those rows before the report is read. Of a node's statuses,
SCHEDULED stands for STARTED too: both leave the status of the set as it is.

**Bootstrap** - the program of a boot as a sequence of units: `ProvisionDisk`, `CopyDatabase`,
`UseDatabase`, `MakeConfig`, `ApplyMigrations` and `EnableServices` (or `SetUpFails`, which ends the script), then the units of `main` (`Write` makes one row at a
time, `Skip` looks at the first), `ApplyPools`, `InstallElement`; `Reboot` anywhere, `Reimage`, and
the services that run beside it from the second boot on (`MakeVariable`, `TakeCoreSet`).

History variables (`staleFreed`, `answered`, `other`, `disturbed`, `missed`, `early`, `overtaken`, `stale`, `lost`,
`closed`, `data`) occur in properties and in no guard.

**Instances.** **MCIpam**, **MCNetworkService**, **MCConfigDelivery**, **MCPlacement** and
**MCMachineLife** extend one module and give its constants values. **Services** puts eight
modules side by side that share no table here: a variable `focus`,
chosen at the start and never changed, says which of them moves. Since they do not interact,
exploring one at a time loses no behaviour that a property could tell apart; and since the
variables of the others keep their initial values, the runs cost the sum of the parts and not
the product. **Records** does the same for five others. The constants of both are those of their parts; **MCServices**
and **MCRecords** give them values. Definitions marked "Mutant of" are plausible
mistakes; each makes the property it is paired with in `PROJECT.json` fail.

**Theorems** are in **IpRangesProofs**, **IpamProofs**, **NetworkServiceProofs**, **ConfigDeliveryProofs**
and **PlacementProofs**, each about the module of its name; in **DataProofs** (volumes, secrets, the
life of a machine) and **ServicesProofs** (accounts, elements, SSH keys, sessions), which extend Services, and in
**RecordsProofs** (profiles, DNS, balancer, bootstrap), which extends Records. These speak of the instances by their
qualified names (`Accounts!Spec`, `Dns!TypeOK`).

**Granularity.** Where the code's own transaction can be overtaken, its reads and writes are
steps of their own (NetworkService, ConfigDelivery, Secrets, SshKeys, Elements, Dns, the
scheduler of Placement, requests of Accounts and Profiles, token requests of Sessions). The turn of a
builder is one step with respect to users in Placement, MachineLife, Volumes, Profiles
and Balancers: there the subject is what several services do to each other over many turns,
with a crash between and, where a turn changes the hypervisor in two parts, within them.

## 4. Runs

| Run | Question | Bounds |
|---|---|---|
| `records` | Does list surgery implement a set? Do DNS, a variable, a balancer and a stand come to what was asked for? | see below |
| `services` | Do accounts, sessions, elements, a machine, volumes, secrets, an SSH key and the network keep their invariants and settle? | see below |
| `network` | Is an iteration safe in every interleaving with users, scheduler and one failure? | two VM nodes, one HW node that may lose its machine once, three addresses, one crash or failed restart, five port identifiers |
| `placement` | Is capacity kept, and does whoever fits run? | two nodes of one anti-affinity policy, up to two cores each; two hypervisors with room for both, or short of cores and one of space; four events |
| `config` | Is delivery safe, and does it converge? | three configs of one path: one for node n1, one for the set of n1 and n2, one for n3; n2 is created later; two bodies and a template; three events (user requests, node changes, crashes, troubled reports) |
| `ipam_discovery` (violation) | Are the addresses of all ports excluded, as the constructor says? | discovery 3..5 inside the pool (a subnet without `ip_range`) |
| `full` (violation) | Do hosts come back when the subnet is full? | two VM nodes, one address |
| `knows` (violation) | Is the node of an ACTIVE port told? | one VM and one HW node |
| `rescheduled` (violation) | Is a machine that was given back placed again? | hypervisors with room for one large node each |
| `machine_early` (violation) | Does a machine boot from its disk only with an image on it, also when it is changed while it is installed? | two images, one event |
| `config_put` (violation) | Is a change by a user always rendered? | one config, one node, two bodies, two events |
| `config_recreate` (violation) | Does every new config get its renders? | two configs of the same path and node, three events |

**Bounds of `records`.** *Addresses*: range 1..6; ports on 0, 1, 3, 4, 6; targets 2, 3, 6, 7;
discovery beside the range. Six addresses give three separate ranges, so that merging left, right
and both, both ends of the pool and addresses outside it all occur. *DNS*: two domains, two names (one
of them the realm's), one record, two values, three events: a record moves between
domains, a domain is renamed and its name taken by another. *Profiles*: two profiles the setter lists and one it does not,
two values, three requests, two at a time; the profile that is active first is fixed, the other
being alike. *Balancer*: up to two nodes, two contents, two requests at a time, two events.
*Stand*: two hypervisors in
the spec, two events (boots cut short, statements that fail, a new image).

**Bounds of `services`.** *Accounts*: two users, two requests at a time and three in all, two codes, two
passwords, two lifetimes of a code. *Sessions*: the administrator and a service account, an organization and a project
that may be there at the start, two tokens, lifetimes of one tick and two, one change of people or projects;
two requests at a time only beside the exchange of an authorization and before that change, one otherwise. *Elements*: two
versions of one element, another that imports from it, three requests. *Machine*: two images, two sizes
(the first of each fixed, the others being alike), four events (requests and crashes). *Volumes*: one volume, two nodes, two hypervisors, two sizes, four events.
*Secrets*: two names, two forms, three values, three events, passwords and certificates.
*SSH key*: two nodes, a target of one or both, two forms, three events. *Network*: one VM and one HW node, one
failure, then quiet.

`network` needs two VM nodes and a HW node: the stale local, the abort caused by a
node that is deleted between read and insert, and the status path after an
aborted commit each take two actors. A port needs an identifier for each of
its lives; with five of them every node can lose its port and get another, and
an identifier is reused only when nothing refers to it. Three events let a config be
created, created beside another and deleted, changed in any state
of the iteration, or lose its nodes; the service and the agents act between
them without bound. Four events of a machine are two changes of image with a crash in each, or
a resize in the middle of flashing, another and two crashes.

**Properties.** *Addresses*: `PoolWellFormed`, `NotOfferedTwice`, `ImplementsPool` as above.
*Network*: `UniqueIp` - ports share an address only if one of the nodes asked for it or the
stale-handler case happened, so these two are the *only* ways, and rollbacks, restarts
and concurrent deletions are not. `VmNetworkIsTrue` - `default_network`
names an existing active port with that address, although three different steps
write node, port and DHCP; the proof has it also for nodes that ask for the same address. `ActiveIsServed` - a row committed as ACTIVE is
served while nothing has failed. `OnePortPerNode`. `NoInterruption` - a port that stays in the table
loses DHCP only in a failure. `Settles` - once users and
failures stop, every node has a port and the DHCP context holds exactly the
table (and, of sessions, each ends however often it is refreshed; of SSH keys, a key is on its nodes or nowhere). `HostsComeBack` - a port in the table is eventually served.
*Placement*: `NotOvercommitted`, although the first two of three checks decide on availability that is a report
old and count nothing of what they let through; `RunsWhereItsDiskIs`, `MatesApart`, `RunningStays`, and `NodesRun`
and `Reclaimed` in the end.
*Machine*: `InstalledThenBooted` - it boots from its disk only with a whole image on it, unless a change reached it
while it was being installed; `DataIsKept` - a disk a system has run from is written again only if another image was asked for
since that system started, or was on its way then: a resize, a crash or a late report never wipe it; `MachineSettles`.
*Volumes*: `DiskIsKept` - a disk goes only with its volume, however detaching, moving, resizing and deleting machines
overlap. (`delete_machine` means to delete what is attached, but lists it, `compute/pool/drivers/libvirt.py:1244`, by a domain
that it has undefined just before, and so finds nothing.) `AttachedAsAsked`.
*Configs*: `RendersHaveMasters` - no render without the resource of its config, which
is how the deleted pass finds it. `ActiveRenderWasApplied` - a render is ACTIVE only if
its node reported its very content; identifiers of renders are reused by every
new version, so old reports look like answers to it. `DeliverySettles` - unless two renders clash, configs with a
node are rendered, unless they are templates, deleted ones are forgotten, and files become what renders say.
`TrackedIsRendered` and `NewConfigIsRendered` (without that condition) are what the code does not keep.
*Secrets*: `ActiveIsStored`, `SecretIsKept`, `SecretsSettle`. *Accounts*: `VerifiedIsNewcomer`, `UsedCodesAreDead`,
`OldCodesAreCleared`. *Sessions*: `TypeOK` has the references - of tokens, codes, bindings and members - and that what
was deleted stays deleted, whatever requests under way write. *Elements*: `ResourcesAreTheManifests`,
`ElementsBecomeActive`. *Balancer*: `NodesAreKept`. *Stand*: `SaltIsKept`, `RowsSurvive`. `Converges` joins the
liveness of the parts of `records`. Where one property speaks of several parts, each part was tried against a
mistake of its own, besides the mutant that is listed: a notification that forgets `changed`, a balancer that does not mark
its PaaS half or keeps its first addresses, a bootstrap that goes on after a unit has failed (`Converges`); ports whose status
is left to their creation, SSH keys that are orphaned only while tracked (`Settles`); saves of deleted rows and cascades
that leave codes (`TypeOK`). Each was found.

**Exceptions that properties state.** Some promises hold but for a case that the code does handle
otherwise and that no text of the repository speaks about; the property names the case, so that everything else
is checked. A request between two passes of one iteration is overtaken by the service's copy of the row
(`overtaken` in Secrets and SshKeys, `stale` in Accounts, `lost` in Elements - the same mistake the run
`config_put` shows for configs). A machine that is changed before
the node builder has seen it keeps what it was placed with, and one rebuilt between the node builder and the volume builder,
after a crash, may miss its new image (`missed`); one that a change reaches while it is installed may be booted from what is
not there, which is what `machine_early` shows (`disturbed`, in `InstalledThenBooted` and `MachineSettles`). A config that is a template
stays NEW for ever (`Template`). A volume carried over before its node had a machine is not attached (`early`).
Two profiles activated at once may both stay active, and a variable whose element left a profile its setter does
not list keeps its value (`Follows`). A unit of the bootstrap that was cut short after its first row is taken
for done (`HalfDone`); a boot whose migrations failed has started nothing (`NotSetUp`). An element whose import has no target yet waits for ever (`Sound`).

**Fairness.** Weak fairness of the services' steps, which `gcl_looper` runs for ever one after another;
of the agents' own loops (configs, secrets, SSH keys, elements); of guests that have something to do; of the janitor; of
time in Dns and Sessions. A balancer's nodes have strong fairness: a node that could come up, or an agent
that could answer, again and again between changes of its target does so at last. Users, schedulers of hardware,
crashes and failures have none: they may stop, and the bounds on them make them stop.

**Deadlock** is checked in every run but `records`: there the bootstrap ends, a variable's builder waits for a
change, and requests are bounded.

**What the violations show.** (1) `calculate_pool` leaves the addresses of discovered ports on
offer when the pool covers the discovery range. (2) In a full subnet the
handler of the failed allocation raises on an unbound local, the iteration
ends there, and DHCP is never rebuilt. (3) A port whose first commit was
lost becomes ACTIVE on the path that does not fill `default_network`. (4) A config changed
between the changed pass and the outdated pass of one iteration is saved as ACTIVE with
the new body, and its renders keep the old one for good. (5) A config deleted and
created again before the next iteration makes every iteration roll back: new
configs come before deleted ones, and the renders of both have one uuid. The same happens
when two configs of one path meet on a node through a set. (6) A machine the pool builder gives back to
the scheduler leaves the row of its volume, whose identifier the next placement uses again: the insert fails, and
the scheduler's transaction is lost in every later iteration, for all nodes. (7) A machine
that is changed before its guest has reported anything is switched to boot from an empty disk and is never
flashed. There is more: FLASHED of an earlier image switches to the disk as well
(`builders/pool.py:332`), and a change back to the old image during flashing boots a disk that is half
written; `machine_early` stops at the first of these.

## 5. Proofs

Every safety property of the runs is a theorem, for every value of the constants. Each proof has the same argument:
an inductive invariant, that the initial states have it, that every action keeps it, that it implies the property. What an
invariant has beyond its property is named here, because it is what the code relies on without saying so.

*Assumptions* on the constants are named in the modules that declare them, and TLC evaluates each on the runs' values:
`IpamAssumption`, `NetworkAssumption`, `NoPortAssumption` (the ends of the range are integers in order, VM and HW nodes
are disjoint, the special values are no addresses or ports), `PlacementAssumption` and `NoRowAssumption` (sizes, None is
no row), `ConfigAssumption` (paths and nodes of the targets are given; the uuids are numbers), `ConstantsAssumption` of Services
and `RecordsAssumption` of Records, which are those of their parts. One thing is a hypothesis of the theorems that need it, and
what happens without it is a run that expects a violation: `DiscoveryBeside` - the discovery range lies outside the pool
(`ipam_discovery`).

*IpRangesProofs*. The effect on a well-formed list of removing, replacing and
inserting one range (`RemoveRange`, `ReplaceRange`, `InsertRange`), from which
`OccupyIpCorrect`, `TakeFirstCorrect` and `DeallocateIpCorrect` follow by cases
on the position of the address. These are facts about lists of any length.

*IpamProofs*. The invariant `IInv` joins types, well-formedness and disjointness of free
and held addresses; it is inductive because each operator changes the set
by exactly one address. `ListStaysWellFormed`, `NeverOfferedTwice` and the step
simulation behind `IpamImplementsPool` follow.

*NetworkServiceProofs*. `TypesHold` strengthens `TypeOK` with what the insert
step relies on (`port` is bound at "insert"). `AddressesAreUnique` needs
`AddressInv`: identifiers determine ports in the table and the subnet map,
the map contains every port of the table while it is in use, no two ports of
the map share an address (with the same two exceptions), and the pool is
disjoint from the addresses of the map except those still to be excluded.
The last two are not true of a table alone: that an address is free is
known only from the map the pool was built from, and that map must not have missed a
row - which holds because only the service inserts ports. The steps after
allocation need less, so the invariant is split by `pc`.
`NodesHaveOnePort` needs `NodeInv`: the list of VM nodes without a port is read before the map, the HW nodes after it, and
each tells which nodes the map may have no port of (`MapTell`); whoever is given a port has no other in table or map (`SoleInv`).
`VmNetworksAreTrue` needs `VmInv`: only a port about to be inserted, or whose insert failed, is in the map and not in the table
(`LifeInv`), a row is never ahead of its copy in the map (`StatusInv`), and what is written of a node agrees with a row of the
same commit (`WriteInv`). `ActivePortsAreServed` and `HostsAreNotInterrupted` need `PlaneInv`: the context, the rows and the map
agree whose an identifier is (`CtxInv`), and as long as nothing has failed the server runs with the context on disk and
knows every active port (`ServedInv`) - the data plane runs ahead of the table, never behind.

*ConfigDeliveryProofs*. `ConfigTypes` is inductive as it stands. `NoStrayRender` needs
`MastersInv`: the transaction's own tables have the property too, and so have the
renders the outdated pass is about to write back, which were read in an
earlier step; between the read and the last write no pass deletes resources.
`ActiveMeansApplied` needs `AppliedInv`, which follows a report from the
agent (`act`) through the pairs the service read (`answers`) to the status it
writes.

*PlacementProofs*. `HypervisorsAreNotOvercommitted` rests on `MemoryInv`: what the agent's snapshot shows as free is
free, although it is corrected by hand after each change of the iteration; the checks of scheduler and builder are not needed.
`MachinesRunWhereTheirDisksAre` and `MachinesKeepRunning` need `PlaceInv`: what the scheduler places is alive and has no machine
(`PlacingInv`), a node not created has left nothing (`UnusedInv`), a machine and its attached volume name one hypervisor
(`SamePoolInv`), the volumes' targets are fresh when the machines are built (`FreshInv`), a machine with a target keeps its
hypervisor and volume (`TargetInv`), a domain has a target and its disk (`DomainInv`). `MatesAreKeptApart` needs
`ApartInv`: availability, in report, row and scheduler, is never less than what the nodes begun leave free (`RoomInv`), so where
`Roomy` holds no lack of capacity drives a node to its mate, and the mates are apart together with the machines of the open
transaction (`MatesInv`). Used capacity is a sum over domains; that it grows with its terms is proved by a minimal
counterexample, since induction is out of reach here (below).

*DataProofs*. Rows lag behind each other, so each invariant says what a lagging row may hold. `DisksAreKept`: the rows that follow
a volume are there only if what they follow is (`OrderInv`), they never name different hypervisors (`PoolsAgree`), and a
disk is attached only to a domain of its own (`AttachedInv`). `ActiveSecretsAreStored` and
`SecretsAreKept`: whatever is shown was generated (`ValueInv`), nothing of one life of a secret is left in the next (`LivesInv`),
a report is late but of the secret that is stored (`ReportsInv`), and row and resource agree, in the tables and as
the open transaction sees them, unless a request was overtaken (`PassInv`, `RowInv`). `MachinesAreInstalledThenBooted` and
`DataAreKept`: the target follows the row of the machine (`RowsInv`); a whole image on the disk is the one the guest reported,
and only for another does the target go back to the network (`GuestInv`); until another image is asked for, node, volumes
and target name the one that ran (`KeptInv`). That much holds whatever users do. As long as no change reached the machine while
it was installed, FLASHED is said of the target's image while the target says network (`NetworkInv`), and once it says disk,
that image is on it and is not written (`DiskInv`); a change in the middle breaks exactly these two.

*ServicesProofs*. *Accounts*: whatever is claimed of rows has to hold of the copies that requests and the janitor
write back (`CopiesTimed`, `RoleInv`, `CodeInv`), and a copy must not survive into another life of its user (`KnownInv`).
*Elements*: the builder's engine is a copy of the tables and keeps their foreign keys (`SnapInv`); keys of
resources and targets are those of installed elements (`InstalledKeys`, `TargetKeys`). *SSH keys*: the reports a pass has read are of
nodes that still have their resource when the statuses are written (`KeyPass`). *Sessions*: a request under way carries
a whole token row of a user and project that may be gone, or a token that was there when it was read and is live or closed
now (`RequestRows`); that it is written only if both are there is the database's check (`Stored`), and that nothing
refers to what goes is its cascade (`TokensGo`).

*RecordsProofs*. *Bootstrap*: a boot is cut short anywhere, so `WalkInv` says between which units disk, database and config
are known to be there; `StandInv` adds that there are hashes only after a config was kept, and that the salts agree.
*Balancer*: `NodesStay` (a node leaves only while there are more than asked for) needs the types of rows and reports and
of the copies that requests carry (`RequestsInv`).
*Profiles*: the same of the copies, and that at most one value is selected by hand. *DNS*: names of domains differ (`NamesDiffer`),
and while a push has not committed its mark no other domain has the realm's name (`MarkOK`).

Modules that stand side by side share no variable and their steps leave each other's unchanged, so a theorem of a part holds
of the whole; the corollaries (`...Holds`) carry each over to `Spec` of Services or `RecordsSpec`, where the runs check it.

*Only model-checked*: liveness and what depends on fairness (`Settles`, `HostsComeBack`, `DeliverySettles`, `NodesRun`,
`Reclaimed`, `MachineSettles`, `AttachedAsAsked`, `SecretsSettle`, `OldCodesAreCleared`, `ElementsBecomeActive`,
`Converges`), which this prover does not reach. Induction over data is not available either: the library's induction
theorems take an operator as parameter. Where a proof needs it - the first index that meets a condition, sums - the argument is a
minimal counterexample, and the models keep to functions and sets where a recursive definition would say the same
(deleted rows of Sessions leave their place in the table empty, rather than be filtered out).

## 6. Not modelled, and why

- *Network*: several subnets and changes to a subnet's row (the service takes the first
  subnet that matches, each with a pool of its own; `IpamIpRangeOverlap` in one
  aborts the iteration for all); users who overwrite `default_network` through the API, so that
  `VmNetworkIsTrue` is about what the service writes; the unique index on MAC
  addresses (generated at random, a clash is an insert failure like those modelled); the text of the DHCP configuration.
- *Placement and machines*: disks of several sizes beside capacity (Placement has disks of size 1, Volumes no
  capacity), weighters (any suitable pool may win), RAM (checked wherever cores are), several storage pools in one
  hypervisor, hardware machines beyond their part in the network, XML and storage backends of libvirt, legacy domains,
  statuses of nodes and volumes. The universal builder of gcl_sdk is external: whether it looks at a report again when a
  rebuilt target equals the one reported is not known here, which is why MachineSettles leaves such a machine out (`missed`).
- *Configs*: `_handle_orphan_configs`, whose call is commented out in `_iteration`.
- *Secrets*: RSA keys (the same passes, without an agent that generates), passwords given by the user (MANUAL), nodes
  that join a set while it has a key, ACME.
- *Identity*: roles and permissions beyond "may do everything" (who owns an organization or is bound to a project is taken
  to have the policies for it), IAM clients, the rotation of their signing keys, hashing, OIDC wire formats. Tokens and codes
  are drawn at random and never twice.
- *Elements*: the grammar of links, validation, the builder of systemd services. One variable per element stands for all. `Load` is
  one step where the engine issues four statements (elements, imports, resources, exports; `elements/dm/models.py:1055-1087`): a request that
  commits between them mostly makes loading raise (an element or a resource that is not found), which changes nothing and is
  repeated, and otherwise leaves the engine with imports that are one statement older than the resources.
- *Values*: several variables and elements at once, and a direct PUT of `manual_selected`, which the API offers and which may select two values.
- *Balancers*: those of kind core_agent, the deletion of a balancer, validation of routes.
- *DNS*: contents of records, SOA records, PowerDNS.
- *Bootstrap*: `_apply_startup_db` in `cmd/bootstrap.py` (186) and what it calls, an older copy of `bootstrap/defaults.py` that nothing runs; developer
  keys; loss of power before a file reaches the disk (a write is durable once it returned). One config file
  stands for all of them. What the migrations of a new image change in the rows is left out: they are taken to keep
  the rows that the units look for.
- HTTP layers, boot, orchestration and status APIs, telemetry, events, security policies and migrations: no state of their own, or
  run once, in sequence.
