------------------------------ MODULE Bootstrap ------------------------------
(***************************************************************************)
(* The first minutes of a stand, and each later boot                       *)
(* (genesis/images/bootstrap.sh, cmd/bootstrap_templates.py,               *)
(* cmd/bootstrap.py, bootstrap/defaults.py).                               *)
(*                                                                         *)
(* A program of units, each of them idempotent by a look at the first      *)
(* thing it makes.  Every write is durable by itself, a boot may end       *)
(* between any two of them, and from the second boot on the services of    *)
(* the stand run beside the program.  The data disk outlives the root      *)
(* disk, which a new image replaces.                                       *)
(***************************************************************************)
EXTENDS Naturals, Sequences, FiniteSets

CONSTANTS
    Uris,          \* connection_uri of the hypervisors in the spec
    MaxEvents,     \* bound: boots that are cut short, errors, new images
    None

VARIABLES
    at, n,         \* unit of the program, and how far it is in it
    cdrom,         \* the spec can be read in this boot
    runs,          \* boots so far: each would draw a salt of its own
    disk,          \* the data disk: blank, partition, ext4
    pgdata,        \* the database on it: none, part, whole
    saved,         \* the core config kept on it
    rows,          \* what the program and others have written to the database
    hashed,        \* the salt that went into the hashes of client and user
    relocated, file, services,  \* root disk: data_directory, the core config, enabled services
    events

vars == <<at, n, cdrom, runs, disk, pgdata, saved, rows, hashed, relocated, file, services, events>>
position == <<at, n>>
dataDisk == <<disk, pgdata, saved>>
database == <<rows, hashed>>
root == <<relocated, file, services>>
boot == <<cdrom, runs>>

Elements == {"core", "ecosystem_realm"}
\* One variable of each element stands for the others of its manifest.
VariableOf == [core_ip |-> "core", realm_uuid |-> "ecosystem_realm"]
Variable == [core_ip |-> "core_ip_variable", realm_uuid |-> "realm_uuid_variable"]

Units == <<"disk", "copy", "conf", "templates", "services",
           "flat", "pools", "secrets", "core_set", "core", "ecosystem_realm",
           "profile", "core_ip", "realm_uuid">>
Start == CHOOSE i \in DOMAIN Units : Units[i] = "flat"    \* of the loop in main
End == Len(Units) + 1

\* What a unit writes, in this order, each by a transaction of its own.
Rows == [
    flat |-> <<"network", "main_subnet", "boot_subnet">>,
    secrets |-> <<"client", "user">>,
    core_set |-> <<"set", "set_resource", "node", "node_resource", "port">>,
    profile |-> <<"active_profile">>,
    core_ip |-> <<"core_ip_value", "core_ip_touched">>,
    realm_uuid |-> <<"realm_uuid_value", "realm_uuid_touched">>]

Items(s) == {s[i] : i \in DOMAIN s}
OwnRows == UNION {Items(Rows[u]) : u \in DOMAIN Rows}
AllRows == OwnRows \union Uris \union Elements \union {Variable[v] : v \in DOMAIN Variable}
Salts == 1 .. MaxEvents + 1

\* None is no salt, and the names of rows are no addresses of hypervisors.
BootstrapAssumption ==
    /\ None \notin Nat /\ MaxEvents \in Nat
    /\ (OwnRows \union Elements) \intersect Uris = {}

TypeOK ==
    /\ at \in 1 .. End /\ n \in 0 .. 4
    /\ cdrom \in BOOLEAN /\ runs \in Salts
    /\ disk \in {"blank", "partition", "ext4"}
    /\ pgdata \in {"none", "part", "whole"}
    /\ pgdata # "none" => disk = "ext4"
    /\ {file, saved} \subseteq Salts \union {None, 0}
    /\ rows \subseteq AllRows \union {"another_node"}
    /\ hashed \in Salts \union {None} /\ (hashed # None <=> "client" \in rows)
    /\ rows # {} => pgdata = "whole"
    /\ relocated \in BOOLEAN /\ services \in BOOLEAN
    /\ events \in 0 .. MaxEvents

Init ==
    /\ at = 1 /\ n = 0 /\ cdrom \in BOOLEAN /\ runs = 1
    /\ disk = "blank" /\ pgdata = "none" /\ saved = None
    /\ rows = {} /\ hashed = None
    /\ relocated = FALSE /\ file = None /\ services = FALSE
    /\ events = 0

Event == events < MaxEvents /\ events' = events + 1
At(u) == at < End /\ Units[at] = u
Goto(i, k) == at' = i /\ n' = k
NextUnit == Goto(at + 1, 0)

-----------------------------------------------------------------------------
(* bootstrap.sh.                                                            *)

\* Partition, format, mount: each only if it is not done yet.
ProvisionDisk ==
    /\ At("disk")
    /\ disk' = IF disk = "blank" THEN "partition" ELSE "ext4"
    /\ IF disk = "ext4" THEN NextUnit ELSE UNCHANGED position
    /\ UNCHANGED <<pgdata, saved, database, root, boot, events>>

\* Mutant of Copied: the image's database is copied whenever it is not in use.
CopiedAgain == FALSE

\* PG_VERSION is there; it is among the first files that rsync transfers.
Copied == pgdata # "none"

\* The database of the image, with none of this stand's rows.
CopyDatabase ==
    /\ At("copy")
    /\ IF n = 0
       THEN /\ IF relocated \/ Copied
               THEN NextUnit /\ UNCHANGED <<pgdata, database>>
               ELSE Goto(at, 1) /\ pgdata' = "part" /\ rows' = {} /\ hashed' = None
       ELSE NextUnit /\ pgdata' = "whole" /\ UNCHANGED database
    /\ UNCHANGED <<disk, saved, root, boot, events>>

\* rsync fails five times over, and the script exits.
CopyFails ==
    /\ At("copy") /\ n = 1
    /\ Event
    /\ Goto(End, 0)
    /\ UNCHANGED <<dataDisk, database, root, boot>>

\* data_directory is set and PostgreSQL started; psql, and with it the script,
\* fails if the database is not whole.
UseDatabase ==
    /\ At("conf")
    /\ relocated' = TRUE
    /\ IF pgdata = "whole" THEN NextUnit ELSE Goto(End, 0)
    /\ UNCHANGED <<dataDisk, database, file, services, boot, events>>

\* Those that are not in the database yet; they keep the rows of this program.
ApplyMigrations ==
    /\ At("services") /\ n = 0
    /\ Goto(at, 1)
    /\ UNCHANGED <<dataDisk, database, root, boot, events>>

\* The network, the resolver or a migration fails, and the script exits.
SetUpFails ==
    /\ At("services") /\ n = 0
    /\ Event
    /\ Goto(End, 1)
    /\ UNCHANGED <<dataDisk, database, root, boot>>

\* Without the spec there is nothing for bootstrap.py to do.
EnableServices ==
    /\ At("services") /\ n = 1
    /\ services' = TRUE
    /\ IF cdrom THEN NextUnit ELSE Goto(End, 0)
    /\ UNCHANGED <<dataDisk, database, relocated, file, boot, events>>

-----------------------------------------------------------------------------
(* bootstrap_templates.py, for the core config, the file with the salt.     *)

\* Mutant of Rendered: the template is rendered at each boot.
RenderedAnew == runs

\* Rendered with a new salt if no file is kept, else restored; 0 is an empty file.
Rendered == IF saved = None THEN runs ELSE saved

\* Written, then kept: the kept file is opened, and emptied, and written.
MakeConfig ==
    /\ At("templates")
    /\ CASE n = 0 -> /\ file' = IF saved = None /\ ~cdrom THEN file ELSE Rendered
                     /\ IF saved = None /\ ~cdrom THEN Goto(End, 0) ELSE Goto(at, 1)
                     /\ UNCHANGED saved
         [] n = 1 -> saved' = 0 /\ Goto(at, 2) /\ UNCHANGED file
         [] n = 2 -> saved' = file /\ NextUnit /\ UNCHANGED file
    /\ UNCHANGED <<disk, pgdata, database, relocated, services, boot, events>>

-----------------------------------------------------------------------------
(* bootstrap.py and defaults.py.  What raises is caught by the loop in main, *)
(* which starts again, or in a task of _set_defaults_vs by that task's loop. *)

Tasks == {"profile", "core_ip", "realm_uuid"}
Again == Goto(Start, 0)
Waits(u) == u \in DOMAIN Variable /\ Variable[u] \notin rows
NoSalt == At("secrets") /\ file = 0

\* The unit was done before, or so its first row says.
Skip(u) ==
    /\ At(u) /\ n = 0
    /\ Rows[u][1] \in rows
    /\ NextUnit
    /\ UNCHANGED <<dataDisk, database, root, boot, events>>

\* One insert or update; the secrets are hashed with the salt of the config.
Write(u) ==
    /\ At(u) /\ ~Waits(u) /\ ~NoSalt
    /\ Rows[u][n + 1] \notin rows
    /\ rows' = rows \union {Rows[u][n + 1]}
    /\ hashed' = IF u = "secrets" THEN file ELSE hashed
    /\ IF n + 1 = Len(Rows[u]) THEN NextUnit ELSE Goto(at, n + 1)
    /\ UNCHANGED <<dataDisk, root, boot, events>>

\* A row that another process wrote first, no salt, or 120 s without a variable.
Raise(u) ==
    /\ At(u)
    /\ \/ n > 0 /\ Rows[u][n + 1] \in rows
       \/ Rows[u][1] \notin rows /\ (NoSalt \/ Waits(u))
    /\ Again
    /\ UNCHANGED <<dataDisk, database, root, boot, events>>

\* Pools are compared by connection_uri with those there were at the start.
ApplyPools ==
    /\ At("pools")
    /\ IF Uris \subseteq rows THEN NextUnit /\ UNCHANGED rows
       ELSE /\ \E uri \in Uris \ rows : rows' = rows \union {uri}
            /\ UNCHANGED position
    /\ UNCHANGED <<dataDisk, hashed, root, boot, events>>

\* The command logs in with the password of the spec; whether it succeeds is
\* not looked at.
InstallElement(e) ==
    /\ At(e)
    /\ rows' = IF "user" \in rows /\ (e = "ecosystem_realm" => "core" \in rows)
               THEN rows \union {e} ELSE rows
    /\ NextUnit
    /\ UNCHANGED <<dataDisk, hashed, root, boot, events>>

InstallFails(e) ==
    /\ At(e) /\ e \notin rows
    /\ Event
    /\ NextUnit
    /\ UNCHANGED <<dataDisk, database, root, boot>>

\* An error of the database, at any statement.
StatementFails ==
    /\ at >= Start /\ at < End
    /\ Event
    /\ IF Units[at] \in Tasks THEN Goto(at, 0) ELSE Again
    /\ UNCHANGED <<dataDisk, database, root, boot>>

-----------------------------------------------------------------------------
(* The stand's own services, once they are enabled.                         *)

\* The element manager makes the variables of an element that is installed.
MakeVariable(v) ==
    /\ services /\ VariableOf[v] \in rows /\ Variable[v] \notin rows
    /\ rows' = rows \union {Variable[v]}
    /\ UNCHANGED <<position, dataDisk, hashed, root, boot, events>>

\* The builder of node sets meets a set nobody looks after: it makes the
\* resource, and a node with an identifier of its own.
TakeCoreSet ==
    /\ services /\ "set" \in rows /\ "set_resource" \notin rows
    /\ rows' = rows \union {"set_resource", "another_node"}
    /\ UNCHANGED <<position, dataDisk, hashed, root, boot, events>>

-----------------------------------------------------------------------------
\* A boot, or the end of one wherever it is.
Boot ==
    /\ Event
    /\ Goto(1, 0)
    /\ cdrom' \in BOOLEAN /\ runs' = runs + 1
    /\ UNCHANGED <<dataDisk, database>>

Reboot == Boot /\ UNCHANGED root

\* The root disk comes from a new image.
Reimage ==
    /\ Boot
    /\ relocated' = FALSE /\ file' = None /\ services' = FALSE

Written == DOMAIN Rows

Program ==
    \/ ProvisionDisk \/ CopyDatabase \/ UseDatabase \/ MakeConfig
    \/ ApplyMigrations \/ EnableServices
    \/ \E u \in Written : Skip(u) \/ Write(u) \/ Raise(u)
    \/ ApplyPools
    \/ \E e \in Elements : InstallElement(e)

Services == \E v \in DOMAIN Variable : MakeVariable(v)

Faults ==
    \/ CopyFails \/ SetUpFails \/ StatementFails
    \/ \E e \in Elements : InstallFails(e)
    \/ Reboot \/ Reimage

Next == Program \/ Services \/ TakeCoreSet \/ Faults

Spec == Init /\ [][Next]_vars
\* The program goes on, and so does the element manager.
Fairness == WF_vars(Program) /\ WF_vars(Services)
FairSpec == Spec /\ Fairness

-----------------------------------------------------------------------------
\* A unit is half done and its program elsewhere: the next look at its first
\* row, or file, takes it for done.
HalfDone ==
    \/ pgdata = "part" /\ ~(At("copy") /\ n = 1)
    \/ saved = 0 /\ ~(At("templates") /\ n = 2)
    \/ \E u \in DOMAIN Rows : /\ Rows[u][1] \in rows
                              /\ ~(Items(Rows[u]) \subseteq rows)
                              /\ ~(At(u) /\ n > 0)
    \/ "another_node" \in rows

\* The script exited before the services, and nobody has booted the stand since.
NotSetUp == at = End /\ n = 1

Ready == at = End /\ AllRows \subseteq rows /\ {file, saved} = {hashed}

\* The bootstrap is at its end with everything there and one salt in use, unless
\* a failure (or the builder of node sets) came into the middle of a unit, or the
\* script of the last boot failed.
Booted == cdrom => Ready \/ HalfDone \/ NotSetUp

\* It comes to that wherever else boots and statements failed.
BootstrapSettles == <>[]Booted

\* The config never has another salt than the one the secrets were hashed with.
SaltIsKept == hashed # None => {file, saved} \subseteq {None, 0, hashed}

\* What is in the database stays, on whatever image the stand boots.
RowsSurvive == [][rows \subseteq rows']_vars
=============================================================================
