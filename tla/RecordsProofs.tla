---------------------------- MODULE RecordsProofs ---------------------------
(***************************************************************************)
(* The bootstrap of a stand, a load balancer, profiles and DNS, for all    *)
(* numbers of hypervisors, nodes, values and records.                      *)
(***************************************************************************)
EXTENDS Records, IpamProofs, FiniteSetTheorems, WellFoundedInduction

\* The modules each have their own copy of FiniteSets.
LEMMA SameSizes ==
    \A S : /\ Balancers!Cardinality(S) = Cardinality(S)
           /\ Balancers!IsFiniteSet(S) = IsFiniteSet(S)
           /\ Profiles!Cardinality(S) = Cardinality(S)
           /\ Profiles!IsFiniteSet(S) = IsFiniteSet(S)
           /\ Dns!Cardinality(S) = Cardinality(S)
BY Zenon DEF Balancers!Cardinality, Balancers!IsFiniteSet, Profiles!Cardinality, Profiles!IsFiniteSet,
             Dns!Cardinality, Cardinality, IsFiniteSet

-----------------------------------------------------------------------------
(* The bootstrap.  A boot is a walk through the units, cut short anywhere, *)
(* and what it finds on the data disk is what an earlier boot left there,  *)
(* so the invariant says where in the walk which file or row is known.     *)

\* The number of steps of each unit, and of the end.
Steps == <<1, 2, 1, 3, 2, 3, 1, 2, 5, 1, 1, 1, 2, 2, 2>>

\* Between the units that make them and the end of the program, disk, database
\* and config are there, the config in both places.
WalkInv ==
    /\ at \in 1 .. 15 /\ n \in 0 .. Steps[at] - 1
    /\ at \in 2 .. 14 => disk = "ext4"
    /\ at \in 4 .. 14 => pgdata = "whole"
    /\ at = 4 /\ n > 0 => file # None
    /\ at = 4 /\ n = 2 => saved = 0
    /\ at \in 5 .. 14 => file # None /\ saved = file
    /\ at = 8 /\ n = 1 => "client" \in rows
    /\ runs <= bootEvents + 1

\* There are hashes only after a config was kept, and that one stays.
StandInv == Bootstrap!TypeOK /\ WalkInv /\ Bootstrap!SaltIsKept /\ (hashed # None => saved # None)

LEMMA UnitsAre ==
    /\ Bootstrap!End = 15 /\ Bootstrap!Start = 6
    /\ \A u : Bootstrap!At(u) /\ at \in 1 .. 15 => at \in 1 .. 14 /\ u = Bootstrap!Units[at]
<1>1. Len(Bootstrap!Units) = 14
  BY DEF Bootstrap!Units
<1>1a. DOMAIN Bootstrap!Units = 1 .. 14
  BY DEF Bootstrap!Units
<1>2. Bootstrap!End = 15
  BY <1>1 DEF Bootstrap!End
<1>3. \A i \in DOMAIN Bootstrap!Units : Bootstrap!Units[i] = "flat" <=> i = 6
  BY DEF Bootstrap!Units
<1>4. Bootstrap!Start = 6
  <2>1. 6 \in DOMAIN Bootstrap!Units
    BY <1>1
  <2>. QED
    BY <1>3, <2>1 DEF Bootstrap!Start
<1>5. ASSUME NEW u, Bootstrap!At(u), at \in 1 .. 15
      PROVE  at \in 1 .. 14 /\ u = Bootstrap!Units[at]
  BY <1>2, <1>5 DEF Bootstrap!At
<1>. QED
  BY <1>2, <1>4, <1>5

LEMMA Where ==
    ASSUME at \in 1 .. 15
    PROVE  /\ Bootstrap!At("disk") <=> at = 1
           /\ Bootstrap!At("copy") <=> at = 2
           /\ Bootstrap!At("conf") <=> at = 3
           /\ Bootstrap!At("templates") <=> at = 4
           /\ Bootstrap!At("services") <=> at = 5
           /\ Bootstrap!At("flat") <=> at = 6
           /\ Bootstrap!At("pools") <=> at = 7
           /\ Bootstrap!At("secrets") <=> at = 8
           /\ Bootstrap!At("core_set") <=> at = 9
           /\ Bootstrap!At("core") <=> at = 10
           /\ Bootstrap!At("ecosystem_realm") <=> at = 11
           /\ Bootstrap!At("profile") <=> at = 12
           /\ Bootstrap!At("core_ip") <=> at = 13
           /\ Bootstrap!At("realm_uuid") <=> at = 14
<1>1. Bootstrap!End = 15
  BY UnitsAre
<1>. QED
  BY <1>1 DEF Bootstrap!At, Bootstrap!Units

LEMMA RowsAre ==
    ASSUME at \in 1 .. 15, NEW u \in DOMAIN Bootstrap!Rows, Bootstrap!At(u)
    PROVE  /\ at \in 6 .. 14 /\ Len(Bootstrap!Rows[u]) = Steps[at]
           /\ \A i \in 1 .. Steps[at] :
                 /\ Bootstrap!Rows[u][i] \in Bootstrap!OwnRows
                 /\ Bootstrap!Rows[u][i] = "client" <=> at = 8 /\ i = 1
           /\ u = "secrets" <=> at = 8
<1>. DEFINE R == Bootstrap!Rows
<1>1. DOMAIN R = {"flat", "secrets", "core_set", "profile", "core_ip", "realm_uuid"}
  BY DEF Bootstrap!Rows
<1>2. \A v \in DOMAIN R : \A i \in DOMAIN R[v] : R[v][i] \in Bootstrap!OwnRows
  BY DEF Bootstrap!OwnRows, Bootstrap!Items
<1>3. CASE u = "flat"
  <2>1. at = 6 /\ R[u] = <<"network", "main_subnet", "boot_subnet">>
    BY <1>3, Where DEF Bootstrap!Rows
  <2>. QED
    BY <1>2, <1>3, <2>1 DEF Steps
<1>4. CASE u = "secrets"
  <2>1. at = 8 /\ R[u] = <<"client", "user">>
    BY <1>4, Where DEF Bootstrap!Rows
  <2>. QED
    BY <1>2, <1>4, <2>1 DEF Steps
<1>5. CASE u = "core_set"
  <2>1. at = 9 /\ R[u] = <<"set", "set_resource", "node", "node_resource", "port">>
    BY <1>5, Where DEF Bootstrap!Rows
  <2>. QED
    BY <1>2, <1>5, <2>1 DEF Steps
<1>6. CASE u = "profile"
  <2>1. at = 12 /\ R[u] = <<"active_profile">>
    BY <1>6, Where DEF Bootstrap!Rows
  <2>. QED
    BY <1>2, <1>6, <2>1 DEF Steps
<1>7. CASE u = "core_ip"
  <2>1. at = 13 /\ R[u] = <<"core_ip_value", "core_ip_touched">>
    BY <1>7, Where DEF Bootstrap!Rows
  <2>. QED
    BY <1>2, <1>7, <2>1 DEF Steps
<1>8. CASE u = "realm_uuid"
  <2>1. at = 14 /\ R[u] = <<"realm_uuid_value", "realm_uuid_touched">>
    BY <1>8, Where DEF Bootstrap!Rows
  <2>. QED
    BY <1>2, <1>8, <2>1 DEF Steps
<1>. QED
  BY <1>1, <1>3, <1>4, <1>5, <1>6, <1>7, <1>8

LEMMA InitStandInv == Bootstrap!BootstrapAssumption /\ Bootstrap!Init => StandInv
<1>. SUFFICES ASSUME Bootstrap!BootstrapAssumption, Bootstrap!Init PROVE StandInv
  OBVIOUS
<1>1. Bootstrap!End = 15 /\ 1 \in Bootstrap!Salts
  BY UnitsAre DEF Bootstrap!Salts, Bootstrap!BootstrapAssumption
<1>2. Bootstrap!TypeOK
  <2>1. relocated \in BOOLEAN /\ services \in BOOLEAN /\ cdrom \in BOOLEAN
    BY Zenon DEF Bootstrap!Init
  <2>2. rows = {} /\ hashed = None /\ pgdata = "none" /\ disk = "blank" /\ file = None /\ saved = None
        /\ at = 1 /\ n = 0 /\ runs = 1 /\ bootEvents = 0
    BY Zenon DEF Bootstrap!Init
  <2>. QED
    BY <1>1, <2>1, <2>2 DEF Bootstrap!TypeOK, Bootstrap!BootstrapAssumption
<1>3. WalkInv
  BY DEF Bootstrap!Init, WalkInv, Steps
<1>. QED
  BY <1>2, <1>3 DEF Bootstrap!Init, StandInv, Bootstrap!SaltIsKept

\* The salt of each boot is another one, and within the bound.
LEMMA SaltOfBoot ==
    ASSUME Bootstrap!BootstrapAssumption, StandInv
    PROVE  /\ runs \in Bootstrap!Salts /\ runs \in Nat /\ runs # None /\ None # 0 /\ MaxBootEvents \in Nat
           /\ bootEvents \in 0 .. MaxBootEvents
           /\ \A s \in Bootstrap!Salts : s # None
BY DEF Bootstrap!BootstrapAssumption, StandInv, Bootstrap!TypeOK, Bootstrap!Salts

\* From the data disk to the services.
LEMMA ScriptStep ==
    ASSUME Bootstrap!BootstrapAssumption, StandInv,
           \/ Bootstrap!ProvisionDisk \/ Bootstrap!CopyDatabase \/ Bootstrap!CopyFails
           \/ Bootstrap!UseDatabase \/ Bootstrap!ApplyMigrations \/ Bootstrap!SetUpFails
           \/ Bootstrap!EnableServices
    PROVE  StandInv'
<1>. USE DEF StandInv, Bootstrap!TypeOK, WalkInv, Steps, Bootstrap!SaltIsKept, Bootstrap!Goto,
             Bootstrap!NextUnit, Bootstrap!position, Bootstrap!dataDisk, Bootstrap!database,
             Bootstrap!root, Bootstrap!boot
<1>0. at \in 1 .. 15 /\ Bootstrap!End = 15
  BY UnitsAre
<1>1. CASE Bootstrap!ProvisionDisk
  BY <1>0, <1>1, Where DEF Bootstrap!ProvisionDisk
<1>2. CASE Bootstrap!CopyDatabase
  <2>1. at = 2 /\ n \in 0 .. 1 /\ disk = "ext4"
    BY <1>0, <1>2, Where DEF Bootstrap!CopyDatabase
  <2>2. CASE n = 0
    BY <1>0, <1>2, <2>1, <2>2 DEF Bootstrap!CopyDatabase, Bootstrap!Copied
  <2>3. CASE n = 1
    BY <1>0, <1>2, <2>1, <2>3 DEF Bootstrap!CopyDatabase
  <2>. QED
    BY <2>1, <2>2, <2>3
<1>3. CASE Bootstrap!CopyFails
  <2>1. at' = 15 /\ n' = 0 /\ bootEvents' = bootEvents + 1 /\ bootEvents' \in 0 .. MaxBootEvents
    BY <1>0, <1>3, SaltOfBoot DEF Bootstrap!CopyFails, Bootstrap!Event
  <2>2. UNCHANGED <<cdrom, runs, disk, pgdata, saved, rows, hashed, relocated, file, services>>
    BY <1>3 DEF Bootstrap!CopyFails
  <2>. QED
    BY <1>0, <2>1, <2>2, SaltOfBoot
<1>4. CASE Bootstrap!UseDatabase
  BY <1>0, <1>4, Where DEF Bootstrap!UseDatabase
<1>5. CASE Bootstrap!EnableServices
  BY <1>0, <1>5, Where DEF Bootstrap!EnableServices
<1>6. CASE Bootstrap!ApplyMigrations
  BY <1>0, <1>6, Where DEF Bootstrap!ApplyMigrations
<1>7. CASE Bootstrap!SetUpFails
  <2>1. at' = 15 /\ n' = 1 /\ bootEvents' = bootEvents + 1 /\ bootEvents' \in 0 .. MaxBootEvents
    BY <1>0, <1>7, SaltOfBoot DEF Bootstrap!SetUpFails, Bootstrap!Event
  <2>2. UNCHANGED <<cdrom, runs, disk, pgdata, saved, rows, hashed, relocated, file, services>>
    BY <1>7 DEF Bootstrap!SetUpFails
  <2>. QED
    BY <1>0, <2>1, <2>2, SaltOfBoot
<1>. QED
  BY <1>1, <1>2, <1>3, <1>4, <1>5, <1>6, <1>7

LEMMA ConfigStep ==
    ASSUME Bootstrap!BootstrapAssumption, StandInv, Bootstrap!MakeConfig
    PROVE  StandInv'
<1>. USE DEF StandInv, Bootstrap!TypeOK, WalkInv, Steps, Bootstrap!SaltIsKept, Bootstrap!Goto,
             Bootstrap!NextUnit, Bootstrap!database, Bootstrap!boot
<1>0. at = 4 /\ n \in 0 .. 2 /\ Bootstrap!End = 15
  BY UnitsAre, Where DEF Bootstrap!MakeConfig
<1>1. CASE n = 0
  BY <1>0, <1>1, SaltOfBoot DEF Bootstrap!MakeConfig, Bootstrap!Rendered
<1>2. CASE n = 1
  BY <1>0, <1>2, SaltOfBoot DEF Bootstrap!MakeConfig
<1>3. CASE n = 2
  BY <1>0, <1>3, SaltOfBoot DEF Bootstrap!MakeConfig
<1>. QED
  BY <1>0, <1>1, <1>2, <1>3

\* The units that write rows.
LEMMA SkipStep ==
    ASSUME Bootstrap!BootstrapAssumption, StandInv, NEW u \in DOMAIN Bootstrap!Rows,
           Bootstrap!Skip(u) \/ Bootstrap!Raise(u)
    PROVE  StandInv'
<1>. USE DEF StandInv, Bootstrap!TypeOK, WalkInv, Steps, Bootstrap!SaltIsKept, Bootstrap!Goto,
             Bootstrap!NextUnit, Bootstrap!Again, Bootstrap!dataDisk, Bootstrap!database,
             Bootstrap!root, Bootstrap!boot
<1>1. at \in 1 .. 15 /\ Bootstrap!End = 15 /\ Bootstrap!Start = 6 /\ Bootstrap!At(u)
  BY UnitsAre DEF Bootstrap!Skip, Bootstrap!Raise
<1>2. at \in 6 .. 14
  BY <1>1, RowsAre
<1>3. CASE Bootstrap!Skip(u)
  BY <1>1, <1>2, <1>3 DEF Bootstrap!Skip
<1>4. CASE Bootstrap!Raise(u)
  BY <1>1, <1>2, <1>4 DEF Bootstrap!Raise
<1>. QED
  BY <1>3, <1>4

LEMMA WriteStep ==
    ASSUME Bootstrap!BootstrapAssumption, StandInv, NEW u \in DOMAIN Bootstrap!Rows,
           Bootstrap!Write(u)
    PROVE  StandInv'
<1>1. at \in 1 .. 15 /\ n \in 0 .. Steps[at] - 1 /\ Bootstrap!End = 15 /\ Bootstrap!At(u)
  BY UnitsAre DEF Bootstrap!Write, StandInv, WalkInv
<1>. DEFINE new == Bootstrap!Rows[u][n + 1]
<1>2. /\ at \in 6 .. 14 /\ Len(Bootstrap!Rows[u]) = Steps[at]
      /\ new \in Bootstrap!OwnRows
      /\ new = "client" <=> at = 8 /\ n = 0
      /\ u = "secrets" <=> at = 8
  <2>1. Steps[at] \in Nat
    BY <1>1 DEF Steps
  <2>2. n + 1 \in 1 .. Steps[at] /\ (n + 1 = 1 <=> n = 0)
    BY <1>1, <2>1
  <2>. QED
    BY <1>1, <2>2, RowsAre
<1>. HIDE DEF new
<1>3. /\ rows' = rows \union {new}
      /\ hashed' = IF at = 8 THEN file ELSE hashed
      /\ IF n + 1 = Steps[at] THEN at' = at + 1 /\ n' = 0 ELSE at' = at /\ n' = n + 1
      /\ at = 8 => file # 0
      /\ UNCHANGED <<disk, pgdata, saved, relocated, file, services, cdrom, runs, bootEvents>>
  <2>1. at = 8 => Bootstrap!At("secrets")
    BY <1>1, Where
  <2>. QED
    BY <1>2, <2>1 DEF Bootstrap!Write, Bootstrap!NextUnit, Bootstrap!Goto, Bootstrap!NoSalt,
                      Bootstrap!dataDisk, Bootstrap!root, Bootstrap!boot, new
<1>4. /\ disk = "ext4" /\ pgdata = "whole" /\ file # None /\ saved = file
      /\ at = 8 => file \in Bootstrap!Salts
      /\ at = 8 /\ n # 0 => "client" \in rows
  BY <1>1, <1>2, <1>3 DEF StandInv, WalkInv, Bootstrap!TypeOK, Steps
<1>5. WalkInv'
  <2>1. \A i \in 1 .. 15 : Steps[i] \in Nat \ {0}
    BY DEF Steps
  <2>2. at' \in 6 .. 15 /\ n' \in 0 .. Steps[at'] - 1
    <3>0. at + 1 \in 1 .. 15
      BY <1>2
    <3>1. Steps[at] \in Nat \ {0} /\ Steps[at + 1] \in Nat \ {0}
      BY <1>1, <2>1, <3>0
    <3>1a. n \in Nat /\ n < Steps[at]
      BY <1>1, <3>1
    <3>2. CASE n + 1 = Steps[at]
      BY <1>2, <1>3, <3>1, <3>1a, <3>2
    <3>3. CASE n + 1 # Steps[at]
      BY <1>2, <1>3, <3>1, <3>1a, <3>3
    <3>. QED
      BY <3>2, <3>3
  <2>3. at' = 8 /\ n' = 1 => "client" \in rows'
    BY <1>1, <1>2, <1>3
  <2>4. runs' <= bootEvents' + 1
    BY <1>3 DEF StandInv, WalkInv
  <2>. QED
    BY <1>3, <1>4, <2>2, <2>3, <2>4 DEF WalkInv
<1>6. hashed' \in Bootstrap!Salts \union {None} /\ (hashed' # None <=> "client" \in rows')
  BY <1>2, <1>3, <1>4 DEF StandInv, Bootstrap!TypeOK
<1>7. rows' \subseteq Bootstrap!AllRows \union {"another_node"}
  BY <1>2, <1>3 DEF StandInv, Bootstrap!TypeOK, Bootstrap!AllRows
<1>8. at' \in 1 .. 15 /\ n' \in 0 .. 4
  BY <1>5 DEF WalkInv, Steps
<1>9. Bootstrap!TypeOK'
  BY <1>1, <1>3, <1>4, <1>6, <1>7, <1>8 DEF StandInv, Bootstrap!TypeOK
<1>10. Bootstrap!SaltIsKept' /\ (hashed' # None => saved' # None)
  BY <1>3, <1>4 DEF StandInv, Bootstrap!SaltIsKept
<1>. QED
  BY <1>5, <1>9, <1>10 DEF StandInv

LEMMA OtherRowsStep ==
    ASSUME Bootstrap!BootstrapAssumption, StandInv,
           \/ Bootstrap!ApplyPools \/ Bootstrap!TakeCoreSet
           \/ \E e \in Bootstrap!Elements : Bootstrap!InstallElement(e)
           \/ \E v \in DOMAIN Bootstrap!Variable : Bootstrap!MakeVariable(v)
    PROVE  StandInv'
<1>. USE DEF Bootstrap!Goto, Bootstrap!NextUnit, Bootstrap!position, Bootstrap!dataDisk,
             Bootstrap!root, Bootstrap!boot
<1>0. at \in 1 .. 15 /\ n \in 0 .. Steps[at] - 1 /\ Bootstrap!End = 15
  BY UnitsAre DEF StandInv, WalkInv
<1>1. "set_resource" \in Bootstrap!OwnRows
  <2>1. "core_set" \in DOMAIN Bootstrap!Rows /\ Bootstrap!Rows["core_set"][2] = "set_resource"
        /\ 2 \in DOMAIN Bootstrap!Rows["core_set"]
    BY DEF Bootstrap!Rows
  <2>. QED
    BY <2>1 DEF Bootstrap!OwnRows, Bootstrap!Items
<1>. DEFINE Adds ==
      /\ UNCHANGED <<disk, pgdata, saved, relocated, file, services, cdrom, runs, bootEvents, hashed>>
      /\ \/ UNCHANGED <<at, n>>
         \/ at \in 6 .. 14 /\ Steps[at] = 1 /\ at' = at + 1 /\ n' = 0
      /\ rows \subseteq rows'
      /\ rows' \subseteq rows \union (Bootstrap!AllRows \ {"client"}) \union {"another_node"}
      /\ rows' # rows => pgdata = "whole"
<1>2. Adds
  <2>1. CASE Bootstrap!ApplyPools
    <3>1. at = 7
      BY <1>0, <2>1, Where DEF Bootstrap!ApplyPools
    <3>2. Uris \subseteq Bootstrap!AllRows \ {"client"}
      <4>1. "client" \in Bootstrap!OwnRows
        <5>1. "secrets" \in DOMAIN Bootstrap!Rows /\ Bootstrap!Rows["secrets"][1] = "client"
              /\ 1 \in DOMAIN Bootstrap!Rows["secrets"]
          BY DEF Bootstrap!Rows
        <5>. QED
          BY <5>1 DEF Bootstrap!OwnRows, Bootstrap!Items
      <4>. QED
        BY <4>1 DEF Bootstrap!AllRows, Bootstrap!BootstrapAssumption
    <3>. QED
      BY <1>0, <2>1, <3>1, <3>2 DEF Bootstrap!ApplyPools, StandInv, WalkInv, Steps
  <2>2. CASE Bootstrap!TakeCoreSet
    BY <1>1, <2>2 DEF Bootstrap!TakeCoreSet, StandInv, Bootstrap!TypeOK, Bootstrap!AllRows
  <2>3. ASSUME NEW e \in Bootstrap!Elements, Bootstrap!InstallElement(e)
        PROVE  Adds
    <3>1. at \in 10 .. 11
      BY <1>0, <2>3, Where DEF Bootstrap!InstallElement, Bootstrap!Elements
    <3>2. e \in Bootstrap!AllRows \ {"client"}
      BY DEF Bootstrap!AllRows, Bootstrap!Elements
    <3>. QED
      BY <1>0, <2>3, <3>1, <3>2 DEF Bootstrap!InstallElement, StandInv, WalkInv, Steps
  <2>4. ASSUME NEW v \in DOMAIN Bootstrap!Variable, Bootstrap!MakeVariable(v)
        PROVE  Adds
    <3>1. Bootstrap!Variable[v] \in Bootstrap!AllRows \ {"client"}
      BY DEF Bootstrap!AllRows, Bootstrap!Variable
    <3>. QED
      BY <2>4, <3>1 DEF Bootstrap!MakeVariable, StandInv, Bootstrap!TypeOK
  <2>. QED
    BY <2>1, <2>2, <2>3, <2>4
<1>3. WalkInv'
  BY <1>0, <1>2 DEF StandInv, WalkInv, Steps
<1>4. at' \in 1 .. 15 /\ n' \in 0 .. 4
  BY <1>3 DEF WalkInv, Steps
<1>5. "client" \in rows' <=> "client" \in rows
  BY <1>2
<1>6. Bootstrap!TypeOK'
  BY <1>0, <1>2, <1>4, <1>5 DEF StandInv, Bootstrap!TypeOK
<1>. QED
  BY <1>2, <1>3, <1>6 DEF StandInv, Bootstrap!SaltIsKept

\* A boot may end anywhere; a statement may fail in any unit.
LEMMA FaultStep ==
    ASSUME Bootstrap!BootstrapAssumption, StandInv,
           \/ Bootstrap!StatementFails \/ Bootstrap!Reboot \/ Bootstrap!Reimage
           \/ \E e \in Bootstrap!Elements : Bootstrap!InstallFails(e)
    PROVE  StandInv'
<1>. USE DEF Bootstrap!Goto, Bootstrap!NextUnit, Bootstrap!Again, Bootstrap!dataDisk,
             Bootstrap!database, Bootstrap!root, Bootstrap!boot, Bootstrap!Event
<1>0. /\ at \in 1 .. 15 /\ Bootstrap!End = 15 /\ Bootstrap!Start = 6
      /\ \A i \in 1 .. 15 : Steps[i] \in Nat \ {0}
  BY UnitsAre DEF StandInv, WalkInv, Steps
<1>1. /\ UNCHANGED <<disk, pgdata, saved, rows, hashed>>
      /\ bootEvents' = bootEvents + 1 /\ bootEvents' \in 0 .. MaxBootEvents
      /\ \/ at \in 6 .. 14 /\ at' \in 6 .. 14 /\ n' = 0 /\ UNCHANGED <<relocated, file, services, cdrom, runs>>
         \/ at' = 1 /\ n' = 0 /\ runs' = runs + 1 /\ cdrom' \in BOOLEAN
            /\ \/ UNCHANGED <<relocated, file, services>>
               \/ relocated' = FALSE /\ file' = None /\ services' = FALSE
  <2>1. CASE Bootstrap!StatementFails
    BY <1>0, <2>1, SaltOfBoot DEF Bootstrap!StatementFails
  <2>2. CASE Bootstrap!Reboot
    BY <2>2, SaltOfBoot DEF Bootstrap!Reboot, Bootstrap!Boot
  <2>3. CASE Bootstrap!Reimage
    BY <2>3, SaltOfBoot DEF Bootstrap!Reimage, Bootstrap!Boot
  <2>4. ASSUME NEW e \in Bootstrap!Elements, Bootstrap!InstallFails(e)
        PROVE  /\ UNCHANGED <<disk, pgdata, saved, rows, hashed, relocated, file, services, cdrom, runs>>
               /\ bootEvents' = bootEvents + 1 /\ bootEvents' \in 0 .. MaxBootEvents
               /\ at \in 6 .. 14 /\ at' \in 6 .. 14 /\ n' = 0
    <3>1. at \in 10 .. 11
      BY <1>0, <2>4, Where DEF Bootstrap!InstallFails, Bootstrap!Elements
    <3>. QED
      BY <2>4, <3>1, SaltOfBoot DEF Bootstrap!InstallFails
  <2>. QED
    BY <2>1, <2>2, <2>3, <2>4
<1>2. WalkInv'
  BY <1>0, <1>1, SaltOfBoot DEF StandInv, WalkInv
<1>3. runs' \in Bootstrap!Salts
  <2>1. runs' \in Nat /\ runs' >= 1 /\ runs' <= bootEvents' + 1
    BY <1>1, <1>2, SaltOfBoot DEF WalkInv, Bootstrap!Salts
  <2>. QED
    BY <1>1, <2>1, SaltOfBoot DEF Bootstrap!Salts
<1>4. Bootstrap!TypeOK'
  <2>1. relocated' \in BOOLEAN /\ services' \in BOOLEAN /\ cdrom' \in BOOLEAN
    BY Zenon, <1>1 DEF StandInv, Bootstrap!TypeOK
  <2>2. file' \in Bootstrap!Salts \union {None, 0} /\ at' \in 1 .. 15 /\ n' \in 0 .. 4
    BY <1>1 DEF StandInv, Bootstrap!TypeOK
  <2>. QED
    BY <1>0, <1>1, <1>3, <2>1, <2>2 DEF StandInv, Bootstrap!TypeOK
<1>. QED
  BY <1>1, <1>2, <1>4 DEF StandInv, Bootstrap!SaltIsKept

LEMMA StepStandInv ==
    Bootstrap!BootstrapAssumption /\ StandInv /\ [Bootstrap!Next]_Bootstrap!vars => StandInv'
<1>. SUFFICES ASSUME Bootstrap!BootstrapAssumption, StandInv, [Bootstrap!Next]_Bootstrap!vars
              PROVE  StandInv'
  OBVIOUS
<1>1. CASE UNCHANGED Bootstrap!vars
  <2>1. UNCHANGED <<at, n, cdrom, runs, disk, pgdata, saved, rows, hashed, relocated, file, services, bootEvents>>
    BY <1>1 DEF Bootstrap!vars
  <2>. QED
    BY <2>1 DEF StandInv, Bootstrap!TypeOK, WalkInv, Bootstrap!SaltIsKept
<1>2. CASE Bootstrap!Next
  BY <1>2, ScriptStep, ConfigStep, SkipStep, WriteStep, OtherRowsStep, FaultStep
     DEF Bootstrap!Next, Bootstrap!Program, Bootstrap!Services, Bootstrap!Faults, Bootstrap!Written
<1>. QED
  BY <1>1, <1>2

\* Types of the bootstrap, with the order in which disk, database and rows are there.
THEOREM StandTypes == Bootstrap!BootstrapAssumption /\ Bootstrap!Spec => []Bootstrap!TypeOK
<1>1. StandInv => Bootstrap!TypeOK
  BY DEF StandInv
<1>. SUFFICES ASSUME Bootstrap!BootstrapAssumption PROVE Bootstrap!Spec => []Bootstrap!TypeOK
  OBVIOUS
<1>. QED
  BY <1>1, InitStandInv, StepStandInv, PTL DEF Bootstrap!Spec

\* The salt of the config is the one that client and user were hashed with,
\* wherever boots are cut short and whatever image comes next.
THEOREM TheSaltIsKept == Bootstrap!BootstrapAssumption /\ Bootstrap!Spec => []Bootstrap!SaltIsKept
<1>1. StandInv => Bootstrap!SaltIsKept
  BY DEF StandInv
<1>. SUFFICES ASSUME Bootstrap!BootstrapAssumption PROVE Bootstrap!Spec => []Bootstrap!SaltIsKept
  OBVIOUS
<1>. QED
  BY <1>1, InitStandInv, StepStandInv, PTL DEF Bootstrap!Spec

\* No boot takes a row away: the image's database is copied only onto a disk
\* that has none, and then there is no row either.
THEOREM RowsAreKept == Bootstrap!BootstrapAssumption /\ Bootstrap!Spec => Bootstrap!RowsSurvive
<1>. DEFINE Survive == rows \subseteq rows'
<1>1. ASSUME StandInv, Bootstrap!Next PROVE Survive
  <2>. USE DEF Bootstrap!database
  <2>1. CASE Bootstrap!CopyDatabase
    BY <1>1, <2>1 DEF Bootstrap!CopyDatabase, Bootstrap!Copied, StandInv, Bootstrap!TypeOK
  <2>2. CASE \/ Bootstrap!ProvisionDisk \/ Bootstrap!UseDatabase \/ Bootstrap!MakeConfig
             \/ Bootstrap!ApplyMigrations \/ Bootstrap!EnableServices
    BY <2>2 DEF Bootstrap!ProvisionDisk, Bootstrap!UseDatabase, Bootstrap!MakeConfig,
                Bootstrap!ApplyMigrations, Bootstrap!EnableServices
  <2>3. CASE \E u \in Bootstrap!Written : Bootstrap!Skip(u) \/ Bootstrap!Write(u) \/ Bootstrap!Raise(u)
    BY <2>3 DEF Bootstrap!Skip, Bootstrap!Write, Bootstrap!Raise
  <2>4. CASE Bootstrap!ApplyPools \/ Bootstrap!TakeCoreSet \/ Bootstrap!Services
    BY <2>4 DEF Bootstrap!ApplyPools, Bootstrap!TakeCoreSet, Bootstrap!Services, Bootstrap!MakeVariable
  <2>5. CASE \E e \in Bootstrap!Elements : Bootstrap!InstallElement(e) \/ Bootstrap!InstallFails(e)
    BY <2>5 DEF Bootstrap!InstallElement, Bootstrap!InstallFails
  <2>6. CASE \/ Bootstrap!CopyFails \/ Bootstrap!SetUpFails \/ Bootstrap!StatementFails
             \/ Bootstrap!Reboot \/ Bootstrap!Reimage
    BY <2>6 DEF Bootstrap!CopyFails, Bootstrap!SetUpFails, Bootstrap!StatementFails,
                Bootstrap!Reboot, Bootstrap!Reimage, Bootstrap!Boot
  <2>. QED
    BY <1>1, <2>1, <2>2, <2>3, <2>4, <2>5, <2>6 DEF Bootstrap!Next, Bootstrap!Program, Bootstrap!Faults
<1>2. StandInv /\ [Bootstrap!Next]_Bootstrap!vars => [Survive]_Bootstrap!vars
  BY <1>1
<1>. SUFFICES ASSUME Bootstrap!BootstrapAssumption PROVE Bootstrap!Spec => Bootstrap!RowsSurvive
  OBVIOUS
<1>3. Bootstrap!Spec => [][Survive]_Bootstrap!vars
  BY <1>2, InitStandInv, StepStandInv, PTL DEF Bootstrap!Spec
<1>. QED
  BY <1>3 DEF Bootstrap!RowsSurvive

-----------------------------------------------------------------------------
(* A load balancer.  Requests carry a copy of the row and a new value, so   *)
(* the types have to hold of these too.                                     *)

RequestsInv == \A q \in lbUnderway :
    /\ q.kind = "resize" => q.to \in 1 .. MaxSize
    /\ q.kind = "edit" => q.to \in Contents

\* A set has subsets of every size up to its own.
LEMMA SubsetOfSize ==
    ASSUME NEW S, IsFiniteSet(S), NEW k \in Nat, k <= Cardinality(S)
    PROVE  \E T \in SUBSET S : Cardinality(T) = k
<1>. DEFINE B == {T \in SUBSET S : Cardinality(T) >= k}
<1>1. \A T \in SUBSET S : IsFiniteSet(T) /\ Cardinality(T) \in Nat
  BY FS_Subset, FS_CardinalityType
<1>2. S \in B
  BY <1>1
<1>3. B \subseteq FiniteSubsetsOf(S)
  BY FS_FiniteSubsetsOfFinite
<1>4. PICK T \in B : \A U \in B : <<U, T>> \notin StrictSubsetOrdering(S)
  BY <1>2, <1>3, FS_StrictSubsetOrderingWellFounded, WFMin
<1>5. CASE Cardinality(T) = k
  BY <1>5
<1>6. CASE Cardinality(T) # k
  <2>1. Cardinality(T) > k /\ Cardinality(T) \in Nat /\ IsFiniteSet(T)
    BY <1>1, <1>6
  <2>2. PICK x \in T : TRUE
    BY <2>1, FS_EmptySet
  <2>3. Cardinality(T \ {x}) = Cardinality(T) - 1
    BY <2>1, <2>2, FS_RemoveElement
  <2>4. T \ {x} \in B
    BY <2>1, <2>3
  <2>5. <<T \ {x}, T>> \in StrictSubsetOrdering(S)
    BY <2>2 DEF StrictSubsetOrdering
  <2>. QED
    BY <1>4, <2>4, <2>5
<1>. QED
  BY <1>5, <1>6

\* The types, a group of variables at a time.
BalancerType ==
    /\ lb \in Balancers!Balancer /\ content \in Contents
    /\ \A q \in lbUnderway : q.lb \in Balancers!Balancer
    /\ RequestsInv
    /\ iaasDirty \in BOOLEAN /\ paasDirty \in BOOLEAN
IaasType == want \in (1 .. MaxSize) \union {None} /\ setNew \in BOOLEAN
SetType ==
    /\ set \in Balancers!Set \union {None} /\ setDirty \in BOOLEAN
    /\ members \subseteq Nodes /\ Cardinality(members) <= MaxSize
InfraType == row \in Balancers!Rows /\ nodesNew \in BOOLEAN
Answers == [Nodes -> [content : Contents, status : {"ACTIVE", "ERROR"}] \union {None}]
PaasType ==
    /\ served \in [Nodes -> Contents \union {None}]
    /\ report \in Answers /\ paasSeen \in Answers
    /\ Balancers!There(report) \subseteq Balancers!There(served)
TurnType ==
    /\ turn \in {"set_builder", "infra_agent", "lb_iaas", "lb_paas"}
    /\ lbEvents \in 0 .. MaxLbEvents

\* The types of a balancer and of all that belongs to it.
BalancerInv == BalancerType /\ IaasType /\ SetType /\ InfraType /\ PaasType /\ TurnType

LEMMA BalancerTypesHold == BalancerInv => Balancers!TypeOK
<1>2. \A S, x, y : {x, y} \subseteq S <=> x \in S /\ y \in S
  OBVIOUS
<1>4. PaasType <=>
        /\ served \in [Nodes -> Contents \union {None}]
        /\ {report, paasSeen} \subseteq Answers
        /\ Balancers!There(report) \subseteq Balancers!There(served)
  BY Zenon, <1>2 DEF PaasType
<1>. QED
  BY Zenon, <1>4, SameSizes DEF BalancerInv, Balancers!TypeOK, BalancerType, IaasType, SetType,
                                InfraType, Answers, TurnType

LEMMA BalancerConstants ==
    ASSUME Balancers!BalancersAssumption
    PROVE  /\ IsFiniteSet(Nodes) /\ Cardinality(Nodes) \in Nat /\ MaxSize \in 1 .. Cardinality(Nodes)
           /\ MaxSize \in Nat \ {0} /\ MaxLbEvents \in Nat
           /\ Contents # {} /\ None \notin Contents
BY SameSizes, FS_CardinalityType DEF Balancers!BalancersAssumption

LEMMA BalancerGroups ==
    /\ BalancerType /\ UNCHANGED Balancers!balancer => BalancerType'
    /\ IaasType /\ UNCHANGED Balancers!iaas => IaasType'
    /\ SetType /\ UNCHANGED Balancers!nodeset => SetType'
    /\ InfraType /\ UNCHANGED Balancers!infra => InfraType'
    /\ PaasType /\ UNCHANGED Balancers!paas => PaasType'
    /\ TurnType /\ UNCHANGED <<turn, lbEvents>> => TurnType'
<1>1. BalancerType /\ UNCHANGED Balancers!balancer => BalancerType'
  BY DEF BalancerType, Balancers!balancer, RequestsInv
<1>2. IaasType /\ UNCHANGED Balancers!iaas => IaasType'
  BY DEF IaasType, Balancers!iaas
<1>3. SetType /\ UNCHANGED Balancers!nodeset => SetType'
  BY DEF SetType, Balancers!nodeset
<1>4. InfraType /\ UNCHANGED Balancers!infra => InfraType'
  BY DEF InfraType, Balancers!infra
<1>5. PaasType /\ UNCHANGED Balancers!paas => PaasType'
  BY DEF PaasType, Balancers!paas, Balancers!There
<1>6. TurnType /\ UNCHANGED <<turn, lbEvents>> => TurnType'
  BY DEF TurnType
<1>. QED
  BY <1>1, <1>2, <1>3, <1>4, <1>5, <1>6

LEMMA EventTicks ==
    ASSUME Balancers!BalancersAssumption, TurnType, Balancers!Event,
           turn' \in {"set_builder", "infra_agent", "lb_iaas", "lb_paas"}
    PROVE  TurnType'
BY DEF TurnType, Balancers!Event, Balancers!BalancersAssumption

LEMMA InitBalancerInv == Balancers!BalancersAssumption /\ Balancers!Init => BalancerInv
<1>. SUFFICES ASSUME Balancers!BalancersAssumption, Balancers!Init PROVE BalancerInv
  OBVIOUS
<1>1. BalancerType
  <2>1. iaasDirty \in BOOLEAN /\ paasDirty \in BOOLEAN
    BY Zenon DEF Balancers!Init
  <2>2. content \in Contents
    BY DEF Balancers!Init, Balancers!BalancersAssumption
  <2>3. lb \in Balancers!Balancer /\ lbUnderway = {}
    <3>1. MaxSize >= 1 /\ MaxSize \in Nat
      BY BalancerConstants
    <3>2. lb = [size |-> 1, status |-> "NEW", ips |-> {}] /\ lbUnderway = {}
      BY DEF Balancers!Init
    <3>. QED
      BY <3>1, <3>2 DEF Balancers!Balancer, Balancers!Status
  <2>. QED
    BY <2>1, <2>2, <2>3 DEF BalancerType, RequestsInv
<1>2. Balancers!Nowhere \in Balancers!Rows
  BY DEF Balancers!Nowhere, Balancers!Rows
<1>6. setDirty \in BOOLEAN /\ setNew \in BOOLEAN /\ nodesNew \in BOOLEAN
  BY Zenon DEF Balancers!Init
<1>3. SetType
  BY <1>6, FS_EmptySet, BalancerConstants DEF Balancers!Init, SetType
<1>4. IaasType /\ InfraType /\ TurnType
  BY <1>2, <1>6 DEF Balancers!Init, IaasType, InfraType, TurnType, Balancers!BalancersAssumption
<1>5. PaasType
  BY DEF Balancers!Init, PaasType, Answers, Balancers!Nowhere, Balancers!There
<1>. QED
  BY <1>1, <1>3, <1>4, <1>5 DEF BalancerInv

LEMMA UsersKeepTypes ==
    ASSUME Balancers!BalancersAssumption, BalancerInv, Balancers!Users
    PROVE  BalancerInv'
<1>0. BalancerType /\ IaasType /\ SetType /\ InfraType /\ PaasType /\ TurnType
  BY DEF BalancerInv
<1>1. ASSUME NEW kind, NEW x, Balancers!Begin(kind, x),
             kind = "resize" => x \in 1 .. MaxSize, kind = "edit" => x \in Contents
      PROVE  BalancerInv'
  <2>1. UNCHANGED <<lb, content, iaasDirty, paasDirty, turn>> /\ Balancers!Event
        /\ lbUnderway' = lbUnderway \union {[kind |-> kind, to |-> x, lb |-> lb]}
    BY <1>1 DEF Balancers!Begin
  <2>2. BalancerType'
    BY <1>0, <1>1, <2>1 DEF BalancerType, RequestsInv
  <2>3. IaasType' /\ SetType' /\ InfraType' /\ PaasType'
    BY <1>0, <1>1, BalancerGroups DEF Balancers!Begin
  <2>4. TurnType'
    BY <1>0, <2>1, EventTicks DEF TurnType
  <2>. QED
    BY <2>2, <2>3, <2>4 DEF BalancerInv
<1>2. ASSUME NEW q \in lbUnderway, Balancers!Resize(q) \/ Balancers!EditChild(q)
      PROVE  BalancerInv'
  <2>1. iaasDirty' \in BOOLEAN /\ paasDirty' \in BOOLEAN
    BY Zenon, <1>2 DEF Balancers!Resize, Balancers!EditChild, Balancers!TouchParent, Balancers!Written
  <2>2. lb' \in Balancers!Balancer /\ content' \in Contents /\ lbUnderway' \subseteq lbUnderway
    <3>1. CASE Balancers!Resize(q)
      BY <1>0, <3>1 DEF Balancers!Resize, BalancerType, RequestsInv, Balancers!Balancer
    <3>2. CASE Balancers!EditChild(q)
      BY <1>0, <3>2 DEF Balancers!EditChild, Balancers!TouchParent, BalancerType, RequestsInv
    <3>. QED
      BY <1>2, <3>1, <3>2
  <2>3. BalancerType'
    BY <1>0, <2>1, <2>2 DEF BalancerType, RequestsInv
  <2>4. IaasType' /\ SetType' /\ InfraType' /\ PaasType' /\ TurnType'
    BY <1>0, <1>2, BalancerGroups DEF Balancers!Resize, Balancers!EditChild
  <2>. QED
    BY <2>3, <2>4 DEF BalancerInv
<1>. QED
  BY <1>1, <1>2 DEF Balancers!Users

LEMMA NodesKeepTypes ==
    ASSUME Balancers!BalancersAssumption, BalancerInv, NEW m \in Nodes,
           \/ Balancers!NodeProceeds(m) \/ Balancers!NodeFails(m)
           \/ Balancers!Serve(m) \/ Balancers!ServeFails(m)
    PROVE  BalancerInv'
<1>0. BalancerType /\ IaasType /\ SetType /\ InfraType /\ PaasType /\ TurnType
  BY DEF BalancerInv
<1>1. CASE Balancers!NodeProceeds(m) \/ Balancers!NodeFails(m)
  <2>0. row \in Balancers!Rows /\ row[m] \in Balancers!NodeRow
    BY <1>0, <1>1 DEF InfraType, Balancers!Rows, Balancers!NodeProceeds, Balancers!NodeFails
  <2>1. row' \in Balancers!Rows
    <3>1. PICK new \in Balancers!NodeRow : row' = [row EXCEPT ![m] = new]
      <4>1. ASSUME NEW s \in Balancers!Status, row' = [row EXCEPT ![m].status = s]
            PROVE  \E new \in Balancers!NodeRow : row' = [row EXCEPT ![m] = new]
        <5>1. [row[m] EXCEPT !.status = s] \in Balancers!NodeRow
          BY <2>0 DEF Balancers!NodeRow
        <5>. QED
          BY <2>0, <4>1, <5>1 DEF Balancers!Rows
      <4>2. ASSUME row' = [row EXCEPT ![m].ip = TRUE]
            PROVE  \E new \in Balancers!NodeRow : row' = [row EXCEPT ![m] = new]
        <5>1. [row[m] EXCEPT !.ip = TRUE] \in Balancers!NodeRow
          BY <2>0 DEF Balancers!NodeRow
        <5>. QED
          BY <2>0, <4>2, <5>1 DEF Balancers!Rows
      <4>3. ASSUME row' = [row EXCEPT ![m].status = "SCHEDULED"]
            PROVE  \E new \in Balancers!NodeRow : row' = [row EXCEPT ![m] = new]
        <5>1. [row[m] EXCEPT !.status = "SCHEDULED"] \in Balancers!NodeRow
          BY <2>0 DEF Balancers!NodeRow
        <5>. QED
          BY <2>0, <4>3, <5>1 DEF Balancers!Rows
      <4>4. Balancers!Ahead(row[m].status) \subseteq Balancers!Status \union {"SCHEDULED"}
        BY DEF Balancers!Ahead, Balancers!Status
      <4>5. "ERROR" \in Balancers!Status
        BY DEF Balancers!Status
      <4>. QED
        BY <1>1, <4>1, <4>2, <4>3, <4>4, <4>5 DEF Balancers!NodeProceeds, Balancers!NodeFails
    <3>. QED
      BY <2>0, <3>1 DEF Balancers!Rows
  <2>5. nodesNew' \in BOOLEAN
    BY Zenon, <1>1 DEF Balancers!NodeProceeds, Balancers!NodeFails
  <2>2. InfraType'
    BY <2>1, <2>5 DEF InfraType
  <2>3. BalancerType' /\ IaasType' /\ SetType' /\ PaasType'
    BY <1>0, <1>1, BalancerGroups DEF Balancers!NodeProceeds, Balancers!NodeFails
  <2>4. TurnType'
    BY <1>0, <1>1, EventTicks, BalancerGroups DEF TurnType, Balancers!NodeProceeds, Balancers!NodeFails
  <2>. QED
    BY <2>2, <2>3, <2>4 DEF BalancerInv
<1>2. CASE Balancers!Serve(m) \/ Balancers!ServeFails(m)
  <2>1. PaasType'
    <3>1. served[m] # None /\ served[m] \in Contents /\ UNCHANGED <<served, paasSeen>>
      BY <1>0, <1>2 DEF PaasType, Balancers!Serve, Balancers!ServeFails
    <3>2. PICK new \in [content : Contents, status : {"ACTIVE", "ERROR"}] :
              report' = [report EXCEPT ![m] = new]
      BY <1>2, <3>1 DEF Balancers!Serve, Balancers!ServeFails
    <3>3. report' \in Answers
      BY <1>0, <3>2 DEF PaasType, Answers
    <3>4. \A k \in Nodes : report'[k] # None => served[k] # None
      BY <1>0, <3>1, <3>2 DEF PaasType, Answers, Balancers!There
    <3>. QED
      BY <1>0, <3>1, <3>3, <3>4 DEF PaasType, Balancers!There
  <2>2. BalancerType' /\ IaasType' /\ SetType' /\ InfraType'
    BY <1>0, <1>2, BalancerGroups DEF Balancers!Serve, Balancers!ServeFails
  <2>3. TurnType'
    BY <1>0, <1>2, EventTicks, BalancerGroups DEF TurnType, Balancers!Serve, Balancers!ServeFails
  <2>. QED
    BY <2>1, <2>2, <2>3 DEF BalancerInv
<1>. QED
  BY <1>1, <1>2

LEMMA LbIaasKeepsTypes ==
    ASSUME Balancers!BalancersAssumption, BalancerInv, Balancers!LbIaas
    PROVE  BalancerInv'
<1>0. BalancerType /\ IaasType /\ SetType /\ InfraType /\ PaasType /\ TurnType
  BY DEF BalancerInv
<1>1. SetType' /\ InfraType' /\ PaasType'
  BY <1>0, BalancerGroups DEF Balancers!LbIaas
<1>2. TurnType'
  BY <1>0 DEF TurnType, Balancers!LbIaas, Balancers!Turn
<1>3. iaasDirty' \in BOOLEAN /\ paasDirty' \in BOOLEAN
  BY Zenon, <1>0 DEF BalancerType, Balancers!LbIaas, Balancers!CreateInfra, Balancers!ActualizeInfra
<1>4. lb' \in Balancers!Balancer
  <2>1. Balancers!Iaas(set) \in Balancers!Balancer
    <3>1. CASE set = None
      BY <1>0, <3>1 DEF BalancerType, Balancers!Iaas, Balancers!Balancer, Balancers!Status
    <3>2. CASE set # None
      <4>1. set \in Balancers!Set
        BY <1>0, <3>2 DEF SetType
      <4>2. Balancers!Addresses(set.nodes) \in SUBSET Nodes
        BY <1>0 DEF BalancerType, Balancers!Addresses, Balancers!Balancer
      <4>. QED
        BY <1>0, <3>2, <4>1, <4>2 DEF BalancerType, Balancers!Iaas, Balancers!Balancer, Balancers!Set
    <3>. QED
      BY <3>1, <3>2
  <2>. QED
    BY <1>0, <2>1 DEF BalancerType, Balancers!LbIaas, Balancers!CreateInfra, Balancers!ActualizeInfra
<1>5. BalancerType'
  BY <1>0, <1>3, <1>4 DEF BalancerType, RequestsInv, Balancers!LbIaas
<1>7. setNew' \in BOOLEAN
  BY Zenon, <1>0 DEF IaasType, Balancers!LbIaas, Balancers!CreateInfra, Balancers!ActualizeInfra,
                     Balancers!iaas
<1>6. IaasType'
  BY <1>0, <1>7 DEF BalancerType, IaasType, Balancers!LbIaas, Balancers!CreateInfra,
              Balancers!ActualizeInfra, Balancers!Balancer, Balancers!iaas
<1>. QED
  BY <1>1, <1>2, <1>5, <1>6 DEF BalancerInv

LEMMA CreateSetKeepsTypes ==
    ASSUME Balancers!BalancersAssumption, SetType, set # None, Balancers!CreateSet,
           setDirty' \in BOOLEAN
    PROVE  SetType'
<1>1. set \in Balancers!Set /\ set.replicas \in 1 .. MaxSize
  BY DEF SetType, Balancers!Set
<1>2. IsFiniteSet(Nodes) /\ Cardinality(Nodes) \in Nat /\ MaxSize \in 1 .. Cardinality(Nodes)
  BY BalancerConstants
<1>3. set.replicas \in Nat /\ set.replicas <= Cardinality(Nodes)
  BY <1>1, <1>2
<1>4. PICK s \in SUBSET Nodes : Cardinality(s) = set.replicas
  BY <1>2, <1>3, SubsetOfSize
<1>5. s \in Balancers!GenNodes({}, set.replicas)
  BY <1>4, SameSizes DEF Balancers!GenNodes
<1>6. members' \in Balancers!GenNodes({}, set.replicas)
  BY Zenon, <1>5 DEF Balancers!CreateSet
<1>7. members' \subseteq Nodes /\ Cardinality(members') = set.replicas
  BY <1>6, SameSizes DEF Balancers!GenNodes
<1>8. Cardinality(members') <= MaxSize
  BY <1>1, <1>2, <1>7
<1>. QED
  BY <1>7, <1>8 DEF SetType, Balancers!CreateSet

LEMMA ActualizeSetKeepsTypes ==
    ASSUME Balancers!BalancersAssumption, SetType, InfraType, set # None, Balancers!ActualizeSet,
           setDirty' \in BOOLEAN
    PROVE  SetType'
<1>. DEFINE known == members \intersect members' \intersect Balancers!There(row)
            nodes == [m \in Nodes |-> IF m \in known THEN row[m].ip ELSE None]
            status == Balancers!SetStatus({row[m].status : m \in known},
                                          Balancers!Cardinality(known))
<1>1. set \in Balancers!Set /\ set.replicas \in 1 .. MaxSize
  BY DEF SetType, Balancers!Set
<1>2. members' \subseteq Nodes /\ Cardinality(members') <= MaxSize
  <2>1. members' \subseteq Nodes /\ Cardinality(members') = set.replicas
    BY SameSizes DEF Balancers!ActualizeSet, Balancers!GenNodes
  <2>. QED
    BY <1>1, <2>1, BalancerConstants
<1>3. set' = [set EXCEPT !.nodes = nodes, !.status = status]
  BY DEF Balancers!ActualizeSet
<1>4. nodes \in [Nodes -> BOOLEAN \union {None}]
  <2>1. \A m \in known : row[m] \in Balancers!NodeRow
    BY DEF InfraType, Balancers!Rows, Balancers!There
  <2>2. \A m \in known : row[m].ip \in BOOLEAN
    BY Zenon, <2>1 DEF Balancers!NodeRow
  <2>3. \A m \in Nodes : (IF m \in known THEN row[m].ip ELSE None) \in BOOLEAN \union {None}
    BY Zenon, <2>2
  <2>. QED
    BY <2>3
<1>5. status \in Balancers!Status
  BY <1>1 DEF Balancers!SetStatus, Balancers!Status, Balancers!Set
<1>6. set' \in Balancers!Set
  <2>. HIDE DEF nodes, status
  <2>. QED
    BY <1>1, <1>3, <1>4, <1>5 DEF Balancers!Set
<1>. QED
  BY <1>2, <1>6 DEF SetType, InfraType, Balancers!ActualizeSet

LEMMA SetBuilderKeepsTypes ==
    ASSUME Balancers!BalancersAssumption, BalancerInv, Balancers!SetBuilder
    PROVE  BalancerInv'
<1>0. BalancerType /\ IaasType /\ SetType /\ InfraType /\ PaasType /\ TurnType
  BY DEF BalancerInv
<1>1. BalancerType' /\ PaasType'
  BY <1>0, BalancerGroups DEF Balancers!SetBuilder
<1>4. setNew' \in BOOLEAN /\ nodesNew' \in BOOLEAN
  BY Zenon, <1>0 DEF InfraType, Balancers!SetBuilder, Balancers!CreateSet, Balancers!ActualizeSet
<1>5. IaasType' /\ InfraType'
  BY <1>0, <1>4 DEF IaasType, InfraType, Balancers!SetBuilder
<1>2. TurnType'
  BY <1>0 DEF TurnType, Balancers!SetBuilder, Balancers!Turn
<1>3. SetType'
  <2>1. CASE UNCHANGED Balancers!nodeset
    BY <1>0, <2>1, BalancerGroups
  <2>2. ASSUME setDirty' = FALSE PROVE setDirty' \in BOOLEAN
    BY Zenon, <2>2
  <2>3. CASE set # None /\ Balancers!CreateSet /\ setDirty' = FALSE
    BY <1>0, <2>2, <2>3, CreateSetKeepsTypes
  <2>4. CASE set # None /\ Balancers!ActualizeSet /\ setDirty' = FALSE
    BY <1>0, <2>2, <2>4, ActualizeSetKeepsTypes
  <2>5. \/ set # None /\ (Balancers!CreateSet \/ Balancers!ActualizeSet) /\ setDirty' = FALSE
        \/ UNCHANGED Balancers!nodeset
    BY Zenon DEF Balancers!SetBuilder
  <2>. QED
    BY Zenon, <2>1, <2>3, <2>4, <2>5
<1>. QED
  BY <1>1, <1>2, <1>3, <1>5 DEF BalancerInv

LEMMA InfraAgentKeepsTypes ==
    ASSUME Balancers!BalancersAssumption, BalancerInv, Balancers!InfraAgent
    PROVE  BalancerInv'
<1>0. BalancerType /\ IaasType /\ SetType /\ InfraType /\ PaasType /\ TurnType
  BY DEF BalancerInv
<1>1. BalancerType' /\ PaasType'
  BY <1>0, BalancerGroups DEF Balancers!InfraAgent
<1>8. setNew' \in BOOLEAN /\ nodesNew' \in BOOLEAN
  BY Zenon DEF Balancers!InfraAgent
<1>2. TurnType'
  BY <1>0 DEF TurnType, Balancers!InfraAgent, Balancers!Turn
<1>3. row' \in Balancers!Rows
  <2>1. [status |-> "NEW", ip |-> FALSE] \in Balancers!NodeRow
    BY DEF Balancers!NodeRow, Balancers!Status
  <2>2. \A m \in Nodes : row[m] \in Balancers!NodeRow \union {None}
    BY <1>0 DEF InfraType, Balancers!Rows
  <2>. QED
    BY <2>1, <2>2 DEF Balancers!InfraAgent, Balancers!Rows
<1>4. set' \in Balancers!Set \union {None}
  <2>1. CASE want = None
    BY <1>0, <2>1 DEF Balancers!InfraAgent, SetType
  <2>2. CASE want # None /\ set = None
    <3>1. Balancers!Nowhere \in [Nodes -> BOOLEAN \union {None}]
      BY DEF Balancers!Nowhere
    <3>. QED
      BY <1>0, <2>2, <3>1 DEF Balancers!InfraAgent, IaasType, Balancers!Set, Balancers!Status
  <2>3. CASE want # None /\ set # None
    BY <1>0, <2>3 DEF Balancers!InfraAgent, IaasType, SetType, Balancers!Set
  <2>. QED
    BY <2>1, <2>2, <2>3
<1>5. setDirty' \in BOOLEAN
  BY Zenon, <1>0 DEF Balancers!InfraAgent, SetType
<1>6. SetType'
  BY <1>0, <1>4, <1>5 DEF SetType, Balancers!InfraAgent
<1>7. IaasType' /\ InfraType'
  BY <1>0, <1>3, <1>8 DEF IaasType, InfraType, Balancers!InfraAgent
<1>. QED
  BY <1>1, <1>2, <1>6, <1>7 DEF BalancerInv

LEMMA LbPaasKeepsTypes ==
    ASSUME Balancers!BalancersAssumption, BalancerInv, Balancers!LbPaas
    PROVE  BalancerInv'
<1>0. BalancerType /\ IaasType /\ SetType /\ InfraType /\ PaasType /\ TurnType
  BY DEF BalancerInv
<1>1. IaasType' /\ SetType' /\ InfraType'
  BY <1>0, BalancerGroups DEF Balancers!LbPaas
<1>2. TurnType'
  BY <1>0 DEF TurnType, Balancers!LbPaas, Balancers!Turn
<1>3. iaasDirty' \in BOOLEAN /\ paasDirty' \in BOOLEAN
  BY Zenon, <1>0 DEF BalancerType, Balancers!LbPaas, Balancers!ActualizePaas
<1>4. lb' \in Balancers!Balancer
  <2>1. Balancers!PaasStatus \in Balancers!Status
    BY DEF Balancers!PaasStatus, Balancers!Status
  <2>. QED
    BY <1>0, <2>1 DEF BalancerType, Balancers!LbPaas, Balancers!ActualizePaas, Balancers!Balancer
<1>5. BalancerType'
  BY <1>0, <1>3, <1>4 DEF BalancerType, RequestsInv, Balancers!LbPaas
<1>6. PaasType'
  <2>1. CASE UNCHANGED Balancers!paas
    BY <1>0, <2>1, BalancerGroups
  <2>2. CASE Balancers!ActualizePaas
    <3>1. served' \in [Nodes -> Contents \union {None}]
      BY <1>0, <2>2 DEF BalancerType, Balancers!ActualizePaas
    <3>2. report' \in Answers /\ paasSeen' \in Answers
      BY <1>0, <2>2 DEF PaasType, Answers, Balancers!ActualizePaas
    <3>3. \A m \in Nodes : report'[m] # None => served'[m] # None
      BY <1>0, <2>2, BalancerConstants DEF BalancerType, Balancers!ActualizePaas
    <3>. QED
      BY <3>1, <3>2, <3>3 DEF PaasType, Balancers!There
  <2>. QED
    BY <2>1, <2>2 DEF Balancers!LbPaas
<1>. QED
  BY <1>1, <1>2, <1>5, <1>6 DEF BalancerInv

LEMMA StepBalancerInv ==
    ASSUME Balancers!BalancersAssumption, BalancerInv, [Balancers!Next]_(Balancers!vars)
    PROVE  BalancerInv'
<1>1. CASE UNCHANGED Balancers!vars
  <2>1. /\ UNCHANGED Balancers!balancer /\ UNCHANGED Balancers!iaas /\ UNCHANGED Balancers!nodeset
        /\ UNCHANGED Balancers!infra /\ UNCHANGED Balancers!paas /\ UNCHANGED <<turn, lbEvents>>
    BY <1>1 DEF Balancers!vars, Balancers!balancer, Balancers!iaas, Balancers!nodeset,
                Balancers!infra, Balancers!paas
  <2>. QED
    BY <2>1, BalancerGroups DEF BalancerInv
<1>2. CASE Balancers!Next
  BY <1>2, UsersKeepTypes, NodesKeepTypes, LbIaasKeepsTypes, SetBuilderKeepsTypes,
     InfraAgentKeepsTypes, LbPaasKeepsTypes DEF Balancers!Next, Balancers!Process
<1>. QED
  BY <1>1, <1>2

\* A step of a balancer moves the nodes of its set as NodesAreKept says.
LEMMA StepKeepsNodes ==
    ASSUME Balancers!BalancersAssumption, BalancerInv, [Balancers!Next]_(Balancers!vars),
           members' # members
    PROVE  /\ members # {} /\ Cardinality(members) <= set.replicas => members \subseteq members'
           /\ members \subseteq members' \/ members' \subseteq members
<1>0. SetType
  BY DEF BalancerInv
<1>1. Balancers!CreateSet \/ Balancers!ActualizeSet
  <2>1. Balancers!Next
    BY DEF Balancers!vars
  <2>2. Balancers!SetBuilder
    BY <2>1 DEF Balancers!Next, Balancers!Users, Balancers!Process, Balancers!Begin,
                Balancers!Resize, Balancers!EditChild, Balancers!InfraAgent, Balancers!LbIaas,
                Balancers!LbPaas, Balancers!NodeProceeds, Balancers!NodeFails, Balancers!Serve,
                Balancers!ServeFails, Balancers!nodeset
  <2>. QED
    BY <2>2 DEF Balancers!SetBuilder, Balancers!nodeset
<1>2. CASE Balancers!CreateSet
  BY <1>2 DEF Balancers!CreateSet
<1>3. CASE Balancers!ActualizeSet
  <2>1. /\ members' \subseteq Nodes /\ Cardinality(members') = set.replicas
        /\ members' \subseteq members \/ members \subseteq members'
    BY <1>3, SameSizes DEF Balancers!ActualizeSet, Balancers!GenNodes
  <2>2. members \subseteq Nodes /\ IsFiniteSet(members) /\ Cardinality(members) \in Nat
    BY <1>0, BalancerConstants, FS_Subset, FS_CardinalityType DEF SetType
  <2>3. ASSUME members' \subseteq members, Cardinality(members) <= set.replicas
        PROVE  members \subseteq members'
    <3>1. Cardinality(members') <= Cardinality(members) /\ Cardinality(members') \in Nat
      BY <2>2, <2>3, FS_Subset, FS_CardinalityType
    <3>2. Cardinality(members') = Cardinality(members)
      BY <2>1, <2>2, <2>3, <3>1
    <3>. QED
      BY <2>2, <2>3, <3>2, FS_Subset
  <2>. QED
    BY <2>1, <2>3
<1>. QED
  BY <1>1, <1>2, <1>3

\* A balancer, its set of nodes and what they serve have their types
\* (network/lb/builders, compute/builders/node_set.py).
THEOREM BalancerTypes ==
    ASSUME Balancers!BalancersAssumption PROVE Balancers!Spec => []Balancers!TypeOK
<1>1. Balancers!Init => BalancerInv
  BY InitBalancerInv
<1>2. BalancerInv /\ [Balancers!Next]_(Balancers!vars) => BalancerInv'
  BY StepBalancerInv
<1>3. BalancerInv => Balancers!TypeOK
  BY BalancerTypesHold
<1>. QED
  BY <1>1, <1>2, <1>3, PTL DEF Balancers!Spec

\* A change of the size or the content of a balancer replaces none of the nodes
\* of its set: ones that exist are kept (compute/node_set/dm/models.py gen_nodes).
THEOREM NodesStay ==
    ASSUME Balancers!BalancersAssumption PROVE Balancers!Spec => Balancers!NodesAreKept
<1>1. Balancers!Init => BalancerInv
  BY InitBalancerInv
<1>2. BalancerInv /\ [Balancers!Next]_(Balancers!vars) => BalancerInv'
  BY StepBalancerInv
<1>3. BalancerInv /\ [Balancers!Next]_(Balancers!vars) =>
        [/\ members # {} /\ Balancers!Cardinality(members) <= set.replicas => members \subseteq members'
         /\ members \subseteq members' \/ members' \subseteq members]_<<members>>
  BY StepKeepsNodes, SameSizes
<1>. QED
  BY <1>1, <1>2, <1>3, PTL DEF Balancers!Spec, Balancers!NodesAreKept

-----------------------------------------------------------------------------
\* In Records the bootstrap is as it is by itself.
LEMMA RecordsRunBootstrap == RecordsSpec => Bootstrap!Spec
<1>1. RecordsInit => Bootstrap!Init
  BY DEF RecordsInit
<1>2. [RecordsNext]_recordsVars => [Bootstrap!Next]_Bootstrap!vars
  BY Zenon DEF RecordsNext, recordsVars, stand, Bootstrap!vars
<1>. QED
  BY <1>1, <1>2, PTL DEF RecordsSpec, Bootstrap!Spec

\* The salt stays the one the secrets were hashed with (run records).
COROLLARY SaltIsKeptHolds == RecordsSpec => []SaltIsKept
<1>1. Bootstrap!SaltIsKept => SaltIsKept
  BY DEF SaltIsKept
<1>. QED
  BY <1>1, TheSaltIsKept, RecordsRunBootstrap, RecordsAssumption, PTL DEF RecordsAssumption

\* Whatever image boots, rows stay (run records).
COROLLARY RowsSurviveHolds == RecordsSpec => RowsSurvive
BY RowsAreKept, RecordsRunBootstrap, RecordsAssumption, PTL DEF RecordsAssumption, RowsSurvive

\* In Records the balancer is as it is by itself.
LEMMA RecordsRunBalancers == RecordsSpec => Balancers!Spec
<1>1. RecordsInit => Balancers!Init
  BY DEF RecordsInit
<1>2. [RecordsNext]_recordsVars => [Balancers!Next]_Balancers!vars
  BY Zenon DEF RecordsNext, recordsVars, balancer, Balancers!vars
<1>. QED
  BY <1>1, <1>2, PTL DEF RecordsSpec, Balancers!Spec

\* A change of size or content replaces no node of a balancer (run records).
COROLLARY NodesAreKeptHolds == RecordsSpec => NodesAreKept
<1>1. Balancers!Spec => Balancers!NodesAreKept
  BY NodesStay, RecordsAssumption DEF RecordsAssumption
<1>. QED
  BY <1>1, RecordsRunBalancers, PTL DEF NodesAreKept

-----------------------------------------------------------------------------
(* Profiles and values.  A request writes from what it read, so the copies  *)
(* have their types too, and at most one value stays selected.              *)

QueueType == \A q \in underway :
    /\ q.op \in Profiles!Ops /\ q.read.active \subseteq Global
    /\ q.op \in {"activate", "assign", "clear"} => q.on \in Global
    /\ q.op \in {"insert", "delete", "select", "release"} =>
           q.on \in Vals /\ q.read.sel \subseteq Vals /\ q.at \in 0 .. MaxRequests
    /\ q.op = "put" => q.on \in Profiles!Setters
    /\ q.op \in {"insert", "delete", "select", "release", "put"} => q.read.var \in Profiles!Variable
FlagsType == changed \in BOOLEAN /\ touched \in BOOLEAN /\ missed \in BOOLEAN
OwnType == active \subseteq Global /\ own \in Global \union {None} /\ var \in Profiles!Variable
ValuesType == val \in [Vals -> Profiles!Value \union {None}] /\ Cardinality(Profiles!Selected(val)) <= 1

ProfilesInv == QueueType /\ FlagsType /\ OwnType /\ ValuesType /\ requests \in 0 .. MaxRequests

LEMMA ProfileTypesHold == ProfilesInv => Profiles!TypeOK
BY Zenon, SameSizes DEF ProfilesInv, QueueType, FlagsType, OwnType, ValuesType, Profiles!TypeOK

LEMMA InitProfilesInv == Profiles!ProfilesAssumption /\ Profiles!Init => ProfilesInv
<1>. SUFFICES ASSUME Profiles!ProfilesAssumption, Profiles!Init PROVE ProfilesInv
  OBVIOUS
<1>1. FlagsType
  BY Zenon DEF FlagsType, Profiles!Init
<1>2. QueueType /\ requests \in 0 .. MaxRequests
  BY DEF QueueType, Profiles!Init, Profiles!ProfilesAssumption
<1>3. OwnType
  BY DEF OwnType, Profiles!Init, Profiles!ProfilesAssumption, Profiles!Variable
<1>4. ValuesType
  <2>1. [at |-> 0, sel |-> FALSE] \in Profiles!Value
    BY DEF Profiles!Value, Profiles!ProfilesAssumption
  <2>2. \A v \in Vals : val[v] = None \/ val[v] = [at |-> 0, sel |-> FALSE]
    BY DEF Profiles!Init
  <2>3. \A v \in Vals : val[v] # None => val[v].sel = FALSE
    BY <2>2
  <2>4. Profiles!Selected(val) = {}
    BY <2>3 DEF Profiles!Selected, Profiles!There
  <2>5. val \in [Vals -> Profiles!Value \union {None}]
    <3>1. val \in [Vals -> {None, [at |-> 0, sel |-> FALSE]}]
      BY Zenon DEF Profiles!Init
    <3>2. {None, [at |-> 0, sel |-> FALSE]} \subseteq Profiles!Value \union {None}
      BY Zenon, <2>1
    <3>. HIDE DEF Profiles!Value
    <3>. QED
      BY <3>1, <3>2
  <2>6. Cardinality({}) = 0
    BY FS_EmptySet
  <2>. QED
    BY <2>4, <2>5, <2>6 DEF ValuesType
<1>. QED
  BY <1>1, <1>2, <1>3, <1>4 DEF ProfilesInv

LEMMA BeginRequestTypes ==
    ASSUME Profiles!ProfilesAssumption, ProfilesInv,
           NEW op \in Profiles!Ops, NEW x \in Profiles!Subjects(op), Profiles!Begin(op, x)
    PROVE  ProfilesInv'
<1>. DEFINE q == [op |-> op, on |-> x, read |-> Profiles!Read(op),
                  at |-> IF op = "insert" THEN requests ELSE 0]
<1>1. underway' = underway \union {q}
  BY DEF Profiles!Begin
<1>2. /\ op \in {"activate", "assign", "clear"} => x \in Global
      /\ op \in {"insert", "delete", "select", "release"} => x \in Vals
      /\ op = "put" => x \in Profiles!Setters
  BY DEF Profiles!Subjects, ProfilesInv, OwnType, Profiles!There, Profiles!Selected, Profiles!Ops
<1>3. /\ q.op = op /\ q.on = x /\ q.at \in 0 .. MaxRequests
      /\ q.read.active \subseteq Global /\ q.read.sel \subseteq Vals
      /\ op \in {"insert", "delete", "select", "release", "put"} => q.read.var = var
  BY DEF Profiles!Read, ProfilesInv, OwnType, Profiles!There, Profiles!Selected, Profiles!ProfilesAssumption
<1>4. QueueType'
  <2>. HIDE DEF q
  <2>. QED
    BY <1>1, <1>2, <1>3 DEF ProfilesInv, QueueType, OwnType
<1>5. requests' \in 0 .. MaxRequests
  BY DEF Profiles!Begin, ProfilesInv, Profiles!ProfilesAssumption
<1>6. FlagsType' /\ OwnType'
  BY DEF Profiles!Begin, ProfilesInv, FlagsType, OwnType
<1>7. ValuesType'
  BY DEF Profiles!Begin, ProfilesInv, ValuesType, Profiles!Selected, Profiles!There
<1>. QED
  BY <1>4, <1>5, <1>6, <1>7 DEF ProfilesInv

LEMMA FinishRequestTypes ==
    ASSUME Profiles!ProfilesAssumption, ProfilesInv, NEW q \in underway, Profiles!Finish(q)
    PROVE  ProfilesInv'
<1>. USE DEF Profiles!Ends
<1>1. underway' \subseteq underway /\ requests' = requests
  BY DEF Profiles!Finish, Profiles!Activate, Profiles!Assign, Profiles!Clear, Profiles!InsertValue,
         Profiles!DeleteValue, Profiles!SelectValue, Profiles!PutVariable, Profiles!Fail
<1>2. QueueType' /\ requests' \in 0 .. MaxRequests
  BY <1>1 DEF QueueType, ProfilesInv
<1>3. FlagsType'
  BY Zenon DEF ProfilesInv, FlagsType, Profiles!Finish, Profiles!Activate, Profiles!Assign,
     Profiles!Clear, Profiles!InsertValue, Profiles!DeleteValue, Profiles!SelectValue,
     Profiles!PutVariable, Profiles!Fail, Profiles!Touches, Profiles!Notify
<1>4. CASE Profiles!Activate(q) \/ Profiles!Assign(q) \/ Profiles!Clear(q)
  <2>1. OwnType'
    BY <1>4 DEF ProfilesInv, QueueType, OwnType, Profiles!Activate, Profiles!Assign,
       Profiles!Clear, Profiles!Force
  <2>2. ValuesType'
    BY <1>4 DEF ProfilesInv, ValuesType, Profiles!Activate, Profiles!Assign, Profiles!Clear,
       Profiles!Selected, Profiles!There
  <2>. QED
    BY <1>2, <1>3, <2>1, <2>2 DEF ProfilesInv
<1>5. CASE Profiles!PutVariable(q) \/ Profiles!Fail(q)
  <2>1. OwnType'
    BY <1>5 DEF ProfilesInv, QueueType, OwnType, Profiles!PutVariable, Profiles!Fail, Profiles!Variable
  <2>2. ValuesType'
    BY <1>5 DEF ProfilesInv, ValuesType, Profiles!PutVariable, Profiles!Fail,
       Profiles!Selected, Profiles!There
  <2>. QED
    BY <1>2, <1>3, <2>1, <2>2 DEF ProfilesInv
<1>6. CASE Profiles!InsertValue(q) \/ Profiles!DeleteValue(q) \/ Profiles!SelectValue(q)
  <2>1. /\ q.on \in Vals /\ q.read.sel \subseteq Vals /\ q.at \in 0 .. MaxRequests
        /\ q.read.var \in Profiles!Variable
    BY <1>6 DEF ProfilesInv, QueueType, Profiles!InsertValue, Profiles!DeleteValue, Profiles!SelectValue
  <2>2. OwnType'
    BY <1>6, <2>1 DEF ProfilesInv, OwnType, Profiles!InsertValue, Profiles!DeleteValue,
       Profiles!SelectValue, Profiles!Notify
  <2>3. IsFiniteSet(Profiles!Selected(val)) /\ Cardinality(Profiles!Selected(val)) \in Nat
    BY SameSizes, FS_Subset, FS_CardinalityType
    DEF Profiles!Selected, Profiles!There, Profiles!ProfilesAssumption
  <2>4. ASSUME val' \in [Vals -> Profiles!Value \union {None}],
               \A v \in Vals : val'[v] # None /\ val'[v].sel => val[v] # None /\ val[v].sel
        PROVE  ValuesType'
    <3>1. Profiles!Selected(val') \subseteq Profiles!Selected(val)
      BY <2>4 DEF Profiles!Selected, Profiles!There
    <3>2. Cardinality(Profiles!Selected(val')) <= Cardinality(Profiles!Selected(val))
          /\ Cardinality(Profiles!Selected(val')) \in Nat
      BY <2>3, <3>1, FS_Subset, FS_CardinalityType
    <3>. QED
      BY <2>3, <2>4, <3>2 DEF ProfilesInv, ValuesType
  <2>5. CASE Profiles!InsertValue(q)
    <3>1. [at |-> q.at, sel |-> FALSE] \in Profiles!Value
      BY <2>1 DEF Profiles!Value
    <3>. QED
      BY <1>2, <1>3, <2>1, <2>2, <2>4, <2>5, <3>1 DEF ProfilesInv, ValuesType, Profiles!InsertValue
  <2>6. CASE Profiles!DeleteValue(q)
    BY <1>2, <1>3, <2>1, <2>2, <2>4, <2>6 DEF ProfilesInv, ValuesType, Profiles!DeleteValue
  <2>7. CASE Profiles!SelectValue(q)
    <3>1. PICK on : /\ on \subseteq {q.on}
                    /\ \A v \in q.read.sel \union on : val[v] # None
                    /\ Profiles!OneSelected(Profiles!Reselected(q, on))
                    /\ val' = Profiles!Reselected(q, on)
      BY <2>7 DEF Profiles!SelectValue
    <3>2. \A v \in Vals, b \in BOOLEAN : val[v] # None => [val[v] EXCEPT !.sel = b] \in Profiles!Value
      BY DEF ProfilesInv, ValuesType, Profiles!Value
    <3>3. \A v \in Vals : (v \notin q.read.sel) \in BOOLEAN
      BY Zenon
    <3>4. val' \in [Vals -> Profiles!Value \union {None}]
      BY <3>1, <3>2, <3>3 DEF Profiles!Reselected, ProfilesInv, ValuesType
    <3>5. Cardinality(Profiles!Selected(val')) <= 1
      BY <3>1, SameSizes DEF Profiles!OneSelected
    <3>6. ValuesType'
      BY <3>4, <3>5 DEF ValuesType
    <3>. QED
      BY <1>2, <1>3, <2>2, <3>6 DEF ProfilesInv
  <2>. QED
    BY <1>6, <2>5, <2>6, <2>7
<1>. QED
  BY <1>4, <1>5, <1>6 DEF Profiles!Finish

LEMMA StepProfilesInv ==
    ASSUME Profiles!ProfilesAssumption, ProfilesInv, [Profiles!Next]_(Profiles!vars)
    PROVE  ProfilesInv'
<1>1. CASE Profiles!Builder
  <2>1. FlagsType'
    BY Zenon, <1>1 DEF ProfilesInv, FlagsType, Profiles!Builder, Profiles!ByProfile, Profiles!BySelector
  <2>2. var' \in Profiles!Variable
    <3>1. CASE Profiles!ByProfile
      BY <3>1 DEF ProfilesInv, OwnType, Profiles!ByProfile, Profiles!Variable
    <3>2. CASE Profiles!BySelector
      <4>1. Profiles!Chosen \subseteq Vals
        BY DEF Profiles!Chosen, Profiles!Selected, Profiles!There
      <4>2. CASE var' = [var EXCEPT !.value = None, !.status = "IN_PROGRESS"]
        BY <4>2 DEF ProfilesInv, OwnType, Profiles!Variable
      <4>3. CASE \E v \in Profiles!Chosen : var' = [var EXCEPT !.value = v, !.status = "ACTIVE"]
        <5>1. PICK v \in Profiles!Chosen : var' = [var EXCEPT !.value = v, !.status = "ACTIVE"]
          BY Zenon, <4>3
        <5>2. v \in Vals \union {None}
          BY <4>1
        <5>. QED
          BY <5>1, <5>2 DEF ProfilesInv, OwnType, Profiles!Variable
      <4>. QED
        BY Zenon, <3>2, <4>2, <4>3 DEF Profiles!BySelector
    <3>. QED
      BY <1>1, <3>1, <3>2 DEF Profiles!Builder
  <2>3. QueueType' /\ OwnType' /\ requests' \in 0 .. MaxRequests
    BY <1>1, <2>2 DEF ProfilesInv, QueueType, OwnType, Profiles!Builder
  <2>4. ValuesType'
    BY <1>1 DEF ProfilesInv, ValuesType, Profiles!Builder, Profiles!Selected, Profiles!There
  <2>. QED
    BY <2>1, <2>3, <2>4 DEF ProfilesInv
<1>2. CASE UNCHANGED Profiles!vars
  <2>1. QueueType' /\ FlagsType' /\ OwnType' /\ requests' \in 0 .. MaxRequests
    BY <1>2 DEF Profiles!vars, ProfilesInv, QueueType, FlagsType, OwnType
  <2>2. ValuesType'
    BY <1>2 DEF Profiles!vars, ProfilesInv, ValuesType, Profiles!Selected, Profiles!There
  <2>. QED
    BY <2>1, <2>2 DEF ProfilesInv
<1>. QED
  BY <1>1, <1>2, BeginRequestTypes, FinishRequestTypes DEF Profiles!Next, Profiles!Api

\* Profiles, values and requests are well formed, and at most one value of a variable
\* is selected by hand (vs/dm/models.py, the partial index of vs_values).
THEOREM ProfileTypes == Profiles!ProfilesAssumption /\ Profiles!Spec => []Profiles!TypeOK
<1>. SUFFICES ASSUME Profiles!ProfilesAssumption PROVE Profiles!Spec => []Profiles!TypeOK
  OBVIOUS
<1>1. Profiles!Init => ProfilesInv
  BY InitProfilesInv
<1>2. ProfilesInv /\ [Profiles!Next]_(Profiles!vars) => ProfilesInv'
  BY StepProfilesInv
<1>. QED
  BY <1>1, <1>2, ProfileTypesHold, PTL DEF Profiles!Spec

-----------------------------------------------------------------------------
(* DNS.  A push works on what it has read and holds the realm's domain in   *)
(* a row it has not committed; no other domain may have its name meanwhile. *)

DomainRow == [name : Names, sync : BOOLEAN]
RecordRow == [domain : Domains, value : DnsValues]
RealmRow == [name |-> Realm, sync |-> TRUE]
Mark == [domain : Domains, row : {RealmRow}]
Pass == [todo : SUBSET [domain : Domains, name : Names], ops : SUBSET Dns!Op, on : BOOLEAN, full : BOOLEAN]

NamesDiffer == \A d, e \in Domains :
    domain[d] # None /\ domain[e] # None /\ domain[d].name = domain[e].name => d = e

TablesType ==
    /\ domain \in [Domains -> DomainRow \union {None}]
    /\ record \in [DnsRecords -> RecordRow \union {None}]
    /\ \A r \in DnsRecords : record[r] # None => domain[record[r].domain] # None
    /\ recent \subseteq DnsRecords /\ fresh \subseteq DnsRecords
    /\ \A r \in recent : record[r] # None
    /\ NamesDiffer
WritingType == writing # None => writing.rec \in DnsRecords /\ writing.row \in RecordRow
RemoteType ==
    /\ zones \subseteq Names
    /\ remote \in [DnsRecords -> [zone : Names, value : DnsValues] \union {None}]
    /\ \A r \in DnsRecords : remote[r] # None => remote[r].zone \in zones

\* The realm's name is free for the domain that is to have it.
MarkOK(mark) ==
    \/ mark = Dns!NoMark
    \/ mark \in Mark /\ \A d \in Domains : domain[d] # None /\ domain[d].name = Realm => d = mark.domain

\* Whatever a push posts or puts has a value.
PassType ==
    /\ pass \in Pass /\ \A o \in pass.ops : o.op # "delete" => o.value \in DnsValues
    /\ ~pass.on => pass = Dns!NoPass /\ marking = Dns!NoMark
FlagsOK == initialized \in BOOLEAN /\ due \in BOOLEAN /\ synced \in BOOLEAN

DnsInv == /\ TablesType /\ WritingType /\ RemoteType /\ PassType /\ MarkOK(marking) /\ FlagsOK
          /\ dnsEvents \in 0 .. MaxDnsEvents

LEMMA DnsTypesHold == DnsInv => Dns!TypeOK
<1>. SUFFICES ASSUME DnsInv PROVE Dns!TypeOK
  OBVIOUS
<1>1. \A m \in Names : Dns!Cardinality(Dns!Named(m)) <= 1
  <2>. SUFFICES ASSUME NEW m \in Names PROVE Cardinality(Dns!Named(m)) <= 1
    BY SameSizes
  <2>1. CASE Dns!Named(m) = {}
    BY <2>1, FS_EmptySet
  <2>2. CASE Dns!Named(m) # {}
    <3>1. PICK d \in Dns!Named(m) : TRUE
      BY <2>2
    <3>2. Dns!Named(m) = {d}
      BY <3>1 DEF Dns!Named, DnsInv, TablesType, NamesDiffer
    <3>3. Cardinality({d}) = 1
      BY FS_Singleton
    <3>. QED
      BY <3>2, <3>3
  <2>. QED
    BY <2>1, <2>2
<1>2. pass.ops \subseteq Dns!Op
  BY DEF DnsInv, PassType, Pass
<1>. QED
  BY Zenon, <1>1, <1>2 DEF DnsInv, TablesType, RemoteType, PassType, FlagsOK, Dns!TypeOK, DomainRow, RecordRow

LEMMA InitDnsInv == Dns!DnsAssumption /\ Dns!Init => DnsInv
<1>. SUFFICES ASSUME Dns!DnsAssumption, Dns!Init PROVE DnsInv
  OBVIOUS
<1>1. FlagsOK
  BY Zenon DEF FlagsOK, Dns!Init
<1>2. PassType
  BY DEF PassType, Pass, Dns!Init, Dns!NoPass
<1>3. TablesType /\ WritingType /\ RemoteType
  BY DEF TablesType, NamesDiffer, WritingType, RemoteType, Dns!Init
<1>4. MarkOK(marking) /\ dnsEvents \in 0 .. MaxDnsEvents
  BY DEF MarkOK, Dns!Init, Dns!DnsAssumption
<1>. QED
  BY <1>1, <1>2, <1>3, <1>4 DEF DnsInv

LEMMA DnsTicks == Dns!DnsAssumption /\ DnsInv /\ Dns!Event => dnsEvents' \in 0 .. MaxDnsEvents
BY DEF DnsInv, Dns!Event, Dns!DnsAssumption

LEMMA DomainsKeepTypes ==
    ASSUME Dns!DnsAssumption, DnsInv,
           \/ \E d \in Domains, m \in Names, s \in BOOLEAN : Dns!CreateDomain(d, m, s) \/ Dns!EditDomain(d, m, s)
           \/ \E d \in Domains : Dns!DeleteDomain(d)
    PROVE  DnsInv'
<1>1. ASSUME NEW d \in Domains, NEW m \in Names, NEW s \in BOOLEAN,
             Dns!CreateDomain(d, m, s) \/ Dns!EditDomain(d, m, s)
      PROVE  DnsInv'
  <2>1. /\ domain' = [domain EXCEPT ![d] = [name |-> m, sync |-> s]]
        /\ Dns!Named(m) \subseteq {d} /\ Dns!Free(d, m) /\ Dns!Event
        /\ UNCHANGED <<record, writing, recent, fresh, zones, remote, pass, marking, initialized, due, synced>>
    BY <1>1 DEF Dns!CreateDomain, Dns!EditDomain
  <2>2. [name |-> m, sync |-> s] \in DomainRow /\ [name |-> m, sync |-> s] # None
    BY DEF DomainRow, Dns!DnsAssumption
  <2>3. /\ domain' \in [Domains -> DomainRow \union {None}]
        /\ \A e \in Domains : domain'[e] = IF e = d THEN [name |-> m, sync |-> s] ELSE domain[e]
    BY <2>1, <2>2 DEF DnsInv, TablesType
  <2>4. \A e \in Domains : domain[e] # None /\ domain[e].name = m => e = d
    BY <2>1 DEF Dns!Named
  <2>5. TablesType'
    <3>1. NamesDiffer'
      BY <2>3, <2>4 DEF DnsInv, TablesType, NamesDiffer
    <3>2. \A r \in DnsRecords : record[r] # None => record[r].domain \in Domains
      BY DEF DnsInv, TablesType, RecordRow
    <3>. QED
      BY <2>1, <2>2, <2>3, <3>1, <3>2 DEF DnsInv, TablesType
  <2>6. MarkOK(marking)'
    BY <2>1, <2>3 DEF DnsInv, MarkOK, Mark, RealmRow, Dns!Free
  <2>7. PassType' /\ FlagsOK' /\ WritingType' /\ RemoteType'
    BY <2>1 DEF DnsInv, PassType, FlagsOK, WritingType, RemoteType
  <2>. QED
    BY <2>1, <2>5, <2>6, <2>7, DnsTicks DEF DnsInv
<1>2. ASSUME NEW d \in Domains, Dns!DeleteDomain(d) PROVE DnsInv'
  <2>. DEFINE its == {r \in DnsRecords : record[r] # None /\ record[r].domain = d}
  <2>1. /\ domain' = [domain EXCEPT ![d] = None]
        /\ record' = [r \in DnsRecords |-> IF r \in its THEN None ELSE record[r]]
        /\ recent' = recent \ its /\ fresh' = fresh \ its /\ Dns!Event
        /\ UNCHANGED <<writing, zones, remote, pass, marking, initialized, due, synced>>
    BY <1>2 DEF Dns!DeleteDomain
  <2>2. \A e \in Domains : domain'[e] = IF e = d THEN None ELSE domain[e]
    BY <2>1 DEF DnsInv, TablesType
  <2>3. \A r \in DnsRecords : record'[r] = IF r \in its THEN None ELSE record[r]
    BY <2>1
  <2>4. TablesType'
    <3>1. domain' \in [Domains -> DomainRow \union {None}] /\ record' \in [DnsRecords -> RecordRow \union {None}]
      BY <2>1 DEF DnsInv, TablesType
    <3>2. \A r \in DnsRecords : record[r] # None => record[r].domain \in Domains
      BY DEF DnsInv, TablesType, RecordRow
    <3>3. \A r \in DnsRecords : record'[r] # None => domain'[record'[r].domain] # None
      BY <2>2, <2>3, <3>2 DEF DnsInv, TablesType
    <3>4. recent' \subseteq DnsRecords /\ fresh' \subseteq DnsRecords /\ \A r \in recent' : record'[r] # None
      BY <2>1, <2>3 DEF DnsInv, TablesType
    <3>5. NamesDiffer'
      BY <2>2 DEF DnsInv, TablesType, NamesDiffer
    <3>. QED
      BY <3>1, <3>3, <3>4, <3>5 DEF TablesType
  <2>5. MarkOK(marking)'
    BY <2>1, <2>2 DEF DnsInv, MarkOK
  <2>6. PassType' /\ FlagsOK' /\ WritingType' /\ RemoteType'
    BY <2>1 DEF DnsInv, PassType, FlagsOK, WritingType, RemoteType
  <2>. QED
    BY <2>1, <2>4, <2>5, <2>6, DnsTicks DEF DnsInv
<1>. QED
  BY <1>1, <1>2

LEMMA RecordsKeepTypes ==
    ASSUME Dns!DnsAssumption, DnsInv,
           \/ \E r \in DnsRecords, d \in Domains, v \in DnsValues : Dns!Stamp(r, d, v)
           \/ \E r \in DnsRecords : Dns!DeleteRecord(r)
           \/ Dns!Write
    PROVE  DnsInv'
<1>1. ASSUME NEW r \in DnsRecords, NEW d \in Domains, NEW v \in DnsValues, Dns!Stamp(r, d, v) PROVE DnsInv'
  <2>1. WritingType'
    BY <1>1 DEF Dns!Stamp, WritingType, RecordRow
  <2>2. TablesType' /\ MarkOK(marking)'
    BY <1>1 DEF Dns!Stamp, Dns!tables, DnsInv, TablesType, NamesDiffer, MarkOK
  <2>3. PassType' /\ FlagsOK' /\ RemoteType'
    BY <1>1 DEF Dns!Stamp, DnsInv, PassType, FlagsOK, RemoteType
  <2>. QED
    BY <1>1, <2>1, <2>2, <2>3, DnsTicks DEF DnsInv, Dns!Stamp
<1>2. ASSUME NEW r \in DnsRecords, Dns!DeleteRecord(r) PROVE DnsInv'
  <2>1. TablesType'
    BY <1>2 DEF Dns!DeleteRecord, DnsInv, TablesType, NamesDiffer
  <2>2. MarkOK(marking)' /\ WritingType'
    BY <1>2 DEF Dns!DeleteRecord, DnsInv, MarkOK, WritingType
  <2>3. PassType' /\ FlagsOK' /\ RemoteType'
    BY <1>2 DEF Dns!DeleteRecord, DnsInv, PassType, FlagsOK, RemoteType
  <2>. QED
    BY <1>2, <2>1, <2>2, <2>3, DnsTicks DEF DnsInv, Dns!DeleteRecord
<1>3. CASE Dns!Write
  <2>. DEFINE r == writing.rec
  <2>1. r \in DnsRecords /\ writing.row \in RecordRow /\ writing.row # None
    BY <1>3 DEF Dns!Write, DnsInv, WritingType, Dns!DnsAssumption, RecordRow
  <2>2. TablesType'
    <3>1. CASE Dns!Commits(writing)
      <4>1. /\ record' = [record EXCEPT ![r] = writing.row]
            /\ recent' \subseteq recent \union {r} /\ fresh' \subseteq fresh \union {r}
            /\ domain' = domain /\ domain[writing.row.domain] # None
        BY <1>3, <3>1 DEF Dns!Write, Dns!Commits
      <4>2. \A q \in DnsRecords : record'[q] = IF q = r THEN writing.row ELSE record[q]
        BY <2>1, <4>1 DEF DnsInv, TablesType
      <4>3. record' \in [DnsRecords -> RecordRow \union {None}]
        BY <2>1, <4>1 DEF DnsInv, TablesType
      <4>4. NamesDiffer'
        BY <4>1 DEF DnsInv, TablesType, NamesDiffer
      <4>. QED
        BY <2>1, <4>1, <4>2, <4>3, <4>4 DEF DnsInv, TablesType
    <3>2. CASE ~Dns!Commits(writing)
      BY <1>3, <3>2 DEF Dns!Write, DnsInv, TablesType, NamesDiffer
    <3>. QED
      BY <3>1, <3>2
  <2>3. MarkOK(marking)' /\ WritingType'
    BY <1>3 DEF Dns!Write, DnsInv, MarkOK, WritingType
  <2>4. PassType' /\ FlagsOK' /\ RemoteType'
    BY <1>3 DEF Dns!Write, DnsInv, PassType, FlagsOK, RemoteType
  <2>. QED
    BY <1>3, <2>2, <2>3, <2>4 DEF DnsInv, Dns!Write
<1>. QED
  BY <1>1, <1>2, <1>3

LEMMA RealmRowIs ==
    ASSUME Dns!DnsAssumption
    PROVE  RealmRow \in DomainRow /\ RealmRow # None /\ RealmRow.name = Realm
<1>1. \A s \in BOOLEAN : [name |-> Realm, sync |-> s] \in DomainRow
  BY DEF DomainRow, Dns!DnsAssumption
<1>2. RealmRow \in DomainRow
  BY <1>1 DEF RealmRow
<1>3. None \notin DomainRow
  BY DEF DomainRow, Dns!DnsAssumption
<1>4. RealmRow.name = Realm
  BY DEF RealmRow
<1>. QED
  BY <1>2, <1>3, <1>4

\* What a push sees of a domain, its own row in place of the one it may have written.
LEMMA SeenRows ==
    ASSUME Dns!DnsAssumption, DnsInv, NEW mark, MarkOK(mark)
    PROVE  /\ \A d \in Domains : Dns!Seen(mark, d) \in DomainRow \union {None}
           /\ \A d \in Domains : domain[d] # None => Dns!Seen(mark, d) \in DomainRow
<1>1. CASE mark = Dns!NoMark
  BY <1>1 DEF Dns!Seen, DnsInv, TablesType, Dns!NoMark, Dns!DnsAssumption
<1>2. CASE mark # Dns!NoMark
  BY <1>2, RealmRowIs DEF Dns!Seen, DnsInv, TablesType, MarkOK, Mark
<1>. QED
  BY <1>1, <1>2

LEMMA MarksOfTheRealm ==
    ASSUME Dns!DnsAssumption, DnsInv, NEW mark \in Dns!RealmMarks \union {Dns!NoMark}
    PROVE  MarkOK(mark)
<1>1. CASE mark = Dns!NoMark
  BY <1>1 DEF MarkOK
<1>2. CASE mark \in Dns!RealmMarks
  <2>1. CASE Dns!Named(Realm) = {}
    BY <1>2, <2>1 DEF Dns!RealmMarks, MarkOK, Mark, RealmRow, Dns!Named
  <2>2. CASE Dns!Named(Realm) # {}
    BY <1>2, <2>2 DEF Dns!RealmMarks, MarkOK, Mark, RealmRow, Dns!Named, DnsInv, TablesType, NamesDiffer
  <2>. QED
    BY <2>1, <2>2
<1>. QED
  BY <1>1, <1>2

LEMMA CommittedTables ==
    ASSUME Dns!DnsAssumption, DnsInv, NEW mark, MarkOK(mark), Dns!Committed(mark),
           UNCHANGED record, recent' \subseteq recent, fresh' \subseteq fresh
    PROVE  TablesType'
<1>1. CASE mark = Dns!NoMark
  BY <1>1 DEF Dns!Committed, DnsInv, TablesType, NamesDiffer
<1>2. CASE mark # Dns!NoMark
  <2>1. /\ mark.domain \in Domains /\ mark.row = RealmRow
        /\ \A d \in Domains : domain[d] # None /\ domain[d].name = Realm => d = mark.domain
    BY <1>2 DEF MarkOK, Mark
  <2>2. RealmRow \in DomainRow /\ RealmRow # None /\ RealmRow.name = Realm
    BY RealmRowIs
  <2>3. domain' = [domain EXCEPT ![mark.domain] = RealmRow]
    BY <1>2, <2>1 DEF Dns!Committed
  <2>4. /\ domain' \in [Domains -> DomainRow \union {None}]
        /\ \A d \in Domains : domain'[d] = IF d = mark.domain THEN RealmRow ELSE domain[d]
    BY <2>1, <2>2, <2>3 DEF DnsInv, TablesType
  <2>5. NamesDiffer'
    BY <2>1, <2>2, <2>4 DEF DnsInv, TablesType, NamesDiffer
  <2>6. \A r \in DnsRecords : record[r] # None => record[r].domain \in Domains
    BY DEF DnsInv, TablesType, RecordRow
  <2>. QED
    BY <2>2, <2>4, <2>5, <2>6 DEF DnsInv, TablesType
<1>. QED
  BY <1>1, <1>2

LEMMA FastOpsTypes ==
    ASSUME Dns!DnsAssumption, DnsInv, NEW mark, MarkOK(mark)
    PROVE  Dns!FastOps(mark) \subseteq Dns!Op /\ \A o \in Dns!FastOps(mark) : o.value \in DnsValues
<1>. SUFFICES ASSUME NEW o \in Dns!FastOps(mark) PROVE o \in Dns!Op /\ o.value \in DnsValues
  OBVIOUS
<1>1. PICK r \in recent : o = [op |-> IF r \in fresh THEN "post" ELSE "put", rec |-> r,
                              zone |-> Dns!Seen(mark, record[r].domain).name, value |-> record[r].value]
  BY DEF Dns!FastOps
<1>2. /\ r \in DnsRecords /\ record[r] \in RecordRow
      /\ record[r].domain \in Domains /\ record[r].value \in DnsValues /\ domain[record[r].domain] # None
  BY DEF DnsInv, TablesType, RecordRow
<1>3. Dns!Seen(mark, record[r].domain).name \in Names
  BY <1>2, SeenRows DEF DomainRow
<1>. QED
  BY <1>1, <1>2, <1>3 DEF Dns!Op

LEMMA ToSyncTypes ==
    ASSUME Dns!DnsAssumption, DnsInv, NEW mark, MarkOK(mark)
    PROVE  Dns!ToSync(mark) \subseteq [domain : Domains, name : Names]
BY SeenRows DEF Dns!ToSync, DomainRow

LEMMA FullOpsTypes ==
    ASSUME DnsInv, NEW t \in [domain : Domains, name : Names]
    PROVE  Dns!FullOps(t) \subseteq Dns!Op /\ \A o \in Dns!FullOps(t) : o.op # "delete" => o.value \in DnsValues
<1>. SUFFICES ASSUME NEW o \in Dns!FullOps(t)
              PROVE  o \in Dns!Op /\ (o.op # "delete" => o.value \in DnsValues)
  OBVIOUS
<1>1. PICK r \in DnsRecords :
        \/ \E kind \in {"post", "put"} :
              /\ record[r] # None
              /\ o = [op |-> kind, rec |-> r, zone |-> t.name, value |-> record[r].value]
        \/ o = [op |-> "delete", rec |-> r, zone |-> t.name, value |-> None]
  BY DEF Dns!FullOps, Dns!Extra
<1>2. record[r] # None => record[r].value \in DnsValues
  BY DEF DnsInv, TablesType, RecordRow
<1>. QED
  BY <1>1, <1>2 DEF Dns!Op

LEMMA BeginKeepsTypes ==
    ASSUME Dns!DnsAssumption, DnsInv, NEW mark \in Dns!RealmMarks \union {Dns!NoMark},
           Dns!BeginFull(mark) \/ Dns!BeginFast(mark) \/ Dns!BeginFails(mark)
    PROVE  DnsInv'
<1>0. MarkOK(mark)
  BY MarksOfTheRealm
<1>1. FlagsOK'
  BY Zenon DEF DnsInv, FlagsOK, Dns!BeginFull, Dns!BeginFast, Dns!BeginFails, Dns!Ensured
<1>2. WritingType' /\ RemoteType'
  BY DEF DnsInv, WritingType, RemoteType, Dns!BeginFull, Dns!BeginFast, Dns!BeginFails
<1>3. dnsEvents' \in 0 .. MaxDnsEvents
  BY DnsTicks DEF DnsInv, Dns!BeginFull, Dns!BeginFast, Dns!BeginFails
<1>4. CASE Dns!Committed(mark) /\ UNCHANGED <<record, recent, fresh, pass, marking>> /\ Dns!Idle
  <2>1. TablesType'
    BY <1>0, <1>4, CommittedTables
  <2>2. PassType' /\ MarkOK(marking)'
    BY <1>4 DEF DnsInv, PassType, MarkOK, Dns!Idle
  <2>. QED
    BY <1>1, <1>2, <1>3, <2>1, <2>2 DEF DnsInv
<1>5. CASE /\ UNCHANGED <<domain, record, recent, fresh>>
           /\ marking' = mark /\ pass' \in Pass /\ pass'.on
           /\ \A o \in pass'.ops : o.op # "delete" => o.value \in DnsValues
  <2>1. TablesType'
    BY <1>5 DEF DnsInv, TablesType, NamesDiffer
  <2>2. PassType' /\ MarkOK(marking)'
    BY <1>0, <1>5 DEF DnsInv, PassType, MarkOK
  <2>. QED
    BY <1>1, <1>2, <1>3, <2>1, <2>2 DEF DnsInv
<1>6. CASE Dns!BeginFails(mark)
  <2>1. TablesType'
    BY <1>6 DEF DnsInv, TablesType, NamesDiffer, Dns!BeginFails, Dns!tables
  <2>2. PassType' /\ MarkOK(marking)'
    BY <1>6 DEF DnsInv, PassType, MarkOK, Dns!BeginFails, Dns!tables
  <2>. QED
    BY <1>1, <1>2, <1>3, <2>1, <2>2 DEF DnsInv
<1>7. CASE Dns!BeginFull(mark)
  <2>1. CASE Dns!ToSync(mark) = {}
    BY <1>4, <1>7, <2>1 DEF Dns!BeginFull
  <2>2. CASE Dns!ToSync(mark) # {}
    <3>1. pass' = [todo |-> Dns!ToSync(mark), ops |-> {}, on |-> TRUE, full |-> TRUE]
      BY <1>7, <2>2 DEF Dns!BeginFull, Dns!NoPass
    <3>2. pass' \in Pass
      BY <1>0, <3>1, ToSyncTypes DEF Pass
    <3>. QED
      BY <1>5, <1>7, <2>2, <3>1, <3>2 DEF Dns!BeginFull
  <2>. QED
    BY <2>1, <2>2
<1>8. CASE Dns!BeginFast(mark)
  <2>1. CASE ~synced
    BY <1>4, <1>8, <2>1 DEF Dns!BeginFast
  <2>2. CASE synced
    <3>1. pass' = [todo |-> {}, ops |-> Dns!FastOps(mark), on |-> TRUE, full |-> FALSE]
      BY <1>8, <2>2 DEF Dns!BeginFast, Dns!NoPass
    <3>2. pass' \in Pass /\ \A o \in pass'.ops : o.value \in DnsValues
      BY <1>0, <3>1, FastOpsTypes DEF Pass
    <3>. QED
      BY <1>5, <1>8, <2>2, <3>1, <3>2 DEF Dns!BeginFast
  <2>. QED
    BY <2>1, <2>2
<1>. QED
  BY <1>6, <1>7, <1>8

LEMMA PushKeepsTypes ==
    ASSUME Dns!DnsAssumption, DnsInv,
           \/ \E t \in pass.todo : Dns!Diff(t) \/ \E created \in BOOLEAN : Dns!DiffFails(t, created)
           \/ \E o \in pass.ops : Dns!Push(o) \/ Dns!PushLost(o)
    PROVE  DnsInv'
<1>0. /\ pass \in Pass /\ pass.todo \subseteq [domain : Domains, name : Names] /\ pass.ops \subseteq Dns!Op
      /\ (pass.todo # {} \/ pass.ops # {} => pass.on)
  BY DEF DnsInv, PassType, Pass, Dns!NoPass
<1>. USE DEF Dns!tables
<1>4. ASSUME pass' \in Pass, pass'.on,
             \A o \in pass'.ops : o.op # "delete" => o.value \in DnsValues, RemoteType',
             UNCHANGED <<domain, record, recent, fresh, writing, marking, initialized, due, synced>>,
             dnsEvents' = dnsEvents \/ Dns!Event
      PROVE  DnsInv'
  <2>1. PassType'
    BY <1>4 DEF PassType
  <2>2. FlagsOK'
    BY Zenon, <1>4 DEF DnsInv, FlagsOK
  <2>3. TablesType' /\ WritingType' /\ MarkOK(marking)'
    BY <1>4 DEF DnsInv, TablesType, NamesDiffer, WritingType, MarkOK
  <2>4. dnsEvents' \in 0 .. MaxDnsEvents
    BY <1>4, DnsTicks DEF DnsInv
  <2>. QED
    BY <1>4, <2>1, <2>2, <2>3, <2>4 DEF DnsInv
<1>5. ASSUME NEW t \in pass.todo, Dns!Diff(t) PROVE DnsInv'
  <2>1. /\ pass' = [pass EXCEPT !.todo = @ \ {t}, !.ops = Dns!FullOps(t)]
        /\ zones' = zones \union {t.name} /\ UNCHANGED remote
    BY Zenon, <1>5 DEF Dns!Diff
  <2>4. t \in [domain : Domains, name : Names]
    BY <1>0
  <2>2. pass' \in Pass /\ pass'.on /\ \A o \in pass'.ops : o.op # "delete" => o.value \in DnsValues
    BY <1>0, <2>1, <2>4, FullOpsTypes DEF Pass
  <2>3. RemoteType'
    BY <2>1, <2>4 DEF DnsInv, RemoteType
  <2>5. /\ UNCHANGED <<domain, record, recent, fresh, writing, marking, initialized, due, synced>>
        /\ dnsEvents' = dnsEvents
    BY Zenon, <1>5 DEF Dns!Diff
  <2>. QED
    BY <1>4, <2>2, <2>3, <2>5
<1>6. ASSUME NEW t \in pass.todo, NEW created \in BOOLEAN, Dns!DiffFails(t, created) PROVE DnsInv'
  <2>1. /\ pass' = [pass EXCEPT !.todo = @ \ {t}]
        /\ zones' = zones \/ zones' = zones \union {t.name}
        /\ UNCHANGED remote
    BY Zenon, <1>6 DEF Dns!DiffFails
  <2>4. t \in [domain : Domains, name : Names]
    BY <1>0
  <2>2. pass' \in Pass /\ pass'.on /\ pass'.ops = pass.ops
    BY <1>0, <2>1 DEF Pass
  <2>3. RemoteType'
    BY <2>1, <2>4 DEF DnsInv, RemoteType
  <2>. QED
    BY <1>4, <1>6, <2>2, <2>3 DEF DnsInv, PassType, Dns!DiffFails
<1>7. ASSUME NEW o \in pass.ops, Dns!Push(o) \/ Dns!PushLost(o) PROVE DnsInv'
  <2>1. pass' = [pass EXCEPT !.ops = @ \ {o}] /\ UNCHANGED zones
    BY <1>7 DEF Dns!Push, Dns!PushLost
  <2>2. pass' \in Pass /\ pass'.on /\ pass'.ops \subseteq pass.ops
    BY <1>0, <2>1 DEF Pass
  <2>3. RemoteType'
    <3>1. CASE Dns!Push(o)
      <4>1. o \in Dns!Op /\ o.rec \in DnsRecords /\ (o.op # "delete" => o.value \in DnsValues)
        BY <1>0 DEF Dns!Op, DnsInv, PassType
      <4>2. \/ Dns!Accepted(o) = None
            \/ Dns!Accepted(o) \in [zone : Names, value : DnsValues] /\ Dns!Accepted(o).zone \in zones
        <5>1. /\ remote[o.rec] = None \/ remote[o.rec] \in [zone : Names, value : DnsValues]
              /\ remote[o.rec] # None => remote[o.rec].zone \in zones
              /\ o.zone \in Names /\ o.op \in {"post", "put", "delete"}
          BY <4>1 DEF Dns!Op, DnsInv, RemoteType
        <5>2. /\ o.op = "post" =>
                   \/ o.zone \in zones /\ Dns!Accepted(o) = [zone |-> o.zone, value |-> o.value]
                   \/ Dns!Accepted(o) = remote[o.rec]
              /\ o.op = "put" =>
                   \/ /\ remote[o.rec] # None /\ remote[o.rec].zone = o.zone
                      /\ Dns!Accepted(o) = [zone |-> o.zone, value |-> o.value]
                   \/ Dns!Accepted(o) = remote[o.rec]
              /\ o.op = "delete" => Dns!Accepted(o) \in {None, remote[o.rec]}
          BY DEF Dns!Accepted
        <5>. QED
          BY <4>1, <5>1, <5>2
      <4>3. remote' = [remote EXCEPT ![o.rec] = Dns!Accepted(o)]
        BY <3>1 DEF Dns!Push
      <4>. QED
        BY <2>1, <4>1, <4>2, <4>3 DEF DnsInv, RemoteType
    <3>2. CASE Dns!PushLost(o)
      BY <2>1, <3>2 DEF Dns!PushLost, DnsInv, RemoteType
    <3>. QED
      BY <1>7, <3>1, <3>2
  <2>4. /\ UNCHANGED <<domain, record, recent, fresh, writing, marking, initialized, due, synced>>
        /\ dnsEvents' = dnsEvents \/ Dns!Event
    BY <1>7 DEF Dns!Push, Dns!PushLost
  <2>. QED
    BY <1>4, <2>2, <2>3, <2>4 DEF DnsInv, PassType
<1>. QED
  BY <1>5, <1>6, <1>7

LEMMA StepDnsInv ==
    ASSUME Dns!DnsAssumption, DnsInv, [Dns!Next]_(Dns!vars)
    PROVE  DnsInv'
<1>1. CASE Dns!End
  <2>1. FlagsOK'
    BY Zenon, <1>1 DEF DnsInv, FlagsOK, Dns!End
  <2>2. TablesType'
    <3>1. recent' \subseteq recent /\ fresh' \subseteq fresh
      BY <1>1 DEF Dns!End
    <3>. QED
      BY <1>1, <3>1, CommittedTables DEF DnsInv, Dns!End
  <2>3. WritingType' /\ RemoteType'
    BY <1>1 DEF DnsInv, WritingType, RemoteType, Dns!End
  <2>4. PassType' /\ MarkOK(marking)' /\ dnsEvents' \in 0 .. MaxDnsEvents
    BY <1>1 DEF DnsInv, PassType, Pass, MarkOK, Dns!End, Dns!NoPass
  <2>. QED
    BY <2>1, <2>2, <2>3, <2>4 DEF DnsInv
<1>2. CASE Dns!Restart
  <2>1. FlagsOK'
    BY Zenon, <1>2 DEF DnsInv, FlagsOK, Dns!Restart
  <2>2. TablesType' /\ WritingType' /\ RemoteType'
    BY <1>2 DEF DnsInv, TablesType, NamesDiffer, WritingType, RemoteType, Dns!Restart
  <2>3. PassType' /\ MarkOK(marking)' /\ dnsEvents' \in 0 .. MaxDnsEvents
    BY <1>2, DnsTicks DEF DnsInv, PassType, Pass, MarkOK, Dns!Restart, Dns!NoPass
  <2>. QED
    BY <2>1, <2>2, <2>3 DEF DnsInv
<1>3. CASE Dns!Tick \/ UNCHANGED Dns!vars
  <2>1. FlagsOK'
    BY Zenon, <1>3 DEF DnsInv, FlagsOK, Dns!Tick, Dns!vars
  <2>2. UNCHANGED <<domain, record, writing, recent, fresh, zones, remote, pass, marking, dnsEvents>>
    BY <1>3 DEF Dns!Tick, Dns!vars, Dns!tables
  <2>3. TablesType' /\ WritingType' /\ RemoteType'
    BY <2>2 DEF DnsInv, TablesType, NamesDiffer, WritingType, RemoteType
  <2>4. PassType' /\ MarkOK(marking)' /\ dnsEvents' \in 0 .. MaxDnsEvents
    BY <2>2 DEF DnsInv, PassType, MarkOK
  <2>. QED
    BY <2>1, <2>3, <2>4 DEF DnsInv
<1>4. CASE Dns!Users
  BY <1>4, DomainsKeepTypes, RecordsKeepTypes DEF Dns!Users
<1>5. CASE Dns!Service \/ Dns!Faults
  BY <1>1, <1>5, BeginKeepsTypes, PushKeepsTypes DEF Dns!Service, Dns!Faults
<1>. QED
  BY <1>1, <1>2, <1>3, <1>4, <1>5 DEF Dns!Next

\* Domains have different names, a record its domain, here and there, and a push
\* leaves nothing behind (user_api/dns/dm/models.py, dns_sync/service.py), whatever
\* is committed while it runs.
THEOREM DnsTypes == Dns!DnsAssumption /\ Dns!Spec => []Dns!TypeOK
<1>. SUFFICES ASSUME Dns!DnsAssumption PROVE Dns!Spec => []Dns!TypeOK
  OBVIOUS
<1>1. Dns!Init => DnsInv
  BY InitDnsInv
<1>2. DnsInv /\ [Dns!Next]_(Dns!vars) => DnsInv'
  BY StepDnsInv
<1>. QED
  BY <1>1, <1>2, DnsTypesHold, PTL DEF Dns!Spec

-----------------------------------------------------------------------------
\* In Records addresses, profiles and DNS are as they are by themselves.
LEMMA RecordsRunTheRest == RecordsSpec => Spec /\ Profiles!Spec /\ Dns!Spec
<1>1. RecordsInit => Init /\ Profiles!Init /\ Dns!Init
  BY DEF RecordsInit
<1>2. [RecordsNext]_recordsVars => [Next]_vars
  BY Zenon DEF RecordsNext, recordsVars, vars
<1>3. [RecordsNext]_recordsVars => [Profiles!Next]_Profiles!vars
  BY Zenon DEF RecordsNext, recordsVars, profiles, Profiles!vars
<1>4. [RecordsNext]_recordsVars => [Dns!Next]_Dns!vars
  BY Zenon DEF RecordsNext, recordsVars, dns, Dns!vars
<1>. QED
  BY <1>1, <1>2, <1>3, <1>4, PTL DEF RecordsSpec, Spec, Profiles!Spec, Dns!Spec

Focus == focus \in {"ipam", "dns", "profiles", "balancer", "stand"}

LEMMA FocusStays == RecordsSpec => []Focus
<1>1. RecordsInit => Focus
  BY DEF RecordsInit, Focus
<1>2. Focus /\ [RecordsNext]_recordsVars => Focus'
  BY DEF RecordsNext, recordsVars, Focus
<1>. QED
  BY <1>1, <1>2, PTL DEF RecordsSpec

\* Rows, requests and reports of all five parts are well formed, and what belongs
\* together agrees, if the discovery addresses are beside the range (run records).
COROLLARY TypesOKHolds == DiscoveryBeside /\ RecordsSpec => []TypesOK
<1>. SUFFICES ASSUME DiscoveryBeside PROVE RecordsSpec => []TypesOK
  OBVIOUS
<1>1. Focus /\ TypeOK /\ Dns!TypeOK /\ Profiles!TypeOK /\ Balancers!TypeOK /\ Bootstrap!TypeOK => TypesOK
  <2>. SUFFICES ASSUME Focus, TypeOK, Dns!TypeOK, Profiles!TypeOK, Balancers!TypeOK, Bootstrap!TypeOK
                PROVE  TypesOK
    OBVIOUS
  <2>1. CASE focus = "ipam"
    BY Zenon, <2>1 DEF TypesOK
  <2>2. CASE focus = "dns"
    BY Zenon, <2>2 DEF TypesOK
  <2>3. CASE focus = "profiles"
    BY Zenon, <2>3 DEF TypesOK
  <2>4. CASE focus = "balancer"
    BY Zenon, <2>4 DEF TypesOK
  <2>5. CASE focus = "stand"
    BY Zenon, <2>5 DEF TypesOK
  <2>. QED
    BY <2>1, <2>2, <2>3, <2>4, <2>5 DEF Focus
<1>2. Balancers!Spec => []Balancers!TypeOK
  BY BalancerTypes, RecordsAssumption DEF RecordsAssumption
<1>3. Dns!DnsAssumption /\ Profiles!ProfilesAssumption /\ Bootstrap!BootstrapAssumption
  BY RecordsAssumption DEF RecordsAssumption
<1>4. Spec => []TypeOK
  BY ListStaysWellFormed, PTL
<1>. QED
  BY <1>1, <1>2, <1>3, <1>4, FocusStays, RecordsRunTheRest, RecordsRunBalancers, RecordsRunBootstrap,
     DnsTypes, ProfileTypes, StandTypes, PTL
=============================================================================
