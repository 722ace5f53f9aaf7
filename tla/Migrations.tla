----------------------------- MODULE Migrations ----------------------------
(***************************************************************************)
(* "irmik migrate" (irmik/migrate, internal/cli/migrate.go): deploys that  *)
(* bring the schema of one database up or down by the SQL files of a       *)
(* directory, while a developer creates more of them.                      *)
(*                                                                         *)
(* A version is the second its files were made in, 0 none.  golang-migrate *)
(* keeps the version in the database, dirty while its file runs, and lets  *)
(* one process at a time; the lock of SQLite, of one process, is left out. *)
(***************************************************************************)
EXTENDS Integers

CONSTANTS
    Names,          \* the developer gives to migrations
    Deploys,        \* processes of "irmik migrate up" and "down"
    StepFlags,      \* values of --steps
    Late,           \* migrations of a branch that may be merged at any time
    Nobody,         \* no process
    MaxSeconds      \* bound: seconds

Versions(files) == {f.version : f \in files}

ASSUME MigrateAssumption ==
    /\ MaxSeconds \in Nat /\ Nobody \notin Deploys /\ StepFlags \subseteq Int
    /\ Versions(Late) \subseteq Nat \ {0}

VARIABLES
    second,         \* the clock of the developer
    dir,            \* the files of migratePath
    creating,       \* the file Create has still to write
    applied,        \* the versions that are in the schema
    version, dirty, \* the table of golang-migrate
    lock,           \* the process that holds its lock
    deploy,         \* each process
    unrun           \* history: versions left that had no file to run

sqlDatabase == <<applied, version, dirty, lock, unrun>>
developer == <<second, dir, creating>>
migrateVars == <<developer, sqlDatabase, deploy>>

File(v, n, way) == [version |-> v, name |-> n, way |-> way]

Absent == [at |-> "idle", way |-> "up", limit |-> 0, files |-> {}, turn |-> 0]

MigrateInit ==
    /\ second = 1 /\ dir = {} /\ creating = {}
    /\ applied = {} /\ version = 0 /\ dirty = FALSE /\ lock = Nobody /\ unrun = {}
    /\ deploy = [d \in Deploys |-> Absent]

-----------------------------------------------------------------------------
(* "irmik migrate create", one at a time.                                  *)

SecondPasses ==
    /\ second < MaxSeconds /\ second' = second + 1
    /\ UNCHANGED <<dir, creating, sqlDatabase, deploy>>

\* variant: the time of a zone, which is not always later than before
FaultyCreate(n) ==
    /\ creating = {}
    /\ \E v \in 1 .. second : dir' = dir \cup {File(v, n, "up")} /\ creating' = {File(v, n, "down")}
    /\ UNCHANGED <<second, sqlDatabase, deploy>>

Create(n) ==
    /\ creating = {}
    /\ dir' = dir \cup {File(second, n, "up")} /\ creating' = {File(second, n, "down")}
    /\ UNCHANGED <<second, sqlDatabase, deploy>>

Created ==
    /\ creating # {} /\ dir' = dir \cup creating /\ creating' = {}
    /\ UNCHANGED <<second, sqlDatabase, deploy>>

\* The second file cannot be written, or the command is killed.
CreateFails ==
    /\ creating # {} /\ creating' = {}
    /\ UNCHANGED <<second, dir, sqlDatabase, deploy>>

\* Timestamps lie in the past, whoever made them.
Merge ==
    /\ \E m \in Late : /\ m.version <= second
                       /\ dir' = dir \cup {File(m.version, m.name, "up"), File(m.version, m.name, "down")}
    /\ UNCHANGED <<second, creating, sqlDatabase, deploy>>

-----------------------------------------------------------------------------
(* The commands, and Migrator: the way and number of migrations they ask   *)
(* golang-migrate for, -1 for all of them.                                 *)

Steps(n) == IF n > 0 THEN [way |-> "up", limit |-> n] ELSE [way |-> "down", limit |-> -n]

Up == [way |-> "up", limit |-> -1]

Down == [way |-> "down", limit |-> -1]

CmdMigrateUp(n) == IF n # 0 THEN Steps(n) ELSE Up

CmdMigrateDown(n) == IF n > 0 THEN Steps(-n) ELSE IF n < 0 THEN Steps(n) ELSE Down

cmdMigrate == {CmdMigrateUp(n) : n \in StepFlags} \cup {CmdMigrateDown(n) : n \in StepFlags}

Becomes(d, at) == deploy' = [deploy EXCEPT ![d].at = at] /\ UNCHANGED developer

Ends(d) == deploy' = [deploy EXCEPT ![d] = Absent] /\ UNCHANGED developer

\* Two files of one version are refused.
Open(files) == \A f, g \in files : f.version = g.version /\ f.way = g.way => f = g

\* The files are read once; those that come later are not seen.
OpenMigrator(d, cmd) ==
    /\ deploy[d].at = "idle" /\ Open(dir)
    /\ deploy' = [deploy EXCEPT ![d] = [Absent EXCEPT !.at = "open", !.way = cmd.way, !.limit = cmd.limit,
                                                    !.files = dir]]
    /\ UNCHANGED <<developer, sqlDatabase>>

\* Locked: another process, or what one left behind, makes it wait or fail.
Locks(d) ==
    /\ deploy[d].at = "open" /\ lock = Nobody /\ ~dirty
    /\ lock' = d /\ Becomes(d, "next")
    /\ UNCHANGED <<applied, version, dirty, unrun>>

\* The versions before and after the one of the database.
Known(d) == version = 0 \/ version \in Versions(deploy[d].files)

Ahead(d) == {v \in Versions(deploy[d].files) : v > version}

Behind(d) == {v \in Versions(deploy[d].files) : v < version}

Left(d) ==
    deploy[d].limit # 0 /\ IF deploy[d].way = "up" THEN Ahead(d) # {} ELSE version # 0

\* The version after the next migration.
Follows(d, v) ==
    IF deploy[d].way = "up"
    THEN v \in Ahead(d) /\ \A w \in Ahead(d) : v <= w
    ELSE v \in {0} \cup Behind(d) /\ \A w \in Behind(d) : w <= v

\* The table says dirty before the file runs.
Marks(d) ==
    /\ deploy[d].at = "next" /\ Known(d) /\ Left(d)
    /\ \E v \in {0} \cup Versions(deploy[d].files) :
        /\ Follows(d, v) /\ version' = v
        /\ deploy' = [deploy EXCEPT ![d].at = "run", ![d].turn = IF deploy[d].way = "up" THEN v ELSE version,
                                    ![d].limit = IF @ > 0 THEN @ - 1 ELSE @]
    /\ dirty' = TRUE
    /\ UNCHANGED <<developer, applied, lock, unrun>>

HasFile(d) == \E f \in deploy[d].files : f.version = deploy[d].turn /\ f.way = deploy[d].way

Runs(d) ==
    /\ deploy[d].at = "run"
    /\ IF HasFile(d)
       THEN /\ applied' = IF deploy[d].way = "up" THEN applied \cup {deploy[d].turn} ELSE applied \ {deploy[d].turn}
            /\ UNCHANGED unrun
       ELSE unrun' = unrun \cup {deploy[d].turn} /\ UNCHANGED applied
    /\ Becomes(d, "mark")
    /\ UNCHANGED <<version, dirty, lock>>

Cleans(d) ==
    /\ deploy[d].at = "mark" /\ dirty' = FALSE
    /\ deploy' = [deploy EXCEPT ![d].at = "next", ![d].turn = 0]
    /\ UNCHANGED <<developer, applied, version, lock, unrun>>

(* Nothing more to do.  Up and Down that did nothing say ErrNoChange,      *)
(* which the commands report as success; after others they read Status,    *)
(* which changes nothing.  --steps of more than there are is an error,     *)
(* after those there are.                                                  *)
Succeeds(d) ==
    /\ deploy[d].at = "next" /\ Known(d) /\ ~Left(d) /\ deploy[d].limit <= 0
    /\ lock' = Nobody /\ Ends(d)
    /\ UNCHANGED <<applied, version, dirty, unrun>>

(* The wait for the lock ends, the table is dirty, the version has no file *)
(* any more, there are fewer migrations than --steps, a statement fails,   *)
(* the process is killed: the lock is given back, the table stays.         *)
Aborts(d) ==
    /\ deploy[d].at # "idle"
    /\ lock' = IF lock = d THEN Nobody ELSE lock
    /\ Ends(d)
    /\ UNCHANGED <<applied, version, dirty, unrun>>

Migrates(d) ==
    \/ \E cmd \in cmdMigrate : OpenMigrator(d, cmd)
    \/ Locks(d) \/ Marks(d) \/ Runs(d) \/ Cleans(d) \/ Succeeds(d) \/ Aborts(d)

MigrateNext ==
    \/ SecondPasses \/ Created \/ CreateFails \/ Merge
    \/ \E n \in Names : Create(n)
    \/ \E d \in Deploys : Migrates(d)

MigrateSpec == MigrateInit /\ [][MigrateNext]_migrateVars

-----------------------------------------------------------------------------
\* Type invariant.
MigrateTypes ==
    /\ second \in 1 .. MaxSeconds
    /\ \A f \in dir \cup creating : f.version > 0 /\ f.way \in {"up", "down"}
    /\ applied \subseteq Versions(dir) /\ version \in {0} \cup Versions(dir) /\ dirty \in BOOLEAN
    /\ lock \in Deploys \cup {Nobody} /\ unrun \subseteq Versions(dir)
    /\ \A d \in Deploys : /\ deploy[d].at \in {"idle", "open", "next", "run", "mark"}
                          /\ deploy[d].files \subseteq dir

Merged == {m.version : m \in {l \in Late : File(l.version, l.name, "up") \in dir}}

(* A database that is not dirty has the migrations up to its version and   *)
(* no other, whichever deploys were killed, failed or overlapped, and with *)
(* whatever files they began; but for those whose down file was never      *)
(* written and those merged late, which Up may pass by: the version in the *)
(* names is the time they were made (migrate.go:137-171, 222-232).         *)
SchemaMatches ==
    ~dirty => \A v \in Versions(dir) \ (unrun \cup Merged) : v \in applied <=> v <= version

=============================================================================
