---------------------------- MODULE ProfileSetup ----------------------------
(***************************************************************************)
(* mem012 --create_profile: the role, the database, its grants and schema, *)
(* and the entry of config.toml are written one after another, by commands *)
(* that nothing keeps apart.                                               *)
(*                                                                         *)
(* A call without --target makes mem_<profile>; a call with --target adds  *)
(* its role to a database that is there.  A statement that fails starts    *)
(* the compensation: the statements that take back what the call has made, *)
(* in an order PostgreSQL accepts.  A statement may be refused, its answer *)
(* may be lost, and the command may be killed between any two of them.     *)
(***************************************************************************)
CONSTANTS
  Profiles,   (* names of profiles; mem_<p> is the database named for p      *)
  Share,      (* the profile of the shared memories, it may be no profile    *)
  Calls,      (* runs of the command, each of one run; bound: their number   *)
  None

Databases ==
  [by : Calls, public : BOOLEAN, connect : SUBSET Profiles,
   schema : {"empty", "prepared", "ready"}, tables : SUBSET Profiles]

ASSUME ProfileAssumption == None \notin Calls \cup Profiles \cup Databases

VARIABLES
  role,       (* role[p]: the call that has made it, whose password it has   *)
  database,   (* database[p]: mem_<p>, or None                               *)
  config,     (* the entries under [database] of config.toml                 *)
  call,       (* the progress of each run                                    *)
  session,    (* calls that hold a connection to their target database      *)
  overlapped  (* history: calls that read config.toml before another wrote it *)

setupVars == <<role, database, config, call, session, overlapped>>

Entries == [profile : Profiles, database : Profiles, by : Calls, serves : Calls]

Cleanup == {"terminate", "drop database", "drop owned", "revoke connect", "drop role"}

Over == {"done", "failed", "stuck", "dead"}

Statements ==
  {"check", "text", "schema", "create role", "create database", "revoke public",
   "grant connect", "prepare", "tables", "grant tables", "recheck", "write"} \cup Cleanup

Stages == {"idle"} \cup Statements \cup Over

ProfileTypeOK ==
  /\ role \in [Profiles -> Calls \cup {None}]
  /\ database \in [Profiles -> Databases \cup {None}]
  /\ config \subseteq Entries
  /\ call \in [Calls -> [stage : Stages, profile : Profiles \cup {None},
                         target : Profiles \cup {None}, serves : Calls \cup {None},
                         text : SUBSET Entries, lost : BOOLEAN]]
  /\ session \subseteq Calls
  /\ overlapped \subseteq Calls

Idle ==
  [stage |-> "idle", profile |-> None, target |-> None, serves |-> None,
   text |-> {}, lost |-> FALSE]

SetupInit ==
  /\ role = [p \in Profiles |-> None]
  /\ database = [p \in Profiles |-> None]
  /\ config = {}
  /\ call = [c \in Calls |-> Idle]
  /\ session = {}
  /\ overlapped = {}

-----------------------------------------------------------------------------
Own(c) == call[c].target = None

\* The database a call works on: mem_<profile>, or its target.
Place(c) == IF Own(c) THEN call[c].profile ELSE call[c].target

At(c, stage) == call[c].stage = stage

Exists(p) == database[p] # None

Ready(p) == Exists(p) /\ database[p].schema = "ready"

\* A database admits `share` or everyone else: mem_share by its name, each other
\* by the CHECK on the category of memory_units.
ScopeAgrees(profile, target) == profile = Share <=> target = Share

\* The role can log in and work: what its entry in config.toml promises.
CanConnect(p, d) ==
  /\ role[p] # None /\ Exists(d)
  /\ database[d].public \/ p \in database[d].connect \/ p = d

\* DROP ROLE is refused while the role owns a database or holds a privilege.
NothingDependsOn(p) ==
  /\ ~Exists(p)
  /\ \A d \in Profiles : Exists(d) => p \notin database[d].connect \cup database[d].tables

Listed(entries, p) == \E e \in entries : e.profile = p

\* What the statement of the stage needs; the server or the command's own check
\* refuses it otherwise.
Accepted(c) ==
  LET p == call[c].profile
      d == Place(c)
  IN CASE At(c, "check") -> role[p] = None /\ (Own(c) <=> ~Exists(d))
       [] At(c, "text") -> ~Listed(config, p)
       [] At(c, "schema") -> Ready(d) /\ ScopeAgrees(p, d)
       [] At(c, "create role") -> role[p] = None
       [] At(c, "create database") -> role[p] # None /\ ~Exists(d)
       [] call[c].stage \in {"revoke public", "grant connect", "prepare", "grant tables",
                             "drop owned", "revoke connect"} -> role[p] # None /\ Exists(d)
       [] At(c, "tables") -> CanConnect(p, d)
       [] At(c, "recheck") -> role[p] = c /\ CanConnect(p, d) /\ Ready(d)
       [] At(c, "drop database") ->
            \A other \in session \ {c} : Place(other) # d
       [] At(c, "drop role") -> NothingDependsOn(p)
       [] OTHER -> TRUE

\* The statement after an accepted one.
Following(c) ==
  CASE At(c, "check") -> "text"
    [] At(c, "text") -> IF Own(c) THEN "create role" ELSE "schema"
    [] At(c, "schema") -> "create role"
    [] At(c, "create role") -> IF Own(c) THEN "create database" ELSE "grant connect"
    [] At(c, "create database") -> "revoke public"
    [] At(c, "revoke public") -> "grant connect"
    [] At(c, "grant connect") -> IF Own(c) THEN "prepare" ELSE "grant tables"
    [] At(c, "prepare") -> "tables"
    [] At(c, "grant tables") -> "recheck"
    [] call[c].stage \in {"tables", "recheck"} -> "write"
    [] At(c, "write") -> "done"
    [] At(c, "terminate") -> "drop database"
    [] At(c, "drop owned") -> "revoke connect"
    [] call[c].stage \in {"drop database", "revoke connect"} -> "drop role"
    [] OTHER -> "failed"

\* Mutants: role_created is set before the statement; only after the next one.
RoleTried(c) == call[c].stage \notin {"check", "text", "schema"}

RoleMadeLate(c) ==
  call[c].stage \notin {"check", "text", "schema", "create role", "create database"}

\* role_created.
RoleMade(c) == call[c].stage \notin {"check", "text", "schema", "create role"}

\* Mutant: database_created is set when the grants are done.
DatabaseGranted(c) == Own(c) /\ call[c].stage \in {"prepare", "tables", "write"}

\* database_created.
DatabaseMade(c) ==
  Own(c) /\ call[c].stage \in {"revoke public", "grant connect", "prepare", "tables", "write"}

\* The statement after a failed one: the first of the compensation for what has
\* been made; an error of the compensation ends it.
OnError(c) ==
  IF call[c].stage \in Cleanup THEN "stuck"
  ELSE IF DatabaseMade(c) THEN "terminate"
  ELSE IF ~RoleMade(c) THEN "failed"
  ELSE IF Own(c) THEN "drop role"
  ELSE IF At(c, "grant connect") THEN "revoke connect"
  ELSE "drop owned"

\* The call goes on; the text it has read is of use up to the writing only.
Turn(c, stage) ==
  [call[c] EXCEPT !.stage = stage, !.text = IF stage \in Cleanup \cup Over THEN {} ELSE @]

Proceed(c) == call' = [call EXCEPT ![c] = Turn(c, Following(c))]

\* The statement has been executed; its answer may be lost, an error for the call.
Answer(c) ==
  \/ Proceed(c)
  \/ call' = [call EXCEPT ![c] = [Turn(c, OnError(c)) EXCEPT !.lost = TRUE]]

\* Between the reading and the writing of config.toml.
HoldsText(c) == call[c].stage \in Statements \ (Cleanup \cup {"check", "text"})

Executes(c, stage) == At(c, stage) /\ Accepted(c)

-----------------------------------------------------------------------------
\* main has loaded config.toml when run() asks it for the profile.
Start(c, p, target) ==
  /\ At(c, "idle")
  /\ call' = [call EXCEPT ![c].profile = p, ![c].target = target,
                          ![c].stage = IF Listed(config, p) THEN "failed" ELSE "check"]
  /\ UNCHANGED <<role, database, config, session, overlapped>>

\* Mutant: the name of the owner instead of the database that was found.
CheckOwner(c) ==
  /\ Executes(c, "check")
  /\ call' = [call EXCEPT ![c].stage = Following(c), ![c].serves = Place(c)]
  /\ UNCHANGED <<role, database, config, session, overlapped>>

\* ensure_profile_admin_resources_absent(), ensure_shared_profile_target().
Check(c) ==
  /\ Executes(c, "check")
  /\ call' = [call EXCEPT ![c].stage = Following(c),
                          ![c].serves = IF Own(c) THEN c ELSE database[Place(c)].by]
  /\ UNCHANGED <<role, database, config, session, overlapped>>

\* The text the call will write back is made here, before the database is.
ReadText(c) ==
  /\ Executes(c, "text")
  /\ call' = [call EXCEPT ![c].stage = Following(c), ![c].text = config]
  /\ overlapped' = overlapped \cup
       IF \E other \in Calls : HoldsText(other)
       THEN {c} \cup {other \in Calls : HoldsText(other)} ELSE {}
  /\ UNCHANGED <<role, database, config, session>>

CheckSchema(c) ==
  /\ Executes(c, "schema")
  /\ Proceed(c)
  /\ session' = session \cup {c}
  /\ UNCHANGED <<role, database, config, overlapped>>

CreateRole(c) ==
  /\ Executes(c, "create role")
  /\ role' = [role EXCEPT ![call[c].profile] = c]
  /\ Answer(c)
  /\ UNCHANGED <<database, config, session, overlapped>>

CreateDatabase(c) ==
  /\ Executes(c, "create database")
  /\ database' = [database EXCEPT ![call[c].profile] =
       [by |-> c, public |-> TRUE, connect |-> {}, schema |-> "empty", tables |-> {}]]
  /\ Answer(c)
  /\ UNCHANGED <<role, config, session, overlapped>>

RevokePublic(c) ==
  /\ Executes(c, "revoke public")
  /\ database' = [database EXCEPT ![Place(c)].public = FALSE]
  /\ Answer(c)
  /\ UNCHANGED <<role, config, session, overlapped>>

GrantConnect(c) ==
  /\ Executes(c, "grant connect")
  /\ database' = [database EXCEPT ![Place(c)].connect = @ \cup {call[c].profile}]
  /\ Answer(c)
  /\ UNCHANGED <<role, config, session, overlapped>>

\* Extensions, graph and grants in one transaction.
Prepare(c) ==
  /\ Executes(c, "prepare")
  /\ database' = [database EXCEPT ![Place(c)].schema = "prepared"]
  /\ Answer(c)
  /\ UNCHANGED <<role, config, session, overlapped>>

\* The tables belong to the profile, which makes them statement by statement.
CreateTables(c) ==
  /\ Executes(c, "tables")
  /\ database' = [database EXCEPT ![Place(c)].schema = "ready",
                                  ![Place(c)].tables = @ \cup {call[c].profile}]
  /\ Answer(c)
  /\ UNCHANGED <<role, config, session, overlapped>>

\* Mutant: USAGE on the schema and the sequences, nothing on the tables.
GrantTablesNever(c) ==
  /\ Executes(c, "grant tables")
  /\ session' = session \cup {c}
  /\ Answer(c)
  /\ UNCHANGED <<role, database, config, overlapped>>

\* GRANT ... ON ALL TABLES reaches the tables that are there.
GrantTables(c) ==
  /\ Executes(c, "grant tables")
  /\ database' = [database EXCEPT ![Place(c)].tables =
       IF Ready(Place(c)) THEN @ \cup {call[c].profile} ELSE @]
  /\ session' = session \cup {c}
  /\ Answer(c)
  /\ UNCHANGED <<role, config, overlapped>>

Recheck(c) ==
  /\ Executes(c, "recheck")
  /\ Proceed(c)
  /\ session' = session \cup {c}
  /\ UNCHANGED <<role, database, config, overlapped>>

\* Mutant: entries are told apart by their database.
WriteConfigByDatabase(c) ==
  /\ Executes(c, "write")
  /\ config' = {e \in call[c].text : e.database # Place(c)} \cup
       {[profile |-> call[c].profile, database |-> Place(c), by |-> c,
         serves |-> call[c].serves]}
  /\ Proceed(c)
  /\ session' = session \ {c}
  /\ UNCHANGED <<role, database, overlapped>>

\* The whole file is replaced by the text read before, with the new entry.
WriteConfig(c) ==
  /\ Executes(c, "write")
  /\ config' = call[c].text \cup
       {[profile |-> call[c].profile, database |-> Place(c), by |-> c,
         serves |-> call[c].serves]}
  /\ Proceed(c)
  /\ session' = session \ {c}
  /\ UNCHANGED <<role, database, overlapped>>

-----------------------------------------------------------------------------
\* pg_terminate_backend() on every connection to the database.
Terminate(c) ==
  /\ Executes(c, "terminate")
  /\ session' = {other \in session : Place(other) # Place(c)}
  /\ Answer(c)
  /\ UNCHANGED <<role, database, config, overlapped>>

DropDatabase(c) ==
  /\ Executes(c, "drop database")
  /\ database' = [database EXCEPT ![call[c].profile] = None]
  /\ Answer(c)
  /\ UNCHANGED <<role, config, session, overlapped>>

\* Also the privileges on databases go: they are of shared objects.
DropOwned(c) ==
  /\ Executes(c, "drop owned")
  /\ database' = [d \in Profiles |->
       IF ~Exists(d) THEN None
       ELSE [database[d] EXCEPT !.connect = @ \ {call[c].profile},
               !.tables = IF d = Place(c) THEN @ \ {call[c].profile} ELSE @]]
  /\ session' = session \cup {c}
  /\ Answer(c)
  /\ UNCHANGED <<role, config, overlapped>>

RevokeConnect(c) ==
  /\ Executes(c, "revoke connect")
  /\ database' = [database EXCEPT ![Place(c)].connect = @ \ {call[c].profile}]
  /\ Answer(c)
  /\ UNCHANGED <<role, config, session, overlapped>>

DropRole(c) ==
  /\ Executes(c, "drop role")
  /\ role' = [role EXCEPT ![call[c].profile] = None]
  /\ Answer(c)
  /\ session' = session \ {c}
  /\ UNCHANGED <<database, config, overlapped>>

\* The statement is refused, for its condition or for any other reason.
Refused(c) ==
  /\ call[c].stage \in Statements
  /\ call' = [call EXCEPT ![c] = Turn(c, OnError(c))]
  /\ session' = IF OnError(c) \in Over THEN session \ {c} ELSE session
  /\ UNCHANGED <<role, database, config, overlapped>>

Killed(c) ==
  /\ call[c].stage \in Statements
  /\ call' = [call EXCEPT ![c] = Turn(c, "dead")]
  /\ session' = session \ {c}
  /\ UNCHANGED <<role, database, config, overlapped>>

SetupNext ==
  \E c \in Calls :
    \/ \E p \in Profiles, target \in Profiles \cup {None} : Start(c, p, target)
    \/ Check(c) \/ ReadText(c) \/ CheckSchema(c)
    \/ CreateRole(c) \/ CreateDatabase(c) \/ RevokePublic(c) \/ GrantConnect(c)
    \/ Prepare(c) \/ CreateTables(c) \/ GrantTables(c) \/ Recheck(c)
    \/ WriteConfig(c)
    \/ Terminate(c) \/ DropDatabase(c) \/ DropOwned(c) \/ RevokeConnect(c)
    \/ DropRole(c)
    \/ Refused(c) \/ Killed(c)

SetupSpec == SetupInit /\ [][SetupNext]_setupVars

-----------------------------------------------------------------------------
\* A call whose database is being taken back, or has been.
Withdrawn(c) ==
  \/ call[c].stage \in Cleanup \cup {"failed", "stuck"}
  \/ At(c, "dead") /\ \A p \in Profiles : Exists(p) => database[p].by # c

\* The configuration names no half-made profile (create_profile.rs, run): the
\* role of every entry still has the password of the entry, and its database is
\* closed to others, complete and open to the role, unless the call that made
\* this database has itself failed after a --target found it ready.
EntriesUsable ==
  \A e \in config :
    /\ role[e.profile] = e.by
    /\ Withdrawn(e.serves) \/
         /\ Ready(e.database)
         /\ database[e.database].by = e.serves
         /\ ~database[e.database].public
         /\ e.profile \in database[e.database].connect \cap database[e.database].tables

\* A call that reports a failure without "cleanup failed" has left no database,
\* and no role but one whose CREATE ROLE had succeeded without the answer
\* arriving (cleanup_profile_admin_resources and its shared counterparts).
FailedCallLeavesNothing ==
  \A c \in Calls : At(c, "failed") =>
    /\ \A p \in Profiles : Exists(p) => database[p].by # c
    /\ \A p \in Profiles : role[p] = c => call[c].lost
    /\ \A e \in config : e.by # c

\* The compensation is never refused for what the set-up itself has left: with
\* every answer received, PostgreSQL accepts each of its statements, unless
\* another session has connected since Terminate, or the target is gone.
CleanupAccepted ==
  \A c \in Calls :
    call[c].stage \in Cleanup /\ ~call[c].lost =>
      \/ Accepted(c)
      \/ At(c, "drop database") /\ session # {}
      \/ ~Own(c) /\ Withdrawn(call[c].serves)

\* What exists is taken away by the compensation of the call that has made it,
\* and nothing else: no role gets another password, no database another maker
\* or an earlier schema (docs/create_new_db.md: --target never rebuilds).
OnlyItsMakerUndoes ==
  [][\A p \in Profiles :
       /\ role[p] # None /\ role'[p] # role[p] =>
            role'[p] = None /\ At(role[p], "drop role")
       /\ Exists(p) /\ database'[p] = None => At(database[p].by, "drop database")
       /\ Exists(p) /\ database'[p] # None =>
            /\ database'[p].by = database[p].by
            /\ database[p].schema = "ready" => database'[p].schema = "ready"]_setupVars

\* A call that reports success has its entry in config.toml for good
\* (docs/create_new_db.md: the command adds the connection string), if no other
\* call held a text of the file while it did.
SuccessIsRecorded ==
  \A c \in Calls : At(c, "done") /\ c \notin overlapped => \E e \in config : e.by = c
=============================================================================
