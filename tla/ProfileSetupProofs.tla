------------------------- MODULE ProfileSetupProofs -------------------------
(***************************************************************************)
(* The set-up of profiles, for any number of names and of calls.           *)
(***************************************************************************)
EXTENDS ProfileSetup, TLAPS

CallRecords ==
  [stage : Stages, profile : Profiles \cup {None}, target : Profiles \cup {None},
   serves : Calls \cup {None}, text : SUBSET Entries, lost : BOOLEAN]

\* The role is there and is the call's own.
Made ==
  {"create database", "revoke public", "grant connect", "prepare", "tables",
   "grant tables", "recheck", "write", "done"} \cup Cleanup

\* The database of an owner is there and is its own.
Making ==
  {"revoke public", "grant connect", "prepare", "tables", "write", "done",
   "terminate", "drop database"}

Checked == (Statements \ {"check"}) \cup {"done"}

\* An owner that has tried to make its database and will not try again.
Began(c) ==
  Own(c) /\ call[c].stage \in Making \cup Cleanup \cup Over

\* Which stages the two forms of the command have.
Kinds ==
  \A c \in Calls :
    /\ call[c].stage # "idle" => call[c].profile \in Profiles
    /\ call[c].stage \in {"create database", "revoke public", "prepare", "tables",
                          "terminate", "drop database"} => Own(c)
    /\ call[c].stage \in {"schema", "grant tables", "recheck", "drop owned",
                          "revoke connect"} => ~ Own(c)

RolesKnown ==
  /\ \A c \in Calls : call[c].stage \in Made => role[call[c].profile] = c
  /\ \A p \in Profiles : role[p] # None =>
       /\ call[role[p]].profile = p
       /\ \/ call[role[p]].stage \in Made \cup {"stuck", "dead"}
          \/ At(role[p], "failed") /\ call[role[p]].lost

MakersKnown ==
  /\ \A c \in Calls : Own(c) /\ call[c].stage \in Making =>
       Exists(call[c].profile) /\ database[call[c].profile].by = c
  /\ \A p \in Profiles : Exists(p) =>
       LET c == database[p].by IN
       /\ Own(c) /\ call[c].profile = p /\ role[p] = c
       /\ call[c].stage \in Making \cup {"drop role", "stuck", "dead"}
       /\ At(c, "drop role") => call[c].lost

\* A database is closed before it has a schema.
Closed == \A p \in Profiles : Exists(p) /\ database[p].schema # "empty" => ~ database[p].public

\* How far an owner has come with its database.
OwnerProgress(c) ==
  LET d == database[call[c].profile] IN
  Own(c) /\ call[c].stage \in Making =>
    /\ call[c].stage \in {"revoke public", "grant connect", "prepare"} => d.schema = "empty"
    /\ call[c].stage \in {"grant connect", "prepare", "tables", "write", "done"} => ~ d.public
    /\ call[c].stage \in {"prepare", "tables", "write", "done"} => call[c].profile \in d.connect
    /\ call[c].stage \in {"write", "done"} => d.schema = "ready" /\ call[c].profile \in d.tables

OwnersProgress == \A c \in Calls : OwnerProgress(c)

\* Whose database a call works on, and how far a call with --target has come,
\* as long as this database is there.
ServedKnown ==
  \A c \in Calls : call[c].stage \in Checked =>
    /\ Own(c) => call[c].serves = c
    /\ ~ Own(c) =>
         /\ call[c].serves \in Calls /\ Began(call[c].serves)
         /\ call[call[c].serves].profile = call[c].target

GuestProgress(c) ==
  LET d == database[call[c].target] IN
  ~ Own(c) /\ call[c].stage \in Checked /\ Exists(call[c].target) /\ d.by = call[c].serves =>
    /\ call[c].stage \in {"create role", "grant connect", "grant tables", "recheck", "write", "done"}
         => d.schema = "ready"
    /\ call[c].stage \in {"grant tables", "recheck", "write", "done"} => call[c].profile \in d.connect
    /\ call[c].stage \in {"recheck", "write", "done"} => call[c].profile \in d.tables

GuestsProgress == \A c \in Calls : GuestProgress(c)

\* Privileges are those that the call which has made the role has given to it.
PrivilegesKnown ==
  \A d \in Profiles : Exists(d) =>
    /\ \A q \in database[d].connect \cup database[d].tables :
         /\ role[q] \in Calls /\ Place(role[q]) = d
         /\ call[role[q]].stage \notin {"create database", "revoke public"}
         /\ At(role[q], "drop role") => call[role[q]].lost
    /\ \A q \in database[d].tables :
         /\ ~ At(role[q], "grant connect")
         /\ At(role[q], "revoke connect") => call[role[q]].lost

\* Entries are of calls that are done.
EntryOf(e) ==
  /\ At(e.by, "done") /\ call[e.by].profile = e.profile
  /\ Place(e.by) = e.database /\ call[e.by].serves = e.serves

EntriesKnown ==
  /\ \A e \in config : EntryOf(e)
  /\ \A c \in Calls : \A e \in call[c].text : EntryOf(e)

\* Who has read the file while nobody else had, finds its entry in every later
\* reading.
TextsKnown ==
  /\ \A c, o \in Calls : c # o /\ HoldsText(c) /\ HoldsText(o) => c \in overlapped
  /\ \A c \in Calls : At(c, "done") /\ c \notin overlapped =>
       /\ \E e \in config : e.by = c
       /\ \A o \in Calls : HoldsText(o) => \E e \in call[o].text : e.by = c

SetupInv ==
  /\ ProfileTypeOK
  /\ Kinds /\ RolesKnown /\ MakersKnown /\ Closed /\ OwnersProgress
  /\ ServedKnown /\ GuestsProgress /\ PrivilegesKnown
  /\ EntriesKnown /\ TextsKnown

-----------------------------------------------------------------------------
(* What the invariant says of the properties                               *)

LEMMA NoneIsNoCall == None \notin Calls
  BY ProfileAssumption

LEMMA NoneIsNothing == None \notin Calls /\ None \notin Profiles /\ None \notin Databases
  BY ProfileAssumption

\* Where a served database is gone, its maker has failed.
LEMMA ServedOrWithdrawn ==
  ASSUME SetupInv, NEW c \in Calls, Began(c),
         ~ (Exists(call[c].profile) /\ database[call[c].profile].by = c)
  PROVE  Withdrawn(c)
  <1>1. call[c].stage \notin Making
    BY DEF SetupInv, MakersKnown, Began
  <1>2. ASSUME NEW p \in Profiles, Exists(p), database[p].by = c
        PROVE  FALSE
    BY <1>2 DEF SetupInv, MakersKnown
  <1>3. call[c].stage \in Cleanup \cup {"failed", "stuck", "dead"}
    BY <1>1 DEF Began, Over, Making
  <1>. QED
    BY <1>2, <1>3 DEF Withdrawn, At

LEMMA UsableFollows == SetupInv => EntriesUsable
  <1>. SUFFICES ASSUME SetupInv, NEW e \in config
                PROVE  /\ role[e.profile] = e.by
                       /\ Withdrawn(e.serves) \/
                            /\ Ready(e.database)
                            /\ database[e.database].by = e.serves
                            /\ ~database[e.database].public
                            /\ e.profile \in database[e.database].connect \cap database[e.database].tables
    BY DEF EntriesUsable
  <1>. DEFINE c == e.by
  <1>1. /\ c \in Calls /\ call[c].stage = "done" /\ call[c].profile = e.profile
        /\ Place(c) = e.database /\ call[c].serves = e.serves
        /\ e.database \in Profiles /\ e.serves \in Calls
    BY DEF SetupInv, ProfileTypeOK, Entries, EntriesKnown, EntryOf, At
  <1>2. role[e.profile] = c
    BY <1>1 DEF SetupInv, RolesKnown, Made
  <1>3. CASE Own(c)
    <2>1. e.database = call[c].profile /\ e.serves = c
      BY <1>1, <1>3 DEF Place, SetupInv, ServedKnown, Checked
    <2>2. Exists(call[c].profile) /\ database[call[c].profile].by = c
      BY <1>1, <1>3 DEF SetupInv, MakersKnown, Making
    <2>3. LET d == database[call[c].profile] IN
            ~ d.public /\ call[c].profile \in d.connect /\ d.schema = "ready" /\ call[c].profile \in d.tables
      BY <1>1, <1>3 DEF SetupInv, OwnersProgress, OwnerProgress, Making
    <2>. QED
      BY <1>1, <1>2, <2>1, <2>2, <2>3 DEF Ready
  <1>4. CASE ~ Own(c)
    <2>1. e.database = call[c].target
      BY <1>1, <1>4 DEF Place
    <2>2. Began(e.serves) /\ call[e.serves].profile = e.database
      BY <1>1, <1>4, <2>1 DEF SetupInv, ServedKnown, Checked
    <2>3. CASE Exists(e.database) /\ database[e.database].by = e.serves
      <3>1. LET d == database[e.database] IN
              d.schema = "ready" /\ e.profile \in d.connect /\ e.profile \in d.tables
        BY <1>1, <1>4, <2>1, <2>3 DEF SetupInv, GuestsProgress, GuestProgress, Checked
      <3>2. ~ database[e.database].public
        BY <1>1, <2>3, <3>1 DEF SetupInv, Closed
      <3>. QED
        BY <1>2, <2>3, <3>1, <3>2 DEF Ready
    <2>4. CASE ~ (Exists(e.database) /\ database[e.database].by = e.serves)
      BY <1>1, <1>2, <2>2, <2>4, ServedOrWithdrawn
    <2>. QED
      BY <2>3, <2>4
  <1>. QED
    BY <1>3, <1>4

LEMMA FailedFollows == SetupInv => FailedCallLeavesNothing
  <1>. SUFFICES ASSUME SetupInv, NEW c \in Calls, At(c, "failed")
                PROVE  /\ \A p \in Profiles : Exists(p) => database[p].by # c
                       /\ \A p \in Profiles : role[p] = c => call[c].lost
                       /\ \A e \in config : e.by # c
    BY DEF FailedCallLeavesNothing
  <1>1. \A p \in Profiles : Exists(p) => database[p].by # c
    BY DEF SetupInv, MakersKnown, Making, At
  <1>2. ASSUME NEW p \in Profiles, role[p] = c
        PROVE  call[c].lost
    <2>1. role[p] # None
      BY <1>2, NoneIsNothing
    <2>2. call[c].stage \in Made \cup {"stuck", "dead"} \/ call[c].lost
      BY <1>2, <2>1 DEF SetupInv, RolesKnown
    <2>. QED
      BY <2>2 DEF Made, Cleanup, At
  <1>3. \A e \in config : e.by # c
    BY DEF SetupInv, EntriesKnown, EntryOf, At
  <1>. QED
    BY <1>1, <1>2, <1>3

LEMMA RecordedFollows == SetupInv => SuccessIsRecorded
  BY DEF SetupInv, TextsKnown, SuccessIsRecorded

LEMMA AcceptedFollows == SetupInv => CleanupAccepted
  <1>. SUFFICES ASSUME SetupInv, NEW c \in Calls, call[c].stage \in Cleanup, ~ call[c].lost,
                       ~ Accepted(c), ~ (~Own(c) /\ Withdrawn(call[c].serves))
                PROVE  At(c, "drop database") /\ session # {}
    BY DEF CleanupAccepted
  <1>1. call[c].profile \in Profiles /\ role[call[c].profile] = c
    BY DEF SetupInv, Kinds, RolesKnown, Made, Cleanup
  <1>2. CASE At(c, "terminate")
    BY <1>2 DEF Accepted, At
  <1>3. CASE At(c, "drop database")
    BY <1>3 DEF Accepted, At
  <1>4. CASE At(c, "drop owned") \/ At(c, "revoke connect")
    <2>1. ~ Own(c) /\ call[c].stage \in Checked
      BY <1>4 DEF SetupInv, Kinds, At, Checked, Statements, Cleanup
    <2>2. call[c].serves \in Calls /\ Began(call[c].serves) /\ call[call[c].serves].profile = call[c].target
      BY <2>1 DEF SetupInv, ServedKnown
    <2>3. Exists(call[c].target)
      BY <2>1, <2>2, ServedOrWithdrawn
    <2>. QED
      BY <1>1, <1>4, <2>1, <2>3, NoneIsNothing DEF Accepted, At, Place
  <1>5. CASE At(c, "drop role")
    <2>1. ~ Exists(call[c].profile)
      <3>1. Exists(call[c].profile) => database[call[c].profile].by = c
        BY <1>1 DEF SetupInv, MakersKnown
      <3>. QED
        BY <1>1, <1>5, <3>1 DEF SetupInv, MakersKnown
    <2>2. ASSUME NEW d \in Profiles, Exists(d)
          PROVE  call[c].profile \notin database[d].connect \cup database[d].tables
      BY <1>1, <1>5, <2>2 DEF SetupInv, PrivilegesKnown
    <2>. QED
      BY <1>5, <2>1, <2>2 DEF Accepted, At, NothingDependsOn
  <1>. QED
    BY <1>2, <1>3, <1>4, <1>5 DEF Cleanup, At

-----------------------------------------------------------------------------
(* The stages                                                              *)

\* The database a call finds when it checks.
Found(c) == IF Own(c) THEN c ELSE database[Place(c)].by

\* The call c goes on to a stage, and no other call does.
Goes(c, stage, lost) ==
  /\ call' \in [Calls -> CallRecords]
  /\ \A o \in Calls \ {c} : call'[o] = call[o]
  /\ call'[c].stage = stage /\ call'[c].lost = lost
  /\ call'[c].profile = call[c].profile /\ call'[c].target = call[c].target
  /\ call'[c].serves = IF At(c, "check") /\ stage = "text" THEN Found(c) ELSE call[c].serves
  /\ call'[c].text = IF stage \in Cleanup \cup Over THEN {}
                     ELSE IF At(c, "text") THEN config ELSE call[c].text

LEMMA TableTypes ==
  ASSUME SetupInv
  PROVE  /\ role \in [Profiles -> Calls \cup {None}]
         /\ database \in [Profiles -> Databases \cup {None}]
         /\ \A p \in Profiles : Exists(p) =>
              /\ database[p] \in Databases /\ database[p].by \in Calls
              /\ database[p].connect \subseteq Profiles /\ database[p].tables \subseteq Profiles
  BY DEF SetupInv, ProfileTypeOK, Exists, Databases

LEMMA CallTypes ==
  ASSUME ProfileTypeOK, NEW c \in Calls
  PROVE  /\ call \in [Calls -> CallRecords] /\ call[c] \in CallRecords
         /\ call[c].stage \in Stages /\ call[c].lost \in BOOLEAN
         /\ call[c].profile \in Profiles \cup {None} /\ call[c].target \in Profiles \cup {None}
         /\ call[c].serves \in Calls \cup {None} /\ call[c].text \in SUBSET Entries
  BY DEF ProfileTypeOK, CallRecords

LEMMA TurnGoes ==
  ASSUME ProfileTypeOK, NEW c \in Calls, NEW stage \in Stages,
         call[c].stage \in {"check", "text"} => stage \in Over,
         call' = [call EXCEPT ![c] = Turn(c, stage)]
  PROVE  Goes(c, stage, call[c].lost)
  <1>1. Turn(c, stage) = [call[c] EXCEPT !.stage = stage,
                            !.text = IF stage \in Cleanup \cup Over THEN {} ELSE call[c].text]
    BY DEF Turn
  <1>2. Turn(c, stage) \in CallRecords
    BY <1>1, CallTypes DEF CallRecords
  <1>3. call' \in [Calls -> CallRecords] /\ call'[c] = Turn(c, stage)
    BY <1>2, CallTypes
  <1>. QED
    BY <1>1, <1>3, CallTypes DEF Goes, CallRecords, At, Over

LEMMA LostGoes ==
  ASSUME ProfileTypeOK, NEW c \in Calls, NEW stage \in Stages,
         call[c].stage \in {"check", "text"} => stage \in Over,
         call' = [call EXCEPT ![c] = [Turn(c, stage) EXCEPT !.lost = TRUE]]
  PROVE  Goes(c, stage, TRUE)
  <1>1. [Turn(c, stage) EXCEPT !.lost = TRUE]
          = [call[c] EXCEPT !.stage = stage, !.lost = TRUE,
                            !.text = IF stage \in Cleanup \cup Over THEN {} ELSE call[c].text]
    BY CallTypes DEF Turn, CallRecords
  <1>2. [Turn(c, stage) EXCEPT !.lost = TRUE] \in CallRecords
    BY <1>1, CallTypes, ZenonT(60) DEF CallRecords
  <1>3. call' \in [Calls -> CallRecords] /\ call'[c] = [Turn(c, stage) EXCEPT !.lost = TRUE]
    BY <1>2, CallTypes
  <1>. QED
    BY <1>1, <1>3, CallTypes, ZenonT(60) DEF Goes, CallRecords, At, Over

\* The order of the statements, and of the compensation.
LEMMA Order ==
  ASSUME NEW c, Kinds, c \in Calls, call[c].stage \in Statements
  PROVE  LET st == call[c].stage  next == Following(c)  error == OnError(c) IN
         /\ st = "check" => next = "text" /\ error = "failed"
         /\ st = "text" => next = (IF Own(c) THEN "create role" ELSE "schema") /\ error = "failed"
         /\ st = "schema" => next = "create role" /\ error = "failed"
         /\ st = "create role" =>
              next = (IF Own(c) THEN "create database" ELSE "grant connect") /\ error = "failed"
         /\ st = "create database" => next = "revoke public" /\ error = "drop role"
         /\ st = "revoke public" => next = "grant connect" /\ error = "terminate"
         /\ st = "grant connect" =>
              IF Own(c) THEN next = "prepare" /\ error = "terminate"
              ELSE next = "grant tables" /\ error = "revoke connect"
         /\ st = "prepare" => next = "tables" /\ error = "terminate"
         /\ st = "tables" => next = "write" /\ error = "terminate"
         /\ st = "grant tables" => next = "recheck" /\ error = "drop owned"
         /\ st = "recheck" => next = "write" /\ error = "drop owned"
         /\ st = "write" =>
              next = "done" /\ error = (IF Own(c) THEN "terminate" ELSE "drop owned")
         /\ st = "terminate" => next = "drop database" /\ error = "stuck"
         /\ st = "drop database" => next = "drop role" /\ error = "stuck"
         /\ st = "drop owned" => next = "revoke connect" /\ error = "stuck"
         /\ st = "revoke connect" => next = "drop role" /\ error = "stuck"
         /\ st = "drop role" => next = "failed" /\ error = "stuck"
  <1>1. /\ call[c].stage \in {"create database", "revoke public", "prepare", "tables"} => Own(c)
        /\ call[c].stage \in {"schema", "grant tables", "recheck"} => ~ Own(c)
    BY DEF Kinds
  <1>2. CASE call[c].stage \in Cleanup
    BY <1>2 DEF Following, OnError, At, Cleanup
  <1>3. CASE call[c].stage \in Statements \ Cleanup
    BY <1>1, <1>3 DEF Following, OnError, RoleMade, DatabaseMade, At, Cleanup, Statements
  <1>. QED
    BY <1>2, <1>3

\* The call may be refused or killed at any statement, and go on at most.
Onward(c, stage) ==
  /\ call[c].stage \in Statements
  /\ stage \in {Following(c), OnError(c), "dead"}

LEMMA OnwardStages ==
  ASSUME NEW c \in Calls, Kinds, NEW stage, Onward(c, stage)
  PROVE  /\ stage \in Stages \ {"idle", "check"}
         /\ stage \in Made =>
              call[c].stage \in Made \/ (call[c].stage = "create role" /\ stage = Following(c))
         /\ call[c].stage \in Made =>
              stage \in Made \cup {"stuck", "dead"} \/ (call[c].stage = "drop role" /\ stage = "failed")
         /\ stage \in Checked => call[c].stage \in Checked \cup {"check"}
         /\ stage \in {"create database", "revoke public", "prepare", "tables",
                       "terminate", "drop database"} => Own(c)
         /\ stage \in {"schema", "grant tables", "recheck", "drop owned", "revoke connect"} => ~ Own(c)
  <1>1. CASE stage = "dead"
    BY <1>1 DEF Stages, Over, Made, Cleanup, Checked, Statements
  <1>2. CASE stage # "dead" /\ call[c].stage \in Cleanup
    BY <1>2, Order DEF Onward, Kinds, Stages, Statements, Over, Cleanup, Made, Checked
  <1>3. CASE stage # "dead" /\ call[c].stage \in Statements \ Cleanup
    BY <1>3, Order, ZenonT(60) DEF Onward, Kinds, Stages, Statements, Over, Cleanup, Made, Checked
  <1>. QED
    BY <1>1, <1>2, <1>3 DEF Onward

LEMMA OwnersStages ==
  ASSUME NEW c \in Calls, Kinds, NEW stage, Onward(c, stage), Own(c)
  PROVE  /\ stage \in Making =>
              call[c].stage \in Making \/ (call[c].stage = "create database" /\ stage = "revoke public")
         /\ call[c].stage \in Making =>
              stage \in Making \cup {"stuck", "dead"} \/ (call[c].stage = "drop database" /\ stage = "drop role")
         /\ call[c].stage = "create database" => stage \in {"revoke public", "drop role", "dead"}
         /\ call[c].stage \in Making \cup Cleanup => stage \in Making \cup Cleanup \cup Over
         /\ stage = "grant connect" => call[c].stage = "revoke public"
         /\ stage = "prepare" => call[c].stage = "grant connect"
         /\ stage = "tables" => call[c].stage = "prepare"
         /\ stage = "write" => call[c].stage = "tables"
         /\ stage = "done" => call[c].stage = "write"
         /\ stage = "drop role" => call[c].stage \in {"create database", "drop database"}
  <1>1. CASE stage = "dead"
    BY <1>1 DEF Making, Over
  <1>2. CASE stage # "dead" /\ call[c].stage \in Cleanup
    BY <1>2, Order DEF Onward, Kinds, Making, Statements, Over, Cleanup
  <1>3. CASE stage # "dead" /\ call[c].stage \in Statements \ Cleanup
    BY <1>3, Order, ZenonT(60) DEF Onward, Kinds, Making, Statements, Over, Cleanup
  <1>. QED
    BY <1>1, <1>2, <1>3 DEF Onward

LEMMA GuestsStages ==
  ASSUME NEW c \in Calls, Kinds, NEW stage, Onward(c, stage), ~ Own(c)
  PROVE  /\ stage = "create role" => call[c].stage = "schema"
         /\ stage = "grant connect" => call[c].stage = "create role"
         /\ stage = "grant tables" => call[c].stage = "grant connect"
         /\ stage = "recheck" => call[c].stage = "grant tables"
         /\ stage = "write" => call[c].stage = "recheck"
         /\ stage = "done" => call[c].stage = "write"
         /\ stage = "revoke connect" => call[c].stage \in {"grant connect", "drop owned"}
         /\ stage = "drop role" => call[c].stage = "revoke connect"
  <1>1. CASE stage = "dead"
    BY <1>1
  <1>2. CASE stage # "dead" /\ call[c].stage \in Cleanup
    BY <1>2, Order DEF Onward, Kinds, Statements, Cleanup
  <1>3. CASE stage # "dead" /\ call[c].stage \in Statements \ Cleanup
    BY <1>3, Order DEF Onward, Kinds, Statements, Cleanup
  <1>. QED
    BY <1>1, <1>2, <1>3 DEF Onward

-----------------------------------------------------------------------------
(* What a move of one call leaves of each part of the invariant            *)

Moves(c, stage, lost) ==
  /\ Onward(c, stage) /\ Goes(c, stage, lost)
  /\ call[c].lost => lost

LEMMA KindsMove ==
  ASSUME SetupInv, NEW c \in Calls, NEW stage, NEW lost, Moves(c, stage, lost)
  PROVE  Kinds'
  <1>1. ASSUME NEW o \in Calls, o # c
        PROVE  call'[o] = call[o] /\ (Own(o)' <=> Own(o))
    BY <1>1 DEF Moves, Goes, Own
  <1>2. /\ Own(c)' <=> Own(c)
        /\ call'[c].stage = stage /\ call'[c].profile = call[c].profile /\ call[c].stage # "idle"
    BY DEF Moves, Goes, Onward, Own, Statements, Cleanup
  <1>3. Kinds
    BY DEF SetupInv
  <1>. QED
    BY <1>1, <1>2, <1>3, OnwardStages DEF Moves, Kinds

LEMMA RolesMove ==
  ASSUME SetupInv, NEW c \in Calls, NEW stage, NEW lost, Moves(c, stage, lost),
         role' = role, call[c].stage \in {"create role", "drop role"} => stage # Following(c)
  PROVE  RolesKnown'
  <1>1. /\ \A o \in Calls \ {c} : call'[o] = call[o]
        /\ call'[c].stage = stage /\ call'[c].profile = call[c].profile
        /\ Onward(c, stage) /\ Kinds /\ RolesKnown /\ call[c].stage \in Statements
    BY DEF Moves, Goes, Onward, SetupInv
  <1>2. /\ stage \in Made => call[c].stage \in Made
        /\ call[c].stage \in Made => stage \in Made \cup {"stuck", "dead"}
    <2>1. ~ (call[c].stage = "drop role" /\ stage = "failed")
      BY <1>1, Order DEF Onward
    <2>. QED
      BY <1>1, <2>1, OnwardStages
  <1>3. \A o \in Calls : call'[o].stage \in Made => role'[call'[o].profile] = o
    BY <1>1, <1>2, ZenonT(60) DEF RolesKnown
  <1>4. ASSUME NEW p \in Profiles, role[p] # None
        PROVE  /\ call'[role[p]].profile = p
               /\ \/ call'[role[p]].stage \in Made \cup {"stuck", "dead"}
                  \/ call'[role[p]].stage = "failed" /\ call'[role[p]].lost
    <2>1. role[p] \in Calls
      BY <1>4 DEF SetupInv, ProfileTypeOK
    <2>2. CASE role[p] # c
      BY <1>1, <1>4, <2>1, <2>2, ZenonT(60) DEF RolesKnown, At
    <2>3. CASE role[p] = c
      <3>1. call[c].stage \in Made
        BY <1>1, <1>4, <2>3 DEF RolesKnown, Statements, Cleanup, At
      <3>. QED
        BY <1>1, <1>2, <1>4, <2>3, <3>1 DEF RolesKnown
    <2>. QED
      BY <2>2, <2>3
  <1>. QED
    BY <1>3, <1>4 DEF RolesKnown, At

LEMMA RolesCreated ==
  ASSUME SetupInv, NEW c \in Calls, NEW stage, NEW lost, Moves(c, stage, lost),
         At(c, "create role"), role[call[c].profile] = None,
         role' = [role EXCEPT ![call[c].profile] = c],
         stage = Following(c) \/ (stage = "failed" /\ lost)
  PROVE  RolesKnown'
  <1>1. /\ \A o \in Calls \ {c} : call'[o] = call[o]
        /\ call'[c].stage = stage /\ call'[c].profile = call[c].profile /\ call'[c].lost = lost
        /\ Onward(c, stage) /\ Kinds /\ RolesKnown
    BY DEF Moves, Goes, SetupInv
  <1>2. stage \in Made \/ (stage = "failed" /\ lost)
    BY <1>1, Order DEF At, Onward, Made
  <1>3. call[c].profile \in Profiles
    BY <1>1 DEF Kinds, At
  <1>4. role'[call[c].profile] = c /\ \A p \in Profiles : p # call[c].profile => role'[p] = role[p]
    BY <1>3 DEF SetupInv, ProfileTypeOK
  <1>5. ASSUME NEW o \in Calls, o # c, call[o].stage \in Made
        PROVE  call[o].profile # call[c].profile /\ call[o].profile \in Profiles
    <2>1. role[call[o].profile] = o
      BY <1>1, <1>5 DEF RolesKnown
    <2>2. call[o].profile \in Profiles
      BY <1>1, <1>5 DEF Kinds, Made, Cleanup
    <2>. QED
      BY <2>1, <2>2, NoneIsNoCall
  <1>6. ASSUME NEW p \in Profiles, role[p] # None
        PROVE  role[p] \in Calls \ {c}
    <2>1. role[p] \in Calls
      BY <1>6, TableTypes
    <2>2. call[c].stage \notin Made \cup {"stuck", "dead", "failed"}
      BY DEF At, Made, Cleanup
    <2>. QED
      BY <1>1, <1>6, <2>1, <2>2 DEF RolesKnown, At
  <1>7. ASSUME NEW o \in Calls, call'[o].stage \in Made
        PROVE  role'[call'[o].profile] = o
    <2>1. CASE o = c
      BY <1>1, <1>4, <2>1
    <2>2. CASE o # c
      <3>1. call'[o] = call[o]
        BY <1>1, <2>2
      <3>2. role[call[o].profile] = o
        BY <1>1, <1>7, <3>1 DEF RolesKnown
      <3>3. role'[call[o].profile] = role[call[o].profile]
        BY <1>4, <1>5, <1>7, <2>2, <3>1
      <3>. QED
        BY <3>1, <3>2, <3>3
    <2>. QED
      BY <2>1, <2>2
  <1>8. ASSUME NEW p \in Profiles, role'[p] # None
        PROVE  /\ call'[role'[p]].profile = p
               /\ \/ call'[role'[p]].stage \in Made \cup {"stuck", "dead"}
                  \/ call'[role'[p]].stage = "failed" /\ call'[role'[p]].lost
    <2>1. CASE p = call[c].profile
      <3>1. role'[p] = c
        BY <1>4, <2>1
      <3>2. call'[c].profile = p /\ call'[c].stage = stage /\ call'[c].lost = lost
        BY <1>1, <2>1
      <3>3. call'[c].stage \in Made \/ (call'[c].stage = "failed" /\ call'[c].lost)
        BY <1>2, <3>2
      <3>. QED
        BY <3>1, <3>2, <3>3
    <2>2. CASE p # call[c].profile
      <3>1. role'[p] = role[p] /\ role[p] # None
        BY <1>4, <1>8, <2>2
      <3>2. call'[role[p]] = call[role[p]]
        BY <1>1, <1>6, <3>1
      <3>3. /\ call[role[p]].profile = p
            /\ \/ call[role[p]].stage \in Made \cup {"stuck", "dead"}
               \/ call[role[p]].stage = "failed" /\ call[role[p]].lost
        BY <1>1, <3>1 DEF RolesKnown, At
      <3>. QED
        BY <3>1, <3>2, <3>3
    <2>. QED
      BY <2>1, <2>2
  <1>. QED
    BY <1>7, <1>8 DEF RolesKnown, At

LEMMA RolesDropped ==
  ASSUME SetupInv, NEW c \in Calls, NEW stage, NEW lost, Moves(c, stage, lost),
         At(c, "drop role"), role' = [role EXCEPT ![call[c].profile] = None]
  PROVE  RolesKnown'
  <1>1. /\ \A o \in Calls \ {c} : call'[o] = call[o]
        /\ call'[c].stage = stage /\ Onward(c, stage) /\ Kinds /\ RolesKnown
    BY DEF Moves, Goes, SetupInv
  <1>2. stage \notin Made
    BY <1>1, Order DEF At, Onward, Made, Cleanup
  <1>3. call[c].profile \in Profiles /\ role[call[c].profile] = c
    BY <1>1 DEF Kinds, RolesKnown, At, Made, Cleanup
  <1>4. role'[call[c].profile] = None /\ \A p \in Profiles : p # call[c].profile => role'[p] = role[p]
    BY <1>3 DEF SetupInv, ProfileTypeOK
  <1>5. ASSUME NEW o \in Calls, o # c, call[o].stage \in Made
        PROVE  call[o].profile # call[c].profile /\ call[o].profile \in Profiles
    BY <1>1, <1>3, <1>5 DEF RolesKnown, Kinds, Made, Cleanup
  <1>6. ASSUME NEW p \in Profiles, role[p] # None, p # call[c].profile
        PROVE  role[p] \in Calls \ {c}
    <2>1. role[p] \in Calls
      BY <1>6, TableTypes
    <2>. QED
      BY <1>1, <1>6, <2>1 DEF RolesKnown
  <1>7. ASSUME NEW o \in Calls, call'[o].stage \in Made
        PROVE  role'[call'[o].profile] = o
    <2>1. o # c /\ call'[o] = call[o]
      BY <1>1, <1>2, <1>7
    <2>2. role[call[o].profile] = o
      BY <1>1, <1>7, <2>1 DEF RolesKnown
    <2>3. role'[call[o].profile] = role[call[o].profile]
      BY <1>4, <1>5, <1>7, <2>1
    <2>. QED
      BY <2>1, <2>2, <2>3
  <1>8. ASSUME NEW p \in Profiles, role'[p] # None
        PROVE  /\ call'[role'[p]].profile = p
               /\ \/ call'[role'[p]].stage \in Made \cup {"stuck", "dead"}
                  \/ call'[role'[p]].stage = "failed" /\ call'[role'[p]].lost
    <2>1. p # call[c].profile /\ role'[p] = role[p] /\ role[p] # None
      BY <1>4, <1>8
    <2>2. call'[role[p]] = call[role[p]]
      BY <1>1, <1>6, <2>1
    <2>3. /\ call[role[p]].profile = p
          /\ \/ call[role[p]].stage \in Made \cup {"stuck", "dead"}
             \/ call[role[p]].stage = "failed" /\ call[role[p]].lost
      BY <1>1, <2>1 DEF RolesKnown, At
    <2>. QED
      BY <2>1, <2>2, <2>3
  <1>. QED
    BY <1>7, <1>8 DEF RolesKnown, At

LEMMA EntriesMove ==
  ASSUME SetupInv, NEW c \in Calls, NEW stage, NEW lost, Moves(c, stage, lost), config' = config
  PROVE  EntriesKnown'
  <1>1. /\ \A o \in Calls \ {c} : call'[o] = call[o]
        /\ call'[c].text \subseteq config \cup call[c].text
        /\ call[c].stage # "done"
    BY DEF Moves, Goes, Onward, Statements, Cleanup
  <1>2. ASSUME NEW e \in Entries, EntryOf(e)
        PROVE  EntryOf(e)'
    BY <1>1, <1>2 DEF EntryOf, At, Place, Own, Entries
  <1>3. config \subseteq Entries /\ \A o \in Calls : call[o].text \subseteq Entries
    BY CallTypes DEF SetupInv, ProfileTypeOK
  <1>. QED
    BY <1>1, <1>2, <1>3 DEF SetupInv, EntriesKnown

LEMMA EntriesWritten ==
  ASSUME SetupInv, NEW c \in Calls, NEW lost, Moves(c, "done", lost), At(c, "write"),
         config' = call[c].text \cup
           {[profile |-> call[c].profile, database |-> Place(c), by |-> c, serves |-> call[c].serves]}
  PROVE  EntriesKnown'
  <1>. DEFINE new == [profile |-> call[c].profile, database |-> Place(c), by |-> c, serves |-> call[c].serves]
  <1>1. /\ \A o \in Calls \ {c} : call'[o] = call[o]
        /\ call'[c].text = {} /\ call[c].stage # "done"
    BY DEF Moves, Goes, Onward, Statements, Cleanup, Over
  <1>2. ASSUME NEW e \in Entries, EntryOf(e)
        PROVE  EntryOf(e)'
    BY <1>1, <1>2 DEF EntryOf, At, Place, Own, Entries
  <1>3. \A o \in Calls : call[o].text \subseteq Entries
    BY CallTypes DEF SetupInv
  <1>4. ASSUME NEW e, e = new
        PROVE  EntryOf(e)'
    BY <1>4 DEF Moves, Goes, EntryOf, At, Place, Own
  <1>5. config' = call[c].text \cup {new} /\ EntriesKnown
    BY DEF SetupInv
  <1>. HIDE DEF new
  <1>6. ASSUME NEW e \in config'
        PROVE  EntryOf(e)'
    <2>1. CASE e = new
      BY <1>4, <2>1
    <2>2. CASE e \in call[c].text
      <3>1. e \in Entries
        BY <1>3, <2>2
      <3>2. EntryOf(e)
        BY <1>5, <2>2 DEF EntriesKnown
      <3>. QED
        BY <1>2, <3>1, <3>2
    <2>. QED
      BY <1>5, <2>1, <2>2
  <1>7. \A o \in Calls : \A e \in call'[o].text : EntryOf(e)'
    BY <1>1, <1>2, <1>3, <1>5 DEF EntriesKnown
  <1>. QED
    BY <1>6, <1>7 DEF EntriesKnown

\* Who reads, who holds a text and who writes.
Holding == Statements \ (Cleanup \cup {"check", "text"})

LEMMA HoldingStages ==
  ASSUME NEW c \in Calls, Kinds, NEW stage, Onward(c, stage)
  PROVE  /\ stage \in Holding =>
              call[c].stage \in Holding \/ (call[c].stage = "text" /\ stage = Following(c))
         /\ stage = "done" => call[c].stage = "write"
         /\ stage = "text" => call[c].stage = "check"
  <1>1. CASE stage = "dead"
    BY <1>1 DEF Holding, Statements, Cleanup
  <1>2. CASE stage # "dead" /\ call[c].stage \in Cleanup
    BY <1>2, Order DEF Onward, Holding, Statements, Cleanup
  <1>3. CASE stage # "dead" /\ call[c].stage \in Statements \ Cleanup
    BY <1>3, Order DEF Onward, Holding, Statements, Cleanup
  <1>. QED
    BY <1>1, <1>2, <1>3 DEF Onward

LEMMA TextsMove ==
  ASSUME SetupInv, NEW c \in Calls, NEW stage, NEW lost, Moves(c, stage, lost),
         stage # "done", call[c].stage = "text" => stage # Following(c),
         config' = config, overlapped' = overlapped
  PROVE  TextsKnown'
  <1>1. /\ \A o \in Calls \ {c} : call'[o] = call[o]
        /\ call'[c].stage = stage /\ Onward(c, stage) /\ Kinds /\ TextsKnown
    BY DEF Moves, Goes, SetupInv
  <1>2. stage \in Holding => call[c].stage \in Holding /\ call'[c].text = call[c].text
    <2>1. stage \in Holding => call[c].stage \in Holding
      BY <1>1, HoldingStages
    <2>. QED
      BY <2>1 DEF Moves, Goes, At, Holding, Statements, Cleanup, Over
  <1>3. ASSUME NEW o \in Calls, HoldsText(o)'
        PROVE  HoldsText(o) /\ call'[o].text = call[o].text
    BY <1>1, <1>2, <1>3 DEF HoldsText, Holding
  <1>4. ASSUME NEW o \in Calls, At(o, "done")'
        PROVE  At(o, "done")
    BY <1>1, <1>4 DEF At
  <1>5. ASSUME NEW x \in Calls, NEW o \in Calls, x # o, HoldsText(x)', HoldsText(o)'
        PROVE  x \in overlapped'
    BY <1>1, <1>3, <1>5 DEF TextsKnown
  <1>6. ASSUME NEW x \in Calls, At(x, "done")', x \notin overlapped'
        PROVE  /\ \E e \in config' : e.by = x
               /\ \A o \in Calls : HoldsText(o)' => \E e \in call'[o].text : e.by = x
    BY <1>1, <1>3, <1>4, <1>6 DEF TextsKnown
  <1>. QED
    BY <1>5, <1>6 DEF TextsKnown

LEMMA TextsRead ==
  ASSUME SetupInv, NEW c \in Calls, NEW stage, NEW lost, Moves(c, stage, lost),
         At(c, "text"), stage = Following(c), config' = config,
         overlapped' = overlapped \cup
           IF \E other \in Calls : HoldsText(other)
           THEN {c} \cup {other \in Calls : HoldsText(other)} ELSE {}
  PROVE  TextsKnown'
  <1>1. /\ \A o \in Calls \ {c} : call'[o] = call[o]
        /\ call'[c].stage = stage /\ Onward(c, stage) /\ Kinds /\ TextsKnown
    BY DEF Moves, Goes, SetupInv
  <1>2. stage \in Holding /\ stage # "done"
    BY <1>1, Order DEF At, Onward, Holding, Statements, Cleanup
  <1>3. call'[c].text = config
    BY <1>2 DEF Moves, Goes, Holding, Statements, Over, At
  <1>4. ASSUME NEW o \in Calls, o # c
        PROVE  /\ HoldsText(o)' <=> HoldsText(o)
               /\ At(o, "done")' <=> At(o, "done")
    BY <1>1, <1>4 DEF HoldsText, At
  <1>5. ~ At(c, "done")'
    BY <1>1, <1>2 DEF At
  <1>6. ASSUME NEW x \in Calls, NEW o \in Calls, x # o, HoldsText(x)', HoldsText(o)'
        PROVE  x \in overlapped'
    <2>1. CASE x # c /\ o # c
      BY <1>1, <1>4, <1>6, <2>1 DEF TextsKnown
    <2>2. CASE x = c
      <3>1. HoldsText(o)
        BY <1>4, <1>6, <2>2
      <3>. QED
        BY <2>2, <3>1
    <2>3. CASE o = c
      <3>1. HoldsText(x)
        BY <1>4, <1>6, <2>3
      <3>. QED
        BY <3>1
    <2>. QED
      BY <2>1, <2>2, <2>3
  <1>7. ASSUME NEW x \in Calls, At(x, "done")', x \notin overlapped'
        PROVE  /\ \E e \in config' : e.by = x
               /\ \A o \in Calls : HoldsText(o)' => \E e \in call'[o].text : e.by = x
    <2>1. At(x, "done") /\ x \notin overlapped
      BY <1>4, <1>5, <1>7
    <2>2. /\ \E e \in config : e.by = x
          /\ \A o \in Calls : HoldsText(o) => \E e \in call[o].text : e.by = x
      BY <1>1, <2>1 DEF TextsKnown
    <2>. QED
      BY <1>1, <1>3, <1>4, <2>2
  <1>. QED
    BY <1>6, <1>7 DEF TextsKnown

LEMMA TextsWritten ==
  ASSUME SetupInv, NEW c \in Calls, NEW lost, Moves(c, "done", lost), At(c, "write"),
         overlapped' = overlapped,
         config' = call[c].text \cup
           {[profile |-> call[c].profile, database |-> Place(c), by |-> c, serves |-> call[c].serves]}
  PROVE  TextsKnown'
  <1>1. /\ \A o \in Calls \ {c} : call'[o] = call[o]
        /\ call'[c].stage = "done" /\ TextsKnown
    BY DEF Moves, Goes, SetupInv
  <1>2. HoldsText(c) /\ ~ HoldsText(c)'
    BY <1>1 DEF HoldsText, At, Statements, Cleanup
  <1>3. ASSUME NEW o \in Calls, o # c
        PROVE  /\ HoldsText(o)' <=> HoldsText(o)
               /\ At(o, "done")' <=> At(o, "done")
    BY <1>1, <1>3 DEF HoldsText, At
  <1>4. ASSUME NEW x \in Calls, NEW o \in Calls, x # o, HoldsText(x)', HoldsText(o)'
        PROVE  x \in overlapped'
    BY <1>1, <1>2, <1>3, <1>4 DEF TextsKnown
  <1>5. ASSUME NEW x \in Calls, At(x, "done")', x \notin overlapped'
        PROVE  /\ \E e \in config' : e.by = x
               /\ \A o \in Calls : HoldsText(o)' => \E e \in call'[o].text : e.by = x
    <2>1. CASE x = c
      <3>1. \A o \in Calls : ~ HoldsText(o)'
        BY <1>1, <1>2, <1>3, <1>5, <2>1 DEF TextsKnown
      <3>2. \E e \in config' : e.by = c
        <4>. DEFINE new == [profile |-> call[c].profile, database |-> Place(c), by |-> c,
                            serves |-> call[c].serves]
        <4>1. new \in config' /\ new.by = c
          OBVIOUS
        <4>. QED
          BY <4>1
      <3>. QED
        BY <2>1, <3>1, <3>2
    <2>2. CASE x # c
      <3>1. \A o \in Calls : HoldsText(o) => \E e \in call[o].text : e.by = x
        BY <1>1, <1>3, <1>5, <2>2 DEF TextsKnown
      <3>2. \E e \in config' : e.by = x
        BY <1>2, <3>1
      <3>. QED
        BY <1>1, <1>2, <1>3, <3>1, <3>2
    <2>. QED
      BY <2>1, <2>2
  <1>. QED
    BY <1>4, <1>5 DEF TextsKnown

-----------------------------------------------------------------------------
(* What a statement does to the databases                                  *)

New(c) == [by |-> c, public |-> TRUE, connect |-> {}, schema |-> "empty", tables |-> {}]

\* A database that is there before and after a statement of c: privileges are
\* given and taken of the call's own role, and given in its place only.
Keeps(c, p) ==
  /\ database'[p].by = database[p].by
  /\ database'[p].public => database[p].public
  /\ database[p].schema = "ready" => database'[p].schema = "ready"
  /\ database[p].by # c => database'[p].schema = database[p].schema
  /\ database'[p].schema # "empty" => database[p].schema # "empty" \/ ~ database[p].public
  /\ \A q \in Profiles : role[q] # c =>
       /\ q \in database'[p].connect <=> q \in database[p].connect
       /\ q \in database'[p].tables <=> q \in database[p].tables
  /\ \A q \in Profiles : role[q] = c =>
       /\ q \in database'[p].connect \ database[p].connect =>
            p = Place(c) /\ At(c, "grant connect")
       /\ q \in database'[p].tables \ database[p].tables =>
            p = Place(c) /\ call[c].stage \in {"tables", "grant tables"}

Stays(p) == database'[p] # None

Frame(c, stage, lost) ==
  LET p == call[c].profile IN
  /\ database' \in [Profiles -> Databases \cup {None}]
  /\ \A d \in Profiles : Stays(d) =>
       \/ Exists(d) /\ Keeps(c, d)
       \/ ~ Exists(d) /\ At(c, "create database") /\ d = p /\ database'[d] = New(c)
  /\ \A d \in Profiles : Exists(d) /\ ~ Stays(d) => At(c, "drop database") /\ d = p
  /\ At(c, "create database") =>
       /\ stage = Following(c) => Stays(p)
       /\ ~ Exists(p) /\ Stays(p) => stage = Following(c) \/ lost
  /\ At(c, "drop database") /\ stage = Following(c) => ~ Stays(p)
  /\ At(c, "drop role") /\ stage = Following(c) => NothingDependsOn(p)
  /\ At(c, "revoke connect") /\ stage = Following(c) /\ Stays(Place(c)) =>
       p \notin database'[Place(c)].connect
  /\ At(c, "drop owned") /\ stage = Following(c) /\ Stays(Place(c)) =>
       p \notin database'[Place(c)].tables

LEMMA ClosedMove ==
  ASSUME SetupInv, NEW c \in Calls, NEW stage, NEW lost, Frame(c, stage, lost)
  PROVE  Closed'
  <1>. SUFFICES ASSUME NEW p \in Profiles, Stays(p), database'[p].schema # "empty"
                PROVE  ~ database'[p].public
    BY DEF Closed, Exists, Stays
  <1>1. CASE Exists(p) /\ Keeps(c, p)
    BY <1>1 DEF Keeps, SetupInv, Closed
  <1>2. CASE database'[p] = New(c)
    BY <1>2 DEF New
  <1>. QED
    BY <1>1, <1>2 DEF Frame

RoleEffect(c, stage, lost) ==
  \/ /\ role' = role
     /\ call[c].stage \in {"create role", "drop role"} => stage # Following(c)
  \/ /\ At(c, "create role") /\ role[call[c].profile] = None /\ database' = database
     /\ role' = [role EXCEPT ![call[c].profile] = c]
     /\ stage = Following(c) \/ (stage = "failed" /\ lost)
  \/ /\ At(c, "drop role") /\ NothingDependsOn(call[c].profile) /\ database' = database
     /\ role' = [role EXCEPT ![call[c].profile] = None]

LEMMA RolesGo ==
  ASSUME SetupInv, NEW c \in Calls, NEW stage, NEW lost,
         Moves(c, stage, lost), RoleEffect(c, stage, lost)
  PROVE  RolesKnown'
  BY RolesMove, RolesCreated, RolesDropped DEF RoleEffect

\* Only what a call makes is taken by it.
LEMMA MakerHasRole ==
  ASSUME SetupInv, NEW p \in Profiles, Exists(p), NEW c \in Calls, c = database[p].by
  PROVE  /\ Own(c) /\ call[c].profile = p /\ role[p] = c
         /\ call[c].stage \in Making \cup {"drop role", "stuck", "dead"}
         /\ call[c].stage = "drop role" => call[c].lost
  BY DEF SetupInv, MakersKnown, At

\* The same of a database's maker, without a name for it.
LEMMA MakerIs ==
  ASSUME SetupInv, NEW p \in Profiles, Exists(p)
  PROVE  /\ database[p].by \in Calls
         /\ call[database[p].by].target = None /\ call[database[p].by].profile = p
         /\ role[p] = database[p].by
         /\ call[database[p].by].stage \in Making \cup {"drop role", "stuck", "dead"}
         /\ call[database[p].by].stage = "drop role" => call[database[p].by].lost
  <1>1. database[p].by \in Calls
    BY TableTypes
  <1> QED
    BY <1>1 DEF SetupInv, MakersKnown, At, Own

LEMMA OwnersRole ==
  ASSUME SetupInv, NEW p \in Profiles, Exists(p)
  PROVE  role[p] = database[p].by /\ role[p] \in Calls
  <1>1. database[p].by \in Calls
    BY TableTypes
  <1>. QED
    BY <1>1 DEF SetupInv, MakersKnown

\* The roles of owners and of the privileged stay.
LEMMA RolesStay ==
  ASSUME SetupInv, NEW c \in Calls, NEW stage, NEW lost, RoleEffect(c, stage, lost),
         NEW p \in Profiles, Exists(p)
  PROVE  /\ role'[p] = role[p]
         /\ \A q \in database[p].connect \cup database[p].tables : role'[q] = role[q]
  <1>1. CASE role' = role
    BY <1>1
  <1>2. CASE /\ At(c, "create role") /\ role[call[c].profile] = None
             /\ role' = [role EXCEPT ![call[c].profile] = c]
    <2>1. \A q \in Profiles : role[q] # None => role'[q] = role[q]
      BY <1>2, TableTypes
    <2>2. role[p] # None
      BY NoneIsNothing, OwnersRole
    <2>3. ASSUME NEW q \in database[p].connect \cup database[p].tables
          PROVE  q \in Profiles /\ role[q] # None
      BY <2>3, NoneIsNothing, TableTypes, ZenonT(60) DEF SetupInv, PrivilegesKnown
    <2>. QED
      BY <2>1, <2>2, <2>3
  <1>3. CASE /\ NothingDependsOn(call[c].profile)
             /\ role' = [role EXCEPT ![call[c].profile] = None]
    <2>1. \A q \in Profiles : q # call[c].profile => role'[q] = role[q]
      BY <1>3, TableTypes
    <2>2. p # call[c].profile
      BY <1>3 DEF NothingDependsOn
    <2>3. ASSUME NEW q \in database[p].connect \cup database[p].tables
          PROVE  q \in Profiles /\ q # call[c].profile
      BY <1>3, <2>3, TableTypes DEF NothingDependsOn
    <2>. QED
      BY <2>1, <2>2, <2>3
  <1>. QED
    BY <1>1, <1>2, <1>3 DEF RoleEffect

LEMMA MakersMove ==
  ASSUME SetupInv, NEW c \in Calls, NEW stage, NEW lost,
         Moves(c, stage, lost), Frame(c, stage, lost), RoleEffect(c, stage, lost)
  PROVE  MakersKnown'
  <1>1. /\ \A o \in Calls \ {c} : call'[o] = call[o] /\ (Own(o)' <=> Own(o))
        /\ call'[c].stage = stage /\ call'[c].profile = call[c].profile /\ call'[c].lost = lost
        /\ (Own(c)' <=> Own(c)) /\ (call[c].lost => lost)
        /\ call'[c].target = call[c].target
        /\ Onward(c, stage) /\ Kinds /\ MakersKnown /\ call[c].profile \in Profiles
    BY DEF Moves, Goes, SetupInv, Own, Onward, Kinds, Statements, Cleanup
  <1>2. At(c, "create database") => ~ Exists(call[c].profile)
    <2>1. SUFFICES ASSUME At(c, "create database"), Exists(call[c].profile)
                   PROVE  FALSE
      OBVIOUS
    <2>2. role[call[c].profile] = c
      BY <2>1 DEF SetupInv, RolesKnown, At, Made
    <2>3. database[call[c].profile].by = c
      BY <1>1, <2>1, <2>2, OwnersRole
    <2>. QED
      BY <1>1, <2>1, <2>3, MakerHasRole DEF At, Making
  <1>3. ASSUME NEW o \in Calls, NEW p, p = call'[o].profile, Own(o)', call'[o].stage \in Making
        PROVE  Stays(p) /\ database'[p].by = o
    <2>1. CASE o # c
      <3>1. call'[o] = call[o] /\ Own(o) /\ call[o].stage \in Making /\ p = call[o].profile
        BY <1>1, <1>3, <2>1
      <3>2. Exists(p) /\ database[p].by = o /\ p \in Profiles
        BY <1>1, <3>1 DEF MakersKnown, Kinds, Making
      <3>3. At(c, "drop database") => database[call[c].profile].by = c
        BY <1>1 DEF MakersKnown, Kinds, At, Making
      <3>4. Stays(p)
        BY <2>1, <3>2, <3>3 DEF Frame
      <3>5. Keeps(c, p)
        BY <3>2, <3>4 DEF Frame
      <3>. QED
        BY <3>2, <3>4, <3>5 DEF Keeps
    <2>2. CASE o = c /\ call[c].stage \in Making
      <3>1. p = call[c].profile /\ p \in Profiles /\ Exists(p) /\ database[p].by = c
        BY <1>1, <1>3, <2>2 DEF MakersKnown
      <3>2. ~ (At(c, "drop database") /\ stage = Following(c))
        BY <1>1, <1>3, <2>2, Order DEF At, Making, Onward
      <3>3. Stays(p)
        <4>1. CASE At(c, "drop database")
          BY <1>1, <1>3, <2>2, <3>2, <4>1, Order DEF At, Making, Onward
        <4>2. CASE ~ At(c, "drop database")
          BY <3>1, <4>2 DEF Frame
        <4>. QED
          BY <4>1, <4>2
      <3>4. Keeps(c, p)
        BY <3>1, <3>3 DEF Frame
      <3>. QED
        BY <2>2, <3>1, <3>3, <3>4 DEF Keeps
    <2>3. CASE o = c /\ call[c].stage \notin Making
      <3>1. call[c].stage = "create database" /\ stage = "revoke public" /\ p = call[c].profile
        BY <1>1, <1>3, <2>3, OwnersStages
      <3>2. stage = Following(c)
        BY <1>1, <3>1, Order DEF Onward
      <3>3. Stays(p)
        BY <3>1, <3>2 DEF Frame, At
      <3>4. database'[p] = New(c)
        BY <1>1, <1>2, <3>1, <3>3 DEF Frame, At
      <3>. QED
        BY <2>3, <3>3, <3>4 DEF New
    <2>. QED
      BY <2>1, <2>2, <2>3
  <1>4. ASSUME NEW p \in Profiles, Stays(p), NEW o, o = database'[p].by
        PROVE  /\ call'[o].target = None /\ call'[o].profile = p /\ role'[p] = o
               /\ call'[o].stage \in Making \cup {"drop role", "stuck", "dead"}
               /\ call'[o].stage = "drop role" => call'[o].lost
    <2>1. CASE Exists(p) /\ Keeps(c, p)
      <3>1. o = database[p].by
        BY <1>4, <2>1 DEF Keeps
      <3>2. /\ o \in Calls /\ call[o].target = None /\ call[o].profile = p /\ role[p] = o
            /\ call[o].stage \in Making \cup {"drop role", "stuck", "dead"}
            /\ call[o].stage = "drop role" => call[o].lost
        BY <2>1, <3>1, MakerIs
      <3>3. role'[p] = o
        BY <2>1, <3>2, RolesStay
      <3>4. CASE o # c
        <4>1. call'[o] = call[o]
          BY <1>1, <3>2, <3>4
        <4>. QED
          BY <3>2, <3>3, <4>1
      <3>5. CASE o = c
        <4>1. CASE call[c].stage = "drop role"
          <5>1. stage # Following(c)
            BY <2>1, <3>2, <3>5, <4>1 DEF Frame, At, NothingDependsOn
          <5>. QED
            BY <1>1, <3>2, <3>3, <3>5, <4>1, <5>1, Order DEF Onward, Making
        <4>2. CASE call[c].stage \in Making
          <5>1. ~ (call[c].stage = "drop database" /\ stage = "drop role")
            <6>1. SUFFICES ASSUME call[c].stage = "drop database", stage = "drop role"
                           PROVE  FALSE
              OBVIOUS
            <6>2. stage = Following(c)
              BY <1>1, <6>1, Order DEF Onward
            <6>. QED
              BY <1>4, <3>2, <3>5, <6>1, <6>2 DEF Frame, At
          <5>2. stage \in Making \cup {"stuck", "dead"}
            BY <1>1, <3>2, <3>5, <4>2, <5>1, OwnersStages, ZenonT(60) DEF Own
          <5>. QED
            BY <1>1, <3>2, <3>3, <3>5, <5>2 DEF Making
        <4>. QED
          BY <1>1, <3>2, <3>5, <4>1, <4>2 DEF Onward, Statements, Cleanup
      <3>. QED
        BY <3>4, <3>5
    <2>2. CASE ~ Exists(p) /\ At(c, "create database") /\ p = call[c].profile /\ database'[p] = New(c)
      <3>1. o = c /\ Own(c) /\ role[p] = c
        <4>1. New(c).by = c
          BY DEF New
        <4>2. Own(c) /\ role[call[c].profile] = c
          BY <2>2 DEF SetupInv, Kinds, RolesKnown, Made, At
        <4>. QED
          BY <1>4, <2>2, <4>1, <4>2
      <3>2. role' = role
        BY <2>2 DEF RoleEffect, At
      <3>3. stage = Following(c) \/ lost
        BY <1>4, <2>2 DEF Frame
      <3>4. stage \in {"revoke public", "drop role", "dead"} /\ (stage = "drop role" => lost)
        BY <1>1, <2>2, <3>3, Order DEF At, Onward
      <3>. QED
        BY <1>1, <2>2, <3>1, <3>2, <3>4 DEF Making, Own
    <2>. QED
      BY <1>4, <2>1, <2>2 DEF Frame
  <1>5. \A o \in Calls : Own(o)' /\ call'[o].stage \in Making =>
          Stays(call'[o].profile) /\ database'[call'[o].profile].by = o
    BY <1>3
  <1>6. \A p \in Profiles : Stays(p) =>
          LET o == database'[p].by IN
          /\ call'[o].target = None /\ call'[o].profile = p /\ role'[p] = o
          /\ call'[o].stage \in Making \cup {"drop role", "stuck", "dead"}
          /\ call'[o].stage = "drop role" => call'[o].lost
    BY <1>4, ZenonT(60)
  <1>7. (\A o \in Calls : Own(o) /\ call[o].stage \in Making =>
           Exists(call[o].profile) /\ database[call[o].profile].by = o)'
    BY <1>5 DEF Stays, Exists
  <1>. QED
    BY <1>6, <1>7 DEF MakersKnown, At, Stays, Exists, Own

LEMMA BeganStays ==
  ASSUME SetupInv, NEW c \in Calls, NEW stage, NEW lost, Moves(c, stage, lost),
         NEW o \in Calls, Began(o)
  PROVE  Began(o)' /\ call'[o].profile = call[o].profile
  <1>1. CASE o # c
    BY <1>1 DEF Moves, Goes, Began, Own
  <1>2. CASE o = c
    <2>1. Kinds /\ Onward(c, stage) /\ Own(c) /\ call'[c].stage = stage
      BY <1>2 DEF SetupInv, Moves, Goes, Began
    <2>2. call[c].stage \in Making \cup Cleanup
      BY <1>2, <2>1 DEF Began, Onward, Statements, Over, Cleanup
    <2>3. stage \in Making \cup Cleanup \cup Over
      BY <2>1, <2>2, OwnersStages
    <2>. QED
      BY <1>2, <2>1, <2>3 DEF Began, Own, Moves, Goes
  <1>. QED
    BY <1>1, <1>2

LEMMA ServedMove ==
  ASSUME SetupInv, NEW c \in Calls, NEW stage, NEW lost, Moves(c, stage, lost),
         At(c, "check") /\ stage = "text" => Accepted(c)
  PROVE  ServedKnown'
  <1>1. /\ \A o \in Calls \ {c} : call'[o] = call[o]
        /\ call'[c].stage = stage /\ call'[c].profile = call[c].profile
        /\ call'[c].target = call[c].target
        /\ Onward(c, stage) /\ Kinds /\ ServedKnown /\ call[c].profile \in Profiles
    BY DEF Moves, Goes, SetupInv, Onward, Kinds, Statements, Cleanup
  <1>2. ASSUME NEW o \in Calls, NEW m, m = call'[o].serves, call'[o].stage \in Checked
        PROVE  /\ call'[o].target = None => m = o
               /\ call'[o].target # None =>
                    m \in Calls /\ Began(m) /\ call[m].profile = call'[o].target
    <2>1. CASE call'[o].target = call[o].target /\ call'[o].serves = call[o].serves
               /\ call[o].stage \in Checked
      BY <1>1, <1>2, <2>1 DEF ServedKnown, Own
    <2>2. CASE o = c /\ At(c, "check") /\ stage = "text"
      <3>1. m = Found(c)
        BY <1>2, <2>2 DEF Moves, Goes
      <3>2. CASE Own(c)
        BY <1>1, <2>2, <3>1, <3>2 DEF Found, Own
      <3>3. CASE ~ Own(c)
        <4>. DEFINE d == call[c].target
        <4>1. d \in Profiles /\ Exists(d) /\ m = database[d].by
          <5>1. d \in Profiles
            BY <3>3, CallTypes DEF SetupInv, Own
          <5>2. Accepted(c) /\ Place(c) = d
            BY <2>2, <3>3 DEF Place
          <5>3. Exists(d)
            BY <2>2, <3>3, <5>2 DEF Accepted, At
          <5>. QED
            BY <3>1, <3>3, <5>1, <5>2, <5>3 DEF Found
        <4>2. m \in Calls /\ Own(m) /\ call[m].profile = d
              /\ call[m].stage \in Making \cup {"drop role", "stuck", "dead"}
          <5>1. m \in Calls
            BY <4>1, TableTypes
          <5>. HIDE DEF d
          <5>. QED
            BY <4>1, <5>1, MakerHasRole, ZenonT(60)
        <4>. QED
          BY <1>1, <2>2, <3>3, <4>2 DEF Began, Own, Cleanup, Over
      <3>. QED
        BY <3>2, <3>3
    <2>3. CASE o = c /\ ~ (At(c, "check") /\ stage = "text")
      <3>1. call[c].stage \in Checked
        <4>1. At(c, "check") => stage \in {"text", "failed", "dead"}
          BY <1>1, Order DEF At, Onward
        <4>. QED
          BY <1>1, <1>2, <2>3, <4>1, OnwardStages DEF At, Checked, Statements, Cleanup
      <3>. QED
        BY <1>1, <2>1, <2>3, <3>1 DEF Moves, Goes
    <2>. QED
      BY <1>1, <1>2, <2>1, <2>2, <2>3
  <1>3. ASSUME NEW o \in Calls, call'[o].stage \in Checked, call'[o].target # None
        PROVE  /\ call'[o].serves \in Calls
               /\ call'[call'[o].serves].target = None
               /\ call'[call'[o].serves].stage \in Making \cup Cleanup \cup Over
               /\ call'[call'[o].serves].profile = call'[o].target
    <2>. DEFINE m == call'[o].serves
    <2>1. m \in Calls /\ Began(m) /\ call[m].profile = call'[o].target
      BY <1>2, <1>3
    <2>. HIDE DEF m
    <2>2. call'[m].target = None /\ call'[m].stage \in Making \cup Cleanup \cup Over
          /\ call'[m].profile = call[m].profile
      BY <2>1, BeganStays DEF Began, Own
    <2>. QED
      BY <2>1, <2>2 DEF m
  <1>. QED
    BY <1>2, <1>3 DEF ServedKnown, Began, Own

\* What a call has got from others it keeps.
LEMMA OthersProgress ==
  ASSUME SetupInv, NEW c \in Calls, NEW stage, NEW lost,
         Moves(c, stage, lost), Frame(c, stage, lost), NEW o \in Calls, o # c
  PROVE  OwnerProgress(o)' /\ GuestProgress(o)'
  <1>1. call'[o] = call[o]
    BY DEF Moves, Goes
  <1>2. call[o].stage \in Made => role[call[o].profile] # c /\ call[o].profile \in Profiles
    BY DEF SetupInv, RolesKnown, Kinds, Made, Cleanup
  <1>3. OwnerProgress(o)'
    <2>1. SUFFICES ASSUME Own(o), call[o].stage \in Making
                   PROVE  OwnerProgress(o)'
      BY <1>1 DEF OwnerProgress, Own
    <2>. DEFINE d == call[o].profile
    <2>2. d \in Profiles /\ Exists(d) /\ database[d].by = o /\ role[d] # c
      BY <1>2, <2>1 DEF SetupInv, MakersKnown, Kinds, Making, Made, Cleanup
    <2>3. Keeps(c, d)
      <3>1. Stays(d)
        <4>1. At(c, "drop database") => database[call[c].profile].by = c
          BY DEF SetupInv, MakersKnown, Kinds, At, Making
        <4>. QED
          BY <2>2, <4>1 DEF Frame
      <3>. QED
        BY <2>2, <3>1 DEF Frame
    <2>4. OwnerProgress(o)
      BY DEF SetupInv, OwnersProgress
    <2>. QED
      BY <1>1, <2>1, <2>2, <2>3, <2>4 DEF OwnerProgress, Keeps, Own
  <1>4. GuestProgress(o)'
    <2>. DEFINE d == call[o].target
    <2>1. SUFFICES ASSUME ~ Own(o), call[o].stage \in Checked, Stays(d), database'[d].by = call[o].serves
                   PROVE  GuestProgress(o)'
      BY <1>1 DEF GuestProgress, Own, Exists, Stays
    <2>2. d \in Profiles
      BY <2>1, CallTypes DEF Own, SetupInv
    <2>3. Exists(d) /\ Keeps(c, d)
      <3>1. SUFFICES ASSUME At(c, "create database"), database'[d] = New(c)
                     PROVE  FALSE
        BY <2>1, <2>2 DEF Frame
      <3>2. call[o].serves = c
        <4>1. New(c).by = c
          BY DEF New
        <4>. QED
          BY <2>1, <3>1, <4>1
      <3>3. Began(c)
        BY <2>1, <3>2 DEF SetupInv, ServedKnown
      <3>. QED
        BY <3>1, <3>3 DEF Began, At, Making, Cleanup, Over
    <2>4. GuestProgress(o) /\ database[d].by = call[o].serves
      BY <2>1, <2>3 DEF SetupInv, GuestsProgress, Keeps
    <2>5. call[o].stage \in {"grant tables", "recheck", "write", "done"} =>
            role[call[o].profile] # c /\ call[o].profile \in Profiles
      BY <1>2 DEF Made
    <2>. QED
      BY <1>1, <2>1, <2>3, <2>4, <2>5 DEF GuestProgress, Keeps, Own, Exists
  <1>. QED
    BY <1>3, <1>4

LEMMA StagesBefore ==
  ASSUME NEW c \in Calls, Kinds, NEW stage, Onward(c, stage)
  PROVE  /\ stage = "create database" => call[c].stage = "create role"
         /\ stage = "revoke public" => call[c].stage = "create database"
         /\ stage = "grant connect" => call[c].stage \in {"create role", "revoke public"}
         /\ stage = "drop role" =>
              \/ call[c].stage = "create database"
              \/ call[c].stage \in {"drop database", "revoke connect"} /\ stage = Following(c)
         /\ stage = "revoke connect" =>
              \/ call[c].stage = "grant connect"
              \/ call[c].stage = "drop owned" /\ stage = Following(c)
  <1>1. CASE stage = "dead"
    BY <1>1
  <1>2. CASE stage # "dead" /\ call[c].stage \in Cleanup
    BY <1>2, Order DEF Onward, Cleanup
  <1>3. CASE stage # "dead" /\ call[c].stage \in Statements \ Cleanup
    BY <1>3, Order, ZenonT(60) DEF Onward, Kinds, Statements, Cleanup
  <1>. QED
    BY <1>1, <1>2, <1>3 DEF Onward

LEMMA PrivilegesMove ==
  ASSUME SetupInv, NEW c \in Calls, NEW stage, NEW lost,
         Moves(c, stage, lost), Frame(c, stage, lost), RoleEffect(c, stage, lost)
  PROVE  PrivilegesKnown'
  <1>1. /\ \A o \in Calls \ {c} : call'[o] = call[o]
        /\ call'[c].stage = stage /\ call'[c].profile = call[c].profile /\ call'[c].lost = lost
        /\ call'[c].target = call[c].target /\ (call[c].lost => lost)
        /\ Onward(c, stage) /\ Kinds /\ call[c].profile \in Profiles
    BY DEF Moves, Goes, SetupInv, Onward, Kinds, Statements, Cleanup
  <1>2. ASSUME NEW d \in Profiles, Stays(d), NEW q \in database'[d].connect \cup database'[d].tables,
               NEW o, o = role'[q]
        PROVE  /\ o \in Calls /\ d = IF call'[o].target = None THEN call'[o].profile ELSE call'[o].target
               /\ call'[o].stage \notin {"create database", "revoke public"}
               /\ call'[o].stage = "drop role" => call'[o].lost
               /\ q \in database'[d].tables =>
                    /\ call'[o].stage # "grant connect"
                    /\ call'[o].stage = "revoke connect" => call'[o].lost
    <2>1. database'[d] # New(c)
      <3>1. New(c).connect = {} /\ New(c).tables = {}
        BY DEF New
      <3>. QED
        BY <1>2, <3>1
    <2>2. Exists(d) /\ Keeps(c, d)
      BY <1>2, <2>1 DEF Frame
    <2>3. q \in Profiles
      BY <1>2 DEF Frame, Databases, Stays
    <2>4. CASE role[q] # c
      <3>1. /\ q \in database'[d].connect <=> q \in database[d].connect
            /\ q \in database'[d].tables <=> q \in database[d].tables
        BY <2>2, <2>3, <2>4 DEF Keeps
      <3>2. o = role[q]
        BY <1>2, <2>2, <3>1, RolesStay
      <3>3. o \in Calls
        BY <1>2, <2>2, <3>1, <3>2 DEF SetupInv, PrivilegesKnown
      <3>4. /\ Place(o) = d
            /\ call[o].stage \notin {"create database", "revoke public"}
            /\ call[o].stage = "drop role" => call[o].lost
            /\ q \in database[d].tables =>
                    /\ call[o].stage # "grant connect"
                    /\ call[o].stage = "revoke connect" => call[o].lost
        BY <1>2, <2>2, <3>1, <3>2 DEF SetupInv, PrivilegesKnown, At
      <3>5. call'[o] = call[o]
        BY <1>1, <2>4, <3>2, <3>3
      <3>. QED
        BY <3>1, <3>3, <3>4, <3>5 DEF Place, Own
    <2>5. CASE role[q] = c
      <3>1. q = call[c].profile /\ call[c].stage \in Made
        BY <1>1, <2>3, <2>5, NoneIsNothing DEF SetupInv, RolesKnown, Onward, Statements, Cleanup, At
      <3>2. /\ q \in database'[d].connect \ database[d].connect => d = Place(c) /\ At(c, "grant connect")
            /\ q \in database'[d].tables \ database[d].tables =>
                 d = Place(c) /\ call[c].stage \in {"tables", "grant tables"}
        BY <2>2, <2>3, <2>5 DEF Keeps
      <3>3. /\ q \in database[d].connect \cup database[d].tables =>
                 /\ Place(c) = d
                 /\ call[c].stage \notin {"create database", "revoke public"}
            /\ q \in database[d].tables =>
                 /\ call[c].stage # "grant connect"
                 /\ call[c].stage = "revoke connect" => call[c].lost
        BY <2>2, <2>5 DEF SetupInv, PrivilegesKnown, At
      <3>4. Place(c) = d /\ call[c].stage \notin {"create database", "revoke public"}
        BY <1>2, <3>2, <3>3 DEF At
      <3>5. role'[q] = c
        <4>1. CASE role' = role
          BY <2>5, <4>1
        <4>2. CASE At(c, "create role")
          BY <3>1, <4>2 DEF At, Made, Cleanup
        <4>3. CASE NothingDependsOn(call[c].profile) /\ database' = database
          BY <1>2, <2>2, <3>1, <4>3 DEF NothingDependsOn
        <4>. QED
          BY <4>1, <4>2, <4>3 DEF RoleEffect
      <3>6. stage \notin {"create database", "revoke public", "grant connect"}
        BY <1>1, <3>1, <3>4, StagesBefore DEF Made, Cleanup
      <3>7. ASSUME stage = "drop role"
            PROVE  lost
        <4>2. call[c].stage \in {"drop database", "revoke connect"} /\ stage = Following(c)
          BY <1>1, <3>4, <3>7, StagesBefore
        <4>3. CASE At(c, "drop database")
          BY <1>1, <1>2, <3>4, <4>2, <4>3 DEF Frame, Kinds, Place, At
        <4>4. CASE At(c, "revoke connect")
          <5>1. q \notin database'[d].connect
            BY <1>2, <3>1, <3>4, <4>2, <4>4 DEF Frame
          <5>2. q \in database[d].tables
            BY <1>2, <3>2, <4>4, <5>1 DEF At
          <5>. QED
            BY <1>1, <3>3, <4>4, <5>2 DEF At
        <4>. QED
          BY <4>2, <4>3, <4>4 DEF At
      <3>8. ASSUME q \in database'[d].tables, stage = "revoke connect"
            PROVE  lost
        <4>2. \/ call[c].stage = "grant connect"
              \/ call[c].stage = "drop owned" /\ stage = Following(c)
          BY <1>1, <3>8, StagesBefore
        <4>3. call[c].stage # "grant connect"
          BY <3>2, <3>3, <3>8
        <4>. QED
          BY <1>2, <3>1, <3>4, <3>8, <4>2, <4>3 DEF Frame, At
      <3>. QED
        BY <1>1, <1>2, <3>4, <3>5, <3>6, <3>7, <3>8 DEF Place, Own
    <2>. QED
      BY <2>4, <2>5
  <1>3. ASSUME NEW d \in Profiles, Stays(d)
        PROVE  /\ \A q \in database'[d].connect \cup database'[d].tables :
                    /\ role'[q] \in Calls
                    /\ d = IF call'[role'[q]].target = None THEN call'[role'[q]].profile
                           ELSE call'[role'[q]].target
                    /\ call'[role'[q]].stage \notin {"create database", "revoke public"}
                    /\ call'[role'[q]].stage = "drop role" => call'[role'[q]].lost
               /\ \A q \in database'[d].tables :
                    /\ call'[role'[q]].stage # "grant connect"
                    /\ call'[role'[q]].stage = "revoke connect" => call'[role'[q]].lost
    BY <1>2, <1>3, ZenonT(60)
  <1>. QED
    BY <1>3 DEF PrivilegesKnown, At, Place, Own, Exists, Stays

-----------------------------------------------------------------------------
(* How far the call itself comes                                           *)

LEMMA FailedProgress ==
  ASSUME NEW c \in Calls, NEW stage, NEW lost, Goes(c, stage, lost),
         stage \in Cleanup \cup {"failed", "stuck", "dead"}
  PROVE  OwnerProgress(c)' /\ GuestProgress(c)'
  BY DEF Goes, OwnerProgress, GuestProgress, Cleanup

LEMMA OnErrorFails ==
  ASSUME NEW c \in Calls
  PROVE  OnError(c) \in Cleanup \cup {"failed", "stuck", "dead"}
  BY DEF OnError, Cleanup

\* The statements that leave the databases as they are, and any that is refused.
Quiet(c, stage) ==
  /\ database' = database
  /\ stage = Following(c) =>
       call[c].stage \in {"check", "text", "schema", "create role", "recheck", "write",
                          "terminate", "drop role"}
  /\ At(c, "schema") /\ stage = Following(c) => Ready(Place(c))
  /\ At(c, "drop role") /\ stage = Following(c) => NothingDependsOn(call[c].profile)

LEMMA SameKeeps ==
  ASSUME NEW c, NEW p \in Profiles, database'[p] = database[p]
  PROVE  Keeps(c, p)
  BY DEF Keeps

LEMMA QuietFrame ==
  ASSUME SetupInv, NEW c \in Calls, NEW stage, NEW lost, Quiet(c, stage)
  PROVE  Frame(c, stage, lost)
  <1>1. /\ database' \in [Profiles -> Databases \cup {None}]
        /\ \A p \in Profiles : Keeps(c, p)
    BY SameKeeps, TableTypes DEF Quiet
  <1>2. call[c].stage \in {"create database", "drop database", "revoke connect", "drop owned"} =>
          stage # Following(c)
    BY DEF Quiet
  <1>3. \A p : Stays(p) <=> Exists(p)
    BY DEF Quiet, Stays, Exists
  <1>. QED
    BY <1>1, <1>2, <1>3 DEF Frame, At, Quiet

LEMMA QuietProgress ==
  ASSUME SetupInv, NEW c \in Calls, NEW stage, NEW lost, Moves(c, stage, lost), Quiet(c, stage)
  PROVE  OwnerProgress(c)' /\ GuestProgress(c)'
  <1>1. /\ call'[c].stage = stage /\ call'[c].profile = call[c].profile
        /\ call'[c].target = call[c].target /\ Onward(c, stage) /\ Kinds
        /\ call[c].stage # "check" => call'[c].serves = call[c].serves
    BY DEF Moves, Goes, SetupInv, At
  <1>2. OwnerProgress(c) /\ GuestProgress(c)
    BY DEF SetupInv, OwnersProgress, GuestsProgress
  <1>3. CASE stage = "dead" \/ stage = OnError(c)
    BY <1>3, FailedProgress, OnErrorFails DEF Moves
  <1>4. CASE stage = Following(c)
    <2>1. call[c].stage \in {"check", "text", "schema", "create role", "recheck", "write",
                             "terminate", "drop role"}
      BY <1>4 DEF Quiet
    <2>2. /\ call[c].stage = "check" => stage = "text"
          /\ call[c].stage = "text" => stage \in {"create role", "schema"} /\ (stage = "create role" => Own(c))
          /\ call[c].stage = "schema" => stage = "create role" /\ ~ Own(c)
          /\ call[c].stage = "create role" =>
               stage \in {"create database", "grant connect"} /\ (stage = "grant connect" => ~ Own(c))
          /\ call[c].stage = "recheck" => stage = "write" /\ ~ Own(c)
          /\ call[c].stage = "write" => stage = "done"
          /\ call[c].stage \in {"terminate", "drop role"} => stage \in Cleanup \cup {"failed"}
      BY <1>1, <1>4, <2>1, Order DEF Onward, Kinds, Cleanup
    <2>3. CASE call[c].stage \in {"check", "text", "terminate", "drop role"}
      BY <1>1, <2>2, <2>3 DEF OwnerProgress, GuestProgress, Own, Cleanup, Making
    <2>4. CASE call[c].stage = "schema"
      <3>1. Place(c) = call[c].target /\ Ready(call[c].target)
        BY <1>4, <2>2, <2>4 DEF Quiet, Place, At
      <3>. QED
        BY <1>1, <2>2, <2>4, <3>1 DEF OwnerProgress, GuestProgress, Own, Ready, Quiet
    <2>5. CASE call[c].stage \in {"create role", "recheck", "write"}
      <3>1. OwnerProgress(c)'
        BY <1>1, <1>2, <2>2, <2>5 DEF OwnerProgress, Own, Making, Quiet
      <3>2. GuestProgress(c)'
        BY <1>1, <1>2, <2>2, <2>5 DEF GuestProgress, Own, Checked, Statements, Cleanup, Quiet, Exists
      <3>. QED
        BY <3>1, <3>2
    <2>. QED
      BY <2>1, <2>3, <2>4, <2>5
  <1>. QED
    BY <1>1, <1>3, <1>4 DEF Onward

\* What a call knows of its place when it makes a statement there.
LEMMA AtWork ==
  ASSUME SetupInv, NEW c \in Calls,
         call[c].stage \in {"revoke public", "grant connect", "prepare", "tables",
                            "grant tables", "drop owned", "revoke connect"},
         Accepted(c)
  PROVE  LET p == call[c].profile  d == Place(c) IN
         /\ p \in Profiles /\ d \in Profiles /\ Exists(d) /\ database[d] \in Databases
         /\ role[p] = c
         /\ \A q \in Profiles : role[q] # c => q # p
         /\ Own(c) => d = p /\ database[d].by = c
         /\ ~ Own(c) => d = call[c].target
         /\ OwnerProgress(c) /\ GuestProgress(c)
  <1>1. call[c].profile \in Profiles /\ role[call[c].profile] = c
    BY DEF SetupInv, Kinds, RolesKnown, Made, Cleanup
  <1>2. Place(c) \in Profiles
    BY <1>1, CallTypes DEF SetupInv, Place, Own
  <1>3. Own(c) => Exists(Place(c)) /\ database[Place(c)].by = c
    BY DEF SetupInv, Kinds, MakersKnown, Making, Place
  <1>4. Exists(Place(c))
    <2>1. CASE call[c].stage \in {"tables"}
      BY <2>1 DEF Accepted, At, CanConnect
    <2>2. CASE call[c].stage # "tables"
      BY <2>2 DEF Accepted, At
    <2>. QED
      BY <2>1, <2>2
  <1>5. OwnerProgress(c) /\ GuestProgress(c)
    BY DEF SetupInv, OwnersProgress, GuestsProgress
  <1>. QED
    BY <1>1, <1>2, <1>3, <1>4, <1>5, TableTypes DEF Place

LEMMA UpdateFrame ==
  ASSUME SetupInv, NEW c \in Calls, NEW stage, NEW lost,
         NEW d \in Profiles, d = Place(c), Exists(d), NEW new \in Databases,
         database' = [database EXCEPT ![d] = new],
         Keeps(c, d),
         call[c].stage \in {"revoke public", "grant connect", "prepare", "tables",
                            "grant tables", "revoke connect"},
         call[c].stage = "revoke connect" => call[c].profile \notin new.connect
  PROVE  Frame(c, stage, lost)
  <1>1. /\ database' \in [Profiles -> Databases \cup {None}] /\ database'[d] = new
        /\ \A p \in Profiles \ {d} : database'[p] = database[p]
    BY TableTypes
  <1>2. \A p \in Profiles : Keeps(c, p)
    BY <1>1, SameKeeps
  <1>3. new # None
    BY NoneIsNothing
  <1>4. \A p \in Profiles : Stays(p) <=> Exists(p)
    BY <1>1, <1>3 DEF Stays, Exists
  <1>. QED
    BY <1>1, <1>2, <1>4 DEF Frame, At

LEMMA RevokePublicFrame ==
  ASSUME SetupInv, NEW c \in Calls, NEW stage, NEW lost, RevokePublic(c), Moves(c, stage, lost),
         stage = Following(c) \/ stage = OnError(c)
  PROVE  Frame(c, stage, lost) /\ OwnerProgress(c)' /\ GuestProgress(c)'
  <1>. DEFINE d == Place(c)
              new == [database[d] EXCEPT !.public = FALSE]
  <1>1. call[c].stage = "revoke public" /\ Accepted(c)
    BY DEF RevokePublic, Executes, At
  <1>2. /\ call[c].profile \in Profiles /\ d \in Profiles /\ Exists(d) /\ database[d] \in Databases
        /\ role[call[c].profile] = c /\ OwnerProgress(c)
        /\ \A q \in Profiles : role[q] # c => q # call[c].profile
    BY <1>1, AtWork
  <1>3. Own(c) /\ d = call[c].profile /\ database[d].by = c
    BY <1>1, AtWork DEF SetupInv, Kinds
  <1>4. new \in Databases /\ database' = [database EXCEPT ![d] = new] /\ database'[d] = new
    BY <1>2, TableTypes DEF RevokePublic, Databases
  <1>5. Keeps(c, d)
    BY <1>2, <1>4, ZenonT(60) DEF Keeps, Databases
  <1>. HIDE DEF d
  <1>6. Frame(c, stage, lost)
    BY <1>1, <1>2, <1>4, <1>5, UpdateFrame DEF d
  <1>7. CASE stage = Following(c)
    <2>1. stage = "grant connect" /\ call'[c].stage = stage /\ call'[c].profile = d /\ call'[c].target = None
      BY <1>1, <1>3, <1>7 DEF Following, At, Moves, Goes, Own
    <2>2. database[d].schema = "empty"
      BY <1>1, <1>2, <1>3 DEF OwnerProgress, Making
    <2>3. database'[d].schema = "empty" /\ ~ database'[d].public
      BY <1>2, <1>4, <2>2 DEF Databases
    <2>. QED
      BY <1>6, <2>1, <2>3 DEF OwnerProgress, GuestProgress, Own
  <1>8. CASE stage = OnError(c)
    BY <1>6, <1>8, FailedProgress, OnErrorFails DEF Moves
  <1>. QED
    BY <1>7, <1>8

LEMMA GrantConnectFrame ==
  ASSUME SetupInv, NEW c \in Calls, NEW stage, NEW lost, GrantConnect(c), Moves(c, stage, lost),
         stage = Following(c) \/ stage = OnError(c)
  PROVE  Frame(c, stage, lost) /\ OwnerProgress(c)' /\ GuestProgress(c)'
  <1>. DEFINE d == Place(c)
              new == [database[d] EXCEPT !.connect = @ \cup {call[c].profile}]
  <1>1. call[c].stage = "grant connect" /\ Accepted(c)
    BY DEF GrantConnect, Executes, At
  <1>2. /\ call[c].profile \in Profiles /\ d \in Profiles /\ Exists(d) /\ database[d] \in Databases
        /\ role[call[c].profile] = c /\ OwnerProgress(c) /\ GuestProgress(c)
        /\ \A q \in Profiles : role[q] # c => q # call[c].profile
        /\ Own(c) => d = call[c].profile
        /\ ~ Own(c) => d = call[c].target
    BY <1>1, AtWork
  <1>3. new \in Databases /\ database' = [database EXCEPT ![d] = new] /\ database'[d] = new
    BY <1>2, TableTypes DEF GrantConnect, Databases
  <1>4. Keeps(c, d)
    <2>1. /\ database'[d].by = database[d].by /\ database'[d].public = database[d].public
          /\ database'[d].connect = database[d].connect \cup {call[c].profile} /\ database'[d].schema = database[d].schema
          /\ database'[d].tables = database[d].tables
      BY <1>2, <1>3 DEF Databases
    <2>. QED
      BY <1>1, <1>2, <2>1 DEF Keeps, At
  <1>. HIDE DEF d
  <1>5. Frame(c, stage, lost)
    BY <1>1, <1>2, <1>3, <1>4, UpdateFrame DEF d
  <1>6. CASE stage = Following(c)
    <2>1. /\ call'[c].stage = stage /\ call'[c].profile = call[c].profile
          /\ call'[c].target = call[c].target /\ call'[c].serves = call[c].serves
          /\ stage = IF Own(c) THEN "prepare" ELSE "grant tables"
      BY <1>1, <1>6 DEF Following, At, Moves, Goes
    <2>2. /\ database'[d].schema = database[d].schema /\ database'[d].public = database[d].public
          /\ database'[d].by = database[d].by /\ call[c].profile \in database'[d].connect
      BY <1>2, <1>3 DEF Databases
    <2>3. OwnerProgress(c)'
      BY <1>1, <1>2, <2>1, <2>2 DEF OwnerProgress, Making, Own
    <2>4. GuestProgress(c)'
      BY <1>1, <1>2, <2>1, <2>2 DEF GuestProgress, Checked, Statements, Own, Cleanup
    <2>. QED
      BY <1>5, <2>3, <2>4
  <1>7. CASE stage = OnError(c)
    BY <1>5, <1>7, FailedProgress, OnErrorFails DEF Moves
  <1>. QED
    BY <1>6, <1>7

LEMMA PrepareFrame ==
  ASSUME SetupInv, NEW c \in Calls, NEW stage, NEW lost, Prepare(c), Moves(c, stage, lost),
         stage = Following(c) \/ stage = OnError(c)
  PROVE  Frame(c, stage, lost) /\ OwnerProgress(c)' /\ GuestProgress(c)'
  <1>. DEFINE d == Place(c)
              new == [database[d] EXCEPT !.schema = "prepared"]
  <1>1. call[c].stage = "prepare" /\ Accepted(c)
    BY DEF Prepare, Executes, At
  <1>2. /\ call[c].profile \in Profiles /\ d \in Profiles /\ Exists(d) /\ database[d] \in Databases
        /\ role[call[c].profile] = c /\ OwnerProgress(c)
        /\ \A q \in Profiles : role[q] # c => q # call[c].profile
    BY <1>1, AtWork
  <1>3. Own(c) /\ d = call[c].profile /\ database[d].by = c
    BY <1>1, AtWork DEF SetupInv, Kinds
  <1>4. database[d].schema = "empty" /\ ~ database[d].public /\ call[c].profile \in database[d].connect
    BY <1>1, <1>2, <1>3 DEF OwnerProgress, Making
  <1>5. new \in Databases /\ database' = [database EXCEPT ![d] = new] /\ database'[d] = new
    BY <1>2, TableTypes DEF Prepare, Databases
  <1>6. Keeps(c, d)
    BY <1>2, <1>3, <1>4, <1>5, ZenonT(60) DEF Keeps, Databases
  <1>. HIDE DEF d
  <1>7. Frame(c, stage, lost)
    BY <1>1, <1>2, <1>5, <1>6, UpdateFrame DEF d
  <1>8. CASE stage = Following(c)
    <2>1. stage = "tables" /\ call'[c].stage = stage /\ call'[c].profile = d /\ call'[c].target = None
      BY <1>1, <1>3, <1>8 DEF Following, At, Moves, Goes, Own
    <2>2. ~ database'[d].public /\ d \in database'[d].connect
      BY <1>2, <1>3, <1>4, <1>5 DEF Databases
    <2>. QED
      BY <1>7, <2>1, <2>2 DEF OwnerProgress, GuestProgress, Own
  <1>9. CASE stage = OnError(c)
    BY <1>7, <1>9, FailedProgress, OnErrorFails DEF Moves
  <1>. QED
    BY <1>8, <1>9

LEMMA CreateTablesFrame ==
  ASSUME SetupInv, NEW c \in Calls, NEW stage, NEW lost, CreateTables(c), Moves(c, stage, lost),
         stage = Following(c) \/ stage = OnError(c)
  PROVE  Frame(c, stage, lost) /\ OwnerProgress(c)' /\ GuestProgress(c)'
  <1>. DEFINE d == Place(c)
              new == [database[d] EXCEPT !.schema = "ready", !.tables = @ \cup {call[c].profile}]
  <1>1. call[c].stage = "tables" /\ Accepted(c)
    BY DEF CreateTables, Executes, At
  <1>2. /\ call[c].profile \in Profiles /\ d \in Profiles /\ Exists(d) /\ database[d] \in Databases
        /\ role[call[c].profile] = c /\ OwnerProgress(c)
        /\ \A q \in Profiles : role[q] # c => q # call[c].profile
    BY <1>1, AtWork
  <1>3. Own(c) /\ d = call[c].profile /\ database[d].by = c
    BY <1>1, AtWork DEF SetupInv, Kinds
  <1>4. ~ database[d].public /\ call[c].profile \in database[d].connect
    BY <1>1, <1>2, <1>3 DEF OwnerProgress, Making
  <1>5. new \in Databases /\ database' = [database EXCEPT ![d] = new] /\ database'[d] = new
    BY <1>2, TableTypes DEF CreateTables, Databases
  <1>6. Keeps(c, d)
    BY <1>1, <1>2, <1>3, <1>4, <1>5 DEF Keeps, Databases, At
  <1>. HIDE DEF d
  <1>7. Frame(c, stage, lost)
    BY <1>1, <1>2, <1>5, <1>6, UpdateFrame DEF d
  <1>8. CASE stage = Following(c)
    <2>1. stage = "write" /\ call'[c].stage = stage /\ call'[c].profile = d /\ call'[c].target = None
      BY <1>1, <1>3, <1>8 DEF Following, At, Moves, Goes, Own
    <2>2. /\ ~ database'[d].public /\ d \in database'[d].connect
          /\ database'[d].schema = "ready" /\ d \in database'[d].tables
      <3>1. /\ database'[d].public = database[d].public /\ database'[d].connect = database[d].connect
            /\ database'[d].schema = "ready" /\ database'[d].tables = database[d].tables \cup {call[c].profile}
        BY <1>2, <1>5 DEF Databases
      <3>. QED
        BY <1>3, <1>4, <3>1
    <2>. QED
      BY <1>7, <2>1, <2>2 DEF OwnerProgress, GuestProgress, Own
  <1>9. CASE stage = OnError(c)
    BY <1>7, <1>9, FailedProgress, OnErrorFails DEF Moves
  <1>. QED
    BY <1>8, <1>9

LEMMA GrantTablesFrame ==
  ASSUME SetupInv, NEW c \in Calls, NEW stage, NEW lost, GrantTables(c), Moves(c, stage, lost),
         stage = Following(c) \/ stage = OnError(c)
  PROVE  Frame(c, stage, lost) /\ OwnerProgress(c)' /\ GuestProgress(c)'
  <1>. DEFINE d == Place(c)
              new == [database[d] EXCEPT !.tables = IF Ready(d) THEN @ \cup {call[c].profile} ELSE @]
  <1>1. call[c].stage = "grant tables" /\ Accepted(c)
    BY DEF GrantTables, Executes, At
  <1>2. /\ call[c].profile \in Profiles /\ d \in Profiles /\ Exists(d) /\ database[d] \in Databases
        /\ role[call[c].profile] = c /\ GuestProgress(c)
        /\ \A q \in Profiles : role[q] # c => q # call[c].profile
    BY <1>1, AtWork
  <1>3. ~ Own(c) /\ d = call[c].target
    BY <1>1, AtWork DEF SetupInv, Kinds
  <1>4. new \in Databases /\ database' = [database EXCEPT ![d] = new] /\ database'[d] = new
    <2>1. CASE Ready(d)
      BY <1>2, <2>1, TableTypes DEF GrantTables, Databases
    <2>2. CASE ~ Ready(d)
      BY <1>2, <2>2, TableTypes DEF GrantTables, Databases
    <2>. QED
      BY <2>1, <2>2
  <1>5. Keeps(c, d)
    <2>1. /\ database'[d].by = database[d].by /\ database'[d].public = database[d].public
          /\ database'[d].connect = database[d].connect /\ database'[d].schema = database[d].schema
          /\ database'[d].tables = IF Ready(d) THEN database[d].tables \cup {call[c].profile} ELSE database[d].tables
      BY <1>2, <1>4, SMTT(40) DEF Databases
    <2>. QED
      BY <1>1, <1>2, <2>1 DEF Keeps, At
  <1>. HIDE DEF d
  <1>6. Frame(c, stage, lost)
    BY <1>1, <1>2, <1>4, <1>5, UpdateFrame DEF d
  <1>7. CASE stage = Following(c)
    <2>1. /\ call'[c].stage = "recheck" /\ call'[c].profile = call[c].profile
          /\ call'[c].target = d /\ call'[c].target # None /\ call'[c].serves = call[c].serves
      BY <1>1, <1>3, <1>7 DEF Following, At, Moves, Goes, Own
    <2>2. /\ database'[d].by = database[d].by /\ database'[d].schema = database[d].schema
          /\ database'[d].connect = database[d].connect
          /\ Ready(d) => call[c].profile \in database'[d].tables
      BY <1>2, <1>4 DEF Databases
    <2>3. database[d].by = call[c].serves =>
            database[d].schema = "ready" /\ call[c].profile \in database[d].connect
      BY <1>1, <1>2, <1>3 DEF GuestProgress, Checked, Statements, Cleanup
    <2>. QED
      BY <1>2, <1>6, <2>1, <2>2, <2>3 DEF OwnerProgress, GuestProgress, Own, Ready
  <1>8. CASE stage = OnError(c)
    BY <1>6, <1>8, FailedProgress, OnErrorFails DEF Moves
  <1>. QED
    BY <1>7, <1>8

LEMMA RevokeConnectFrame ==
  ASSUME SetupInv, NEW c \in Calls, NEW stage, NEW lost, RevokeConnect(c), Moves(c, stage, lost),
         stage = Following(c) \/ stage = OnError(c)
  PROVE  Frame(c, stage, lost) /\ OwnerProgress(c)' /\ GuestProgress(c)'
  <1>. DEFINE d == Place(c)
              new == [database[d] EXCEPT !.connect = @ \ {call[c].profile}]
  <1>1. call[c].stage = "revoke connect" /\ Accepted(c)
    BY DEF RevokeConnect, Executes, At
  <1>2. /\ call[c].profile \in Profiles /\ d \in Profiles /\ Exists(d) /\ database[d] \in Databases
        /\ role[call[c].profile] = c
        /\ \A q \in Profiles : role[q] # c => q # call[c].profile
    BY <1>1, AtWork
  <1>3. new \in Databases /\ database' = [database EXCEPT ![d] = new] /\ database'[d] = new
        /\ call[c].profile \notin new.connect
    BY <1>2, TableTypes DEF RevokeConnect, Databases
  <1>4. Keeps(c, d)
    <2>1. /\ database'[d].by = database[d].by /\ database'[d].public = database[d].public
          /\ database'[d].connect = database[d].connect \ {call[c].profile} /\ database'[d].schema = database[d].schema
          /\ database'[d].tables = database[d].tables
      BY <1>2, <1>3 DEF Databases
    <2>. QED
      BY <1>2, <2>1 DEF Keeps
  <1>. HIDE DEF d
  <1>5. Frame(c, stage, lost)
    BY <1>1, <1>2, <1>3, <1>4, UpdateFrame DEF d
  <1>6. stage \in Cleanup \cup {"failed", "stuck", "dead"}
    BY <1>1, OnErrorFails DEF Following, At, Cleanup
  <1>. QED
    BY <1>5, <1>6, FailedProgress DEF Moves

LEMMA DropOwnedFrame ==
  ASSUME SetupInv, NEW c \in Calls, NEW stage, NEW lost, DropOwned(c), Moves(c, stage, lost),
         stage = Following(c) \/ stage = OnError(c)
  PROVE  Frame(c, stage, lost) /\ OwnerProgress(c)' /\ GuestProgress(c)'
  <1>1. call[c].stage = "drop owned" /\ Accepted(c)
    BY DEF DropOwned, Executes, At
  <1>2. \A q \in Profiles : role[q] # c => q # call[c].profile
    BY <1>1, AtWork
  <1>. DEFINE new(d) == [database[d] EXCEPT !.connect = @ \ {call[c].profile},
                           !.tables = IF d = Place(c) THEN @ \ {call[c].profile} ELSE @]
  <1>3. database' = [d \in Profiles |-> IF ~Exists(d) THEN None ELSE new(d)]
    BY DEF DropOwned
  <1>4. ASSUME NEW d \in Profiles, Exists(d)
        PROVE  /\ new(d) \in Databases /\ new(d) # None /\ database'[d] = new(d)
               /\ new(d).by = database[d].by /\ new(d).public = database[d].public
               /\ new(d).schema = database[d].schema
               /\ new(d).connect = database[d].connect \ {call[c].profile}
               /\ new(d).tables = IF d = Place(c) THEN database[d].tables \ {call[c].profile}
                                  ELSE database[d].tables
    <2>1. database[d] \in Databases
      BY <1>4, TableTypes
    <2>2. new(d) \in Databases
      <3>1. CASE d = Place(c)
        BY <2>1, <3>1 DEF Databases
      <3>2. CASE d # Place(c)
        BY <2>1, <3>2 DEF Databases
      <3>. QED
        BY <3>1, <3>2
    <2>3. database'[d] = new(d)
      BY <1>3, <1>4
    <2>. QED
      BY <2>1, <2>2, <2>3, NoneIsNothing DEF Databases
  <1>. HIDE DEF new
  <1>5. ASSUME NEW d \in Profiles, Exists(d)
        PROVE  Keeps(c, d)
    BY <1>2, <1>4, <1>5, ZenonT(60) DEF Keeps
  <1>6. database' \in [Profiles -> Databases \cup {None}]
    BY <1>3, <1>4
  <1>7. \A d \in Profiles : Stays(d) <=> Exists(d)
    BY <1>3, <1>4 DEF Stays
  <1>8. Place(c) \in Profiles /\ Exists(Place(c))
    BY <1>1, AtWork
  <1>9. call[c].profile \notin database'[Place(c)].tables
    BY <1>4, <1>8
  <1>10. Frame(c, stage, lost)
    BY <1>1, <1>5, <1>6, <1>7, <1>9 DEF Frame, At
  <1>11. stage \in Cleanup \cup {"failed", "stuck", "dead"}
    BY <1>1, OnErrorFails DEF Following, At, Cleanup
  <1>. QED
    BY <1>10, <1>11, FailedProgress DEF Moves

LEMMA CreateDatabaseFrame ==
  ASSUME SetupInv, NEW c \in Calls, NEW stage, NEW lost, CreateDatabase(c), Moves(c, stage, lost),
         stage = Following(c) \/ (stage = OnError(c) /\ lost)
  PROVE  Frame(c, stage, lost) /\ OwnerProgress(c)' /\ GuestProgress(c)'
  <1>. DEFINE p == call[c].profile
  <1>1. call[c].stage = "create database" /\ Accepted(c)
    BY DEF CreateDatabase, Executes, At
  <1>2. p \in Profiles /\ Own(c) /\ Place(c) = p /\ ~ Exists(p)
    BY <1>1 DEF SetupInv, Kinds, Place, Accepted, At
  <1>3. New(c) \in Databases /\ New(c) # None /\ New(c).schema = "empty"
    <2>1. New(c) \in Databases /\ New(c).schema = "empty"
      BY DEF New, Databases
    <2>. QED
      BY <2>1, NoneIsNothing
  <1>4. database' = [database EXCEPT ![p] = New(c)]
    BY DEF CreateDatabase, New
  <1>5. /\ database' \in [Profiles -> Databases \cup {None}] /\ database'[p] = New(c)
        /\ \A d \in Profiles \ {p} : database'[d] = database[d]
    BY <1>2, <1>3, <1>4, TableTypes
  <1>6. \A d \in Profiles \ {p} : Keeps(c, d) /\ (Stays(d) <=> Exists(d))
    BY <1>5, SameKeeps DEF Stays, Exists
  <1>7. Stays(p)
    BY <1>3, <1>5 DEF Stays
  <1>. HIDE DEF p
  <1>8. Frame(c, stage, lost)
    <2>1. \A d \in Profiles : Stays(d) =>
            \/ Exists(d) /\ Keeps(c, d)
            \/ ~ Exists(d) /\ At(c, "create database") /\ d = call[c].profile /\ database'[d] = New(c)
      BY <1>1, <1>2, <1>5, <1>6 DEF p, At
    <2>2. \A d \in Profiles : Exists(d) => Stays(d)
      BY <1>2, <1>6
    <2>. QED
      BY <1>1, <1>5, <1>7, <2>1, <2>2 DEF Frame, At, p
  <1>9. CASE stage = Following(c)
    <2>1. stage = "revoke public" /\ call'[c].stage = stage /\ call'[c].profile = p /\ call'[c].target = None
      BY <1>1, <1>2, <1>9 DEF Following, At, Moves, Goes, Own, p
    <2>. QED
      BY <1>3, <1>5, <1>8, <2>1 DEF OwnerProgress, GuestProgress, Own
  <1>10. CASE stage = OnError(c)
    BY <1>8, <1>10, FailedProgress, OnErrorFails DEF Moves
  <1>. QED
    BY <1>9, <1>10

LEMMA DropDatabaseFrame ==
  ASSUME SetupInv, NEW c \in Calls, NEW stage, NEW lost, DropDatabase(c), Moves(c, stage, lost),
         stage = Following(c) \/ stage = OnError(c)
  PROVE  Frame(c, stage, lost) /\ OwnerProgress(c)' /\ GuestProgress(c)'
  <1>. DEFINE p == call[c].profile
  <1>1. call[c].stage = "drop database"
    BY DEF DropDatabase, Executes, At
  <1>2. p \in Profiles
    BY <1>1 DEF SetupInv, Kinds
  <1>3. /\ database' \in [Profiles -> Databases \cup {None}] /\ ~ Stays(p)
        /\ \A d \in Profiles \ {p} : database'[d] = database[d]
    BY <1>2, TableTypes DEF DropDatabase, Stays
  <1>4. \A d \in Profiles \ {p} : Keeps(c, d) /\ (Stays(d) <=> Exists(d))
    BY <1>3, SameKeeps DEF Stays, Exists
  <1>. HIDE DEF p
  <1>5. Frame(c, stage, lost)
    BY <1>1, <1>3, <1>4 DEF Frame, At, p
  <1>6. stage \in Cleanup \cup {"failed", "stuck", "dead"}
    BY <1>1, OnErrorFails DEF Following, At, Cleanup
  <1>. QED
    BY <1>5, <1>6, FailedProgress DEF Moves

-----------------------------------------------------------------------------
(* A step of a call that has started                                       *)

ConfigEffect(c, stage) ==
  \/ config' = config /\ stage # "done"
  \/ /\ At(c, "write") /\ stage = "done" /\ overlapped' = overlapped
     /\ config' = call[c].text \cup
          {[profile |-> call[c].profile, database |-> Place(c), by |-> c, serves |-> call[c].serves]}

TextEffect(c, stage) ==
  \/ overlapped' = overlapped /\ (call[c].stage = "text" => stage # Following(c))
  \/ /\ At(c, "text") /\ stage = Following(c) /\ config' = config
     /\ overlapped' = overlapped \cup
          IF \E other \in Calls : HoldsText(other)
          THEN {c} \cup {other \in Calls : HoldsText(other)} ELSE {}

Step(c, stage, lost) ==
  /\ Moves(c, stage, lost) /\ Frame(c, stage, lost) /\ RoleEffect(c, stage, lost)
  /\ ConfigEffect(c, stage) /\ TextEffect(c, stage)
  /\ At(c, "check") /\ stage = "text" => Accepted(c)
  /\ session' \subseteq Calls
  /\ OwnerProgress(c)' /\ GuestProgress(c)'

LEMMA StepTypes ==
  ASSUME SetupInv, NEW c \in Calls, NEW stage, NEW lost, Step(c, stage, lost)
  PROVE  ProfileTypeOK'
  <1>1. role' \in [Profiles -> Calls \cup {None}]
    BY TableTypes DEF Step, RoleEffect
  <1>2. database' \in [Profiles -> Databases \cup {None}]
    BY DEF Step, Frame
  <1>3. call' \in [Calls -> CallRecords]
    BY DEF Step, Moves, Goes
  <1>4. config' \subseteq Entries
    <2>1. CASE config' = config
      BY <2>1 DEF SetupInv, ProfileTypeOK
    <2>2. CASE /\ At(c, "write")
               /\ config' = call[c].text \cup
                    {[profile |-> call[c].profile, database |-> Place(c), by |-> c, serves |-> call[c].serves]}
      <3>1. call[c].profile \in Profiles /\ call[c].text \subseteq Entries
        BY <2>2, CallTypes DEF SetupInv, Kinds, At
      <3>2. Place(c) \in Profiles
        BY <3>1, CallTypes DEF SetupInv, Place, Own
      <3>3. call[c].serves \in Calls
        BY <2>2 DEF SetupInv, ServedKnown, At, Checked, Statements
      <3>. QED
        BY <2>2, <3>1, <3>2, <3>3 DEF Entries
    <2>. QED
      BY <2>1, <2>2 DEF Step, ConfigEffect
  <1>5. overlapped' \subseteq Calls
    BY DEF Step, TextEffect, SetupInv, ProfileTypeOK
  <1>. QED
    BY <1>1, <1>2, <1>3, <1>4, <1>5 DEF ProfileTypeOK, Step, CallRecords

LEMMA StepKeeps ==
  ASSUME SetupInv, NEW c \in Calls, NEW stage, NEW lost, Step(c, stage, lost)
  PROVE  SetupInv'
  <1>. USE DEF Step
  <1>1. Kinds' /\ RolesKnown' /\ MakersKnown' /\ Closed'
    BY KindsMove, RolesGo, MakersMove, ClosedMove
  <1>2. ServedKnown' /\ PrivilegesKnown'
    BY ServedMove, PrivilegesMove
  <1>3. OwnersProgress' /\ GuestsProgress'
    BY OthersProgress DEF OwnersProgress, GuestsProgress
  <1>4. EntriesKnown'
    BY EntriesMove, EntriesWritten DEF ConfigEffect
  <1>5. TextsKnown'
    <2>1. CASE config' = config /\ stage # "done"
      BY <2>1, TextsMove, TextsRead DEF TextEffect
    <2>2. CASE At(c, "write") /\ stage = "done"
      BY <2>2, TextsWritten DEF ConfigEffect
    <2>. QED
      BY <2>1, <2>2 DEF ConfigEffect
  <1>. QED
    BY <1>1, <1>2, <1>3, <1>4, <1>5, StepTypes DEF SetupInv

-----------------------------------------------------------------------------
(* Every action of a call that has started is such a step                  *)

LEMMA AfterFollowing ==
  ASSUME SetupInv, NEW c \in Calls, call[c].stage \in Statements
  PROVE  /\ Following(c) \in Stages /\ OnError(c) \in Stages
         /\ (Following(c) = "done" => call[c].stage = "write")
         /\ (Following(c) = "text" => call[c].stage = "check")
         /\ OnError(c) \notin {"done", "text"}
         /\ call[c].stage \in {"check", "text"} => OnError(c) \in Over
  <1>1. Kinds /\ Onward(c, Following(c)) /\ Onward(c, OnError(c))
    BY DEF SetupInv, Onward
  <1>2. call[c].stage \in {"check", "text"} => OnError(c) = "failed"
    BY <1>1, Order
  <1>3. OnError(c) \notin {"done", "text"}
    BY OnErrorFails DEF Cleanup
  <1>. QED
    BY <1>1, <1>2, <1>3, OnwardStages, HoldingStages DEF Over

LEMMA ProceedMoves ==
  ASSUME SetupInv, NEW c \in Calls, call[c].stage \in Statements \ {"check", "text"}, Proceed(c)
  PROVE  Moves(c, Following(c), call[c].lost)
  <1>1. Goes(c, Following(c), call[c].lost)
    BY TurnGoes, AfterFollowing DEF SetupInv, Proceed
  <1>. QED
    BY <1>1 DEF Moves, Onward

LEMMA AnswerMoves ==
  ASSUME SetupInv, NEW c \in Calls, call[c].stage \in Statements \ {"check", "text"}, Answer(c)
  PROVE  \E stage, lost : /\ Moves(c, stage, lost)
                          /\ stage = Following(c) \/ (stage = OnError(c) /\ lost)
  <1>1. CASE Proceed(c)
    BY <1>1, ProceedMoves
  <1>2. CASE call' = [call EXCEPT ![c] = [Turn(c, OnError(c)) EXCEPT !.lost = TRUE]]
    <2>1. Goes(c, OnError(c), TRUE)
      BY <1>2, LostGoes, AfterFollowing DEF SetupInv
    <2>2. Moves(c, OnError(c), TRUE)
      BY <2>1 DEF Moves, Onward
    <2>. QED
      BY <2>2
  <1>. QED
    BY <1>1, <1>2 DEF Answer

\* A step that touches neither the databases nor the roles nor config.toml.
LEMMA QuietStep ==
  ASSUME SetupInv, NEW c \in Calls, NEW stage, NEW lost,
         Moves(c, stage, lost), Quiet(c, stage), RoleEffect(c, stage, lost),
         ConfigEffect(c, stage), TextEffect(c, stage),
         At(c, "check") /\ stage = "text" => Accepted(c),
         session' \subseteq Calls
  PROVE  Step(c, stage, lost)
  BY QuietFrame, QuietProgress DEF Step

LEMMA SessionTypes == SetupInv => session \subseteq Calls
  BY DEF SetupInv, ProfileTypeOK

LEMMA CheckSteps ==
  ASSUME SetupInv, NEW c \in Calls, Check(c)
  PROVE  \E stage, lost : Step(c, stage, lost)
  <1>1. call[c].stage = "check" /\ Accepted(c) /\ Following(c) = "text"
    BY DEF Check, Executes, At, Following
  <1>. DEFINE new == [call[c] EXCEPT !.stage = "text", !.serves = Found(c)]
  <1>2. call' = [call EXCEPT ![c] = new]
    BY <1>1 DEF Check, Found
  <1>3. Found(c) \in Calls
    <2>1. CASE Own(c)
      BY <2>1 DEF Found
    <2>2. CASE ~ Own(c)
      <3>1. call[c].target \in Profiles
        BY <2>2, CallTypes DEF SetupInv, Own
      <3>2. Exists(call[c].target) /\ Place(c) = call[c].target
        BY <1>1, <2>2 DEF Accepted, At, Place
      <3>. QED
        BY <2>2, <3>1, <3>2, TableTypes DEF Found
    <2>. QED
      BY <2>1, <2>2
  <1>4. call[c] \in CallRecords /\ "text" \in Stages /\ call \in [Calls -> CallRecords]
    BY CallTypes DEF SetupInv, Stages, Statements
  <1>5. new \in CallRecords
    BY <1>3, <1>4 DEF CallRecords
  <1>6. call' \in [Calls -> CallRecords] /\ call'[c] = new /\ \A o \in Calls \ {c} : call'[o] = call[o]
    BY <1>2, <1>4, <1>5
  <1>7. /\ new.stage = "text" /\ new.lost = call[c].lost /\ new.profile = call[c].profile
        /\ new.target = call[c].target /\ new.serves = Found(c) /\ new.text = call[c].text
    BY <1>4 DEF CallRecords
  <1>. HIDE DEF new
  <1>8. Moves(c, "text", call[c].lost)
    BY <1>1, <1>6, <1>7 DEF Moves, Goes, Onward, At, Statements, Cleanup, Over
  <1>9. /\ Quiet(c, "text") /\ RoleEffect(c, "text", call[c].lost)
        /\ ConfigEffect(c, "text") /\ TextEffect(c, "text")
    BY <1>1 DEF Check, Quiet, RoleEffect, ConfigEffect, TextEffect, At
  <1>. QED
    BY <1>1, <1>8, <1>9, QuietStep, SessionTypes DEF Check

LEMMA ReadTextSteps ==
  ASSUME SetupInv, NEW c \in Calls, ReadText(c)
  PROVE  \E stage, lost : Step(c, stage, lost)
  <1>. DEFINE stage == Following(c)
              new == [call[c] EXCEPT !.stage = stage, !.text = config]
  <1>1. call[c].stage = "text" /\ stage \in {"create role", "schema"}
    BY DEF ReadText, Executes, At, Following
  <1>. HIDE DEF stage
  <1>2. call' = [call EXCEPT ![c] = new]
    BY DEF ReadText, stage
  <1>3. call[c] \in CallRecords /\ stage \in Stages /\ call \in [Calls -> CallRecords] /\ config \subseteq Entries
    BY <1>1, CallTypes DEF SetupInv, ProfileTypeOK, Stages, Statements
  <1>4. new \in CallRecords
    BY <1>3 DEF CallRecords
  <1>5. call' \in [Calls -> CallRecords] /\ call'[c] = new /\ \A o \in Calls \ {c} : call'[o] = call[o]
    BY <1>2, <1>3, <1>4
  <1>6. /\ new.stage = stage /\ new.lost = call[c].lost /\ new.profile = call[c].profile
        /\ new.target = call[c].target /\ new.serves = call[c].serves /\ new.text = config
    BY <1>3 DEF CallRecords
  <1>. HIDE DEF new
  <1>7. Moves(c, stage, call[c].lost)
    <2>1. Goes(c, stage, call[c].lost)
      BY <1>1, <1>5, <1>6 DEF Goes, At, Cleanup, Over
    <2>. QED
      BY <1>1, <2>1 DEF Moves, Onward, Statements, stage
  <1>8. Quiet(c, stage) /\ RoleEffect(c, stage, call[c].lost) /\ ConfigEffect(c, stage)
    BY <1>1 DEF ReadText, Quiet, RoleEffect, ConfigEffect, At
  <1>9. TextEffect(c, stage)
    BY <1>1 DEF ReadText, TextEffect, At, stage
  <1>. QED
    BY <1>1, <1>7, <1>8, <1>9, QuietStep, SessionTypes DEF ReadText, At

LEMMA CheckSchemaSteps ==
  ASSUME SetupInv, NEW c \in Calls, CheckSchema(c)
  PROVE  \E stage, lost : Step(c, stage, lost)
  <1>. DEFINE stage == Following(c)
  <1>1. call[c].stage = "schema" /\ Accepted(c) /\ stage = "create role"
    BY DEF CheckSchema, Executes, At, Following
  <1>2. Ready(Place(c))
    BY <1>1 DEF Accepted, At
  <1>3. Moves(c, stage, call[c].lost)
    BY <1>1, ProceedMoves DEF CheckSchema, Statements
  <1>4. /\ Quiet(c, stage) /\ RoleEffect(c, stage, call[c].lost)
        /\ ConfigEffect(c, stage) /\ TextEffect(c, stage)
    BY <1>1, <1>2 DEF CheckSchema, Quiet, RoleEffect, ConfigEffect, TextEffect, At
  <1>. QED
    BY <1>1, <1>3, <1>4, QuietStep, SessionTypes DEF CheckSchema, At

LEMMA RecheckSteps ==
  ASSUME SetupInv, NEW c \in Calls, Recheck(c)
  PROVE  \E stage, lost : Step(c, stage, lost)
  <1>. DEFINE stage == Following(c)
  <1>1. call[c].stage = "recheck" /\ stage = "write"
    BY DEF Recheck, Executes, At, Following
  <1>2. Moves(c, stage, call[c].lost)
    BY <1>1, ProceedMoves DEF Recheck, Statements
  <1>3. /\ Quiet(c, stage) /\ RoleEffect(c, stage, call[c].lost)
        /\ ConfigEffect(c, stage) /\ TextEffect(c, stage)
    BY <1>1 DEF Recheck, Quiet, RoleEffect, ConfigEffect, TextEffect, At
  <1>. QED
    BY <1>1, <1>2, <1>3, QuietStep, SessionTypes DEF Recheck, At

LEMMA WriteConfigSteps ==
  ASSUME SetupInv, NEW c \in Calls, WriteConfig(c)
  PROVE  \E stage, lost : Step(c, stage, lost)
  <1>. DEFINE stage == Following(c)
  <1>1. call[c].stage = "write" /\ stage = "done"
    BY DEF WriteConfig, Executes, At, Following
  <1>2. Moves(c, stage, call[c].lost)
    BY <1>1, ProceedMoves DEF WriteConfig, Statements
  <1>3. /\ Quiet(c, stage) /\ RoleEffect(c, stage, call[c].lost)
        /\ ConfigEffect(c, stage) /\ TextEffect(c, stage)
    BY <1>1 DEF WriteConfig, Quiet, RoleEffect, ConfigEffect, TextEffect, At
  <1>. QED
    BY <1>1, <1>2, <1>3, QuietStep, SessionTypes DEF WriteConfig, At

LEMMA CreateRoleSteps ==
  ASSUME SetupInv, NEW c \in Calls, CreateRole(c)
  PROVE  \E stage, lost : Step(c, stage, lost)
  <1>1. call[c].stage = "create role" /\ Accepted(c)
    BY DEF CreateRole, Executes, At
  <1>2. role[call[c].profile] = None
    BY <1>1 DEF Accepted, At
  <1>3. PICK stage, lost : Moves(c, stage, lost) /\ (stage = Following(c) \/ (stage = OnError(c) /\ lost))
    BY <1>1, AnswerMoves DEF CreateRole, Statements
  <1>4. stage \in {"create database", "grant connect", "failed"} /\ (stage = Following(c) \/ (stage = "failed" /\ lost))
    BY <1>1, <1>3, Order DEF SetupInv, Statements
  <1>5. Quiet(c, stage) /\ RoleEffect(c, stage, lost)
    BY <1>1, <1>2, <1>4 DEF CreateRole, Quiet, RoleEffect, At
  <1>6. ConfigEffect(c, stage) /\ TextEffect(c, stage)
    BY <1>1, <1>4 DEF CreateRole, ConfigEffect, TextEffect
  <1>. QED
    BY <1>1, <1>3, <1>5, <1>6, QuietStep, SessionTypes DEF CreateRole, At

LEMMA DropRoleSteps ==
  ASSUME SetupInv, NEW c \in Calls, DropRole(c)
  PROVE  \E stage, lost : Step(c, stage, lost)
  <1>1. call[c].stage = "drop role" /\ Accepted(c)
    BY DEF DropRole, Executes, At
  <1>2. NothingDependsOn(call[c].profile)
    BY <1>1 DEF Accepted, At
  <1>3. PICK stage, lost : Moves(c, stage, lost) /\ (stage = Following(c) \/ (stage = OnError(c) /\ lost))
    BY <1>1, AnswerMoves DEF DropRole, Statements, Cleanup
  <1>4. stage \in {"failed", "stuck"}
    BY <1>1, <1>3, Order DEF SetupInv, Statements, Cleanup
  <1>5. Quiet(c, stage) /\ RoleEffect(c, stage, lost)
    BY <1>1, <1>2, <1>4 DEF DropRole, Quiet, RoleEffect, At
  <1>6. ConfigEffect(c, stage) /\ TextEffect(c, stage)
    BY <1>1, <1>4 DEF DropRole, ConfigEffect, TextEffect
  <1>. QED
    BY <1>1, <1>3, <1>5, <1>6, QuietStep, SessionTypes DEF DropRole, At

LEMMA TerminateSteps ==
  ASSUME SetupInv, NEW c \in Calls, Terminate(c)
  PROVE  \E stage, lost : Step(c, stage, lost)
  <1>1. call[c].stage = "terminate"
    BY DEF Terminate, Executes, At
  <1>2. PICK stage, lost : Moves(c, stage, lost) /\ (stage = Following(c) \/ (stage = OnError(c) /\ lost))
    BY <1>1, AnswerMoves DEF Terminate, Statements, Cleanup
  <1>3. stage \in {"drop database", "stuck"}
    BY <1>1, <1>2, Order DEF SetupInv, Statements, Cleanup
  <1>4. /\ Quiet(c, stage) /\ RoleEffect(c, stage, lost)
        /\ ConfigEffect(c, stage) /\ TextEffect(c, stage)
    BY <1>1, <1>3 DEF Terminate, Quiet, RoleEffect, ConfigEffect, TextEffect, At
  <1>. QED
    BY <1>1, <1>2, <1>4, QuietStep, SessionTypes DEF Terminate, At

\* The statements that change a database.
Changing ==
  {"create database", "revoke public", "grant connect", "prepare", "tables", "grant tables",
   "drop database", "drop owned", "revoke connect"}

LEMMA ChangeSteps ==
  ASSUME SetupInv, NEW c \in Calls,
         \/ CreateDatabase(c) \/ RevokePublic(c) \/ GrantConnect(c) \/ Prepare(c)
         \/ CreateTables(c) \/ GrantTables(c)
         \/ DropDatabase(c) \/ DropOwned(c) \/ RevokeConnect(c)
  PROVE  \E stage, lost : Step(c, stage, lost)
  <1>1. /\ call[c].stage \in Changing /\ Answer(c)
        /\ role' = role /\ config' = config /\ overlapped' = overlapped
        /\ session' = session \/ session' = session \cup {c}
    BY DEF CreateDatabase, RevokePublic, GrantConnect, Prepare, CreateTables, GrantTables,
           DropDatabase, DropOwned, RevokeConnect, Executes, At, Changing
  <1>2. call[c].stage \in Statements \ {"check", "text", "write"}
    BY <1>1 DEF Changing, Statements, Cleanup
  <1>3. PICK stage, lost : Moves(c, stage, lost) /\ (stage = Following(c) \/ (stage = OnError(c) /\ lost))
    BY <1>1, <1>2, AnswerMoves
  <1>4. stage \notin {"done", "text"}
    BY <1>2, <1>3, AfterFollowing
  <1>5. RoleEffect(c, stage, lost) /\ ConfigEffect(c, stage) /\ TextEffect(c, stage)
    BY <1>1, <1>2, <1>4 DEF RoleEffect, ConfigEffect, TextEffect, Changing
  <1>6. Frame(c, stage, lost) /\ OwnerProgress(c)' /\ GuestProgress(c)'
    BY <1>3, CreateDatabaseFrame, RevokePublicFrame, GrantConnectFrame, PrepareFrame,
       CreateTablesFrame, GrantTablesFrame, DropDatabaseFrame, DropOwnedFrame, RevokeConnectFrame
  <1>. QED
    BY <1>1, <1>3, <1>4, <1>5, <1>6, SessionTypes, SMTT(40) DEF Step

LEMMA EndSteps ==
  ASSUME SetupInv, NEW c \in Calls, Refused(c) \/ Killed(c)
  PROVE  \E stage, lost : Step(c, stage, lost)
  <1>1. PICK stage \in {OnError(c), "dead"} : call' = [call EXCEPT ![c] = Turn(c, stage)]
    BY DEF Refused, Killed
  <1>2. /\ call[c].stage \in Statements
        /\ role' = role /\ database' = database /\ config' = config /\ overlapped' = overlapped
        /\ session' \subseteq session
    BY DEF Refused, Killed
  <1>3. stage \in Stages /\ (call[c].stage \in {"check", "text"} => stage \in Over)
    BY <1>1, <1>2, AfterFollowing DEF Stages, Over
  <1>4. Moves(c, stage, call[c].lost)
    BY <1>1, <1>2, <1>3, TurnGoes DEF Moves, Onward, SetupInv
  <1>5. stage \in Cleanup \cup {"failed", "stuck", "dead"}
    BY <1>1, OnErrorFails
  <1>6. stage # Following(c)
    <2>1. CASE call[c].stage \in Cleanup
      BY <1>1, <1>2, <2>1, Order DEF SetupInv, Cleanup
    <2>2. CASE call[c].stage \in Statements \ Cleanup
      BY <1>1, <1>2, <2>2, Order DEF SetupInv, Statements, Cleanup
    <2>. QED
      BY <1>2, <2>1, <2>2
  <1>7. stage \notin {"done", "text"}
    BY <1>5 DEF Cleanup
  <1>8. /\ Quiet(c, stage) /\ RoleEffect(c, stage, call[c].lost)
        /\ ConfigEffect(c, stage) /\ TextEffect(c, stage)
    BY <1>2, <1>6, <1>7 DEF Quiet, RoleEffect, ConfigEffect, TextEffect
  <1>. QED
    BY <1>2, <1>4, <1>7, <1>8, QuietStep, SessionTypes

-----------------------------------------------------------------------------
(* The start of a call                                                     *)

LEMMA StartKeeps ==
  ASSUME SetupInv, NEW c \in Calls, NEW p \in Profiles, NEW target \in Profiles \cup {None},
         Start(c, p, target)
  PROVE  SetupInv'
  <1>. DEFINE stage == IF Listed(config, p) THEN "failed" ELSE "check"
              new == [call[c] EXCEPT !.profile = p, !.target = target, !.stage = stage]
  <1>1. /\ call[c].stage = "idle" /\ call' = [call EXCEPT ![c] = new]
        /\ role' = role /\ database' = database /\ config' = config
        /\ session' = session /\ overlapped' = overlapped
    BY DEF Start, At
  <1>2. /\ call \in [Calls -> CallRecords] /\ call[c] \in CallRecords
        /\ \A o \in Calls : call[o] \in CallRecords
    BY CallTypes DEF SetupInv
  <1>3. new \in CallRecords
    <2>1. stage \in Stages
      BY DEF Stages, Statements, Over
    <2>. HIDE DEF stage
    <2>. QED
      BY <1>2, <2>1 DEF CallRecords
  <1>4. call' \in [Calls -> CallRecords] /\ call'[c] = new /\ \A o \in Calls \ {c} : call'[o] = call[o]
    BY <1>1, <1>2, <1>3
  <1>5. new.stage \in {"check", "failed"} /\ new.profile = p /\ new.text = call[c].text
    BY <1>2 DEF CallRecords
  <1>. HIDE DEF new
  <1>6. /\ \A q \in Profiles : role[q] # c
        /\ \A d \in Profiles : Exists(d) => database[d].by # c
    <2>1. ASSUME NEW q \in Profiles, role[q] = c
          PROVE  FALSE
      BY <1>1, <2>1, NoneIsNothing, ZenonT(60) DEF SetupInv, RolesKnown, Made, Cleanup, At
    <2>2. ASSUME NEW d \in Profiles, Exists(d), database[d].by = c
          PROVE  FALSE
      BY <1>1, <2>2, MakerHasRole DEF Making
    <2>. QED
      BY <2>1, <2>2
  <1>7. ~ Began(c) /\ ~ HoldsText(c) /\ ~ HoldsText(c)' /\ ~ At(c, "done")'
    BY <1>1, <1>4, <1>5 DEF Began, HoldsText, At, Making, Cleanup, Over, Statements
  <1>8. ASSUME NEW o \in Calls, o # c
        PROVE  /\ call'[o] = call[o] /\ (Own(o)' <=> Own(o)) /\ (Began(o)' <=> Began(o))
               /\ (HoldsText(o)' <=> HoldsText(o)) /\ (At(o, "done")' <=> At(o, "done"))
               /\ Place(o)' = Place(o)
    BY <1>4, <1>8 DEF Own, Began, HoldsText, At, Place
  <1>9. ProfileTypeOK'
    BY <1>1, <1>4 DEF SetupInv, ProfileTypeOK, CallRecords
  <1>10. Kinds'
    BY <1>4, <1>5, <1>8 DEF SetupInv, Kinds
  <1>11. RolesKnown'
    <2>1. \A o \in Calls : call'[o].stage \in Made => o # c
      BY <1>4, <1>5 DEF Made, Cleanup
    <2>2. ASSUME NEW q \in Profiles, role[q] # None
          PROVE  role[q] \in Calls \ {c} /\ call'[role[q]] = call[role[q]]
      BY <1>4, <1>6, <2>2, TableTypes
    <2>. QED
      BY <1>1, <1>4, <2>1, <2>2 DEF SetupInv, RolesKnown, At
  <1>12. MakersKnown'
    <2>1. ASSUME NEW o \in Calls, Own(o)', call'[o].stage \in Making
          PROVE  /\ o # c /\ database'[call'[o].profile] # None
                 /\ database'[call'[o].profile].by = o
      <3>1. o # c
        BY <1>4, <1>5, <2>1 DEF Making
      <3>. QED
        <4>1. call'[o] = call[o] /\ Own(o) /\ call[o].stage \in Making
          BY <1>8, <2>1, <3>1
        <4>2. Exists(call[o].profile) /\ database[call[o].profile].by = o
          BY <4>1 DEF SetupInv, MakersKnown
        <4>. QED
          BY <1>1, <3>1, <4>1, <4>2 DEF Exists
    <2>2. ASSUME NEW d \in Profiles, Stays(d), NEW o, o = database'[d].by
          PROVE  /\ call'[o].target = None /\ call'[o].profile = d /\ role'[d] = o
                 /\ call'[o].stage \in Making \cup {"drop role", "stuck", "dead"}
                 /\ call'[o].stage = "drop role" => call'[o].lost
      <3>1. Exists(d) /\ o = database[d].by
        BY <1>1, <2>2 DEF Stays, Exists
      <3>2. o \in Calls /\ o # c
        BY <1>6, <3>1, TableTypes
      <3>3. call'[o] = call[o] /\ role'[d] = role[d]
        BY <1>1, <1>8, <3>2
      <3>4. /\ call[o].target = None /\ call[o].profile = d /\ role[d] = o
            /\ call[o].stage \in Making \cup {"drop role", "stuck", "dead"}
            /\ call[o].stage = "drop role" => call[o].lost
        <4>1. Own(o) /\ call[o].profile = d /\ role[d] = o
          BY <3>1, <3>2, MakerHasRole
        <4>2. call[o].stage \in Making \cup {"drop role", "stuck", "dead"}
          BY <3>1, <3>2, MakerHasRole
        <4>3. call[o].stage = "drop role" => call[o].lost
          BY <3>1, <3>2, MakerHasRole
        <4>. QED
          BY <4>1, <4>2, <4>3 DEF Own
      <3>. QED
        BY <3>3, <3>4
    <2>3. \A o \in Calls : Own(o)' /\ call'[o].stage \in Making =>
            database'[call'[o].profile] # None /\ database'[call'[o].profile].by = o
      BY <2>1
    <2>4. \A d \in Profiles : Stays(d) =>
            LET o == database'[d].by IN
            /\ call'[o].target = None /\ call'[o].profile = d /\ role'[d] = o
            /\ call'[o].stage \in Making \cup {"drop role", "stuck", "dead"}
            /\ call'[o].stage = "drop role" => call'[o].lost
      BY <2>2
    <2>5. (\A o \in Calls : Own(o) /\ call[o].stage \in Making =>
             Exists(call[o].profile) /\ database[call[o].profile].by = o)'
      BY <2>3 DEF Exists
    <2>. QED
      BY <2>4, <2>5 DEF MakersKnown, Exists, Stays, At, Own
  <1>13. Closed'
    BY <1>1 DEF SetupInv, Closed, Exists
  <1>14. OwnersProgress'
    <2>1. ASSUME NEW o \in Calls
          PROVE  OwnerProgress(o)'
      <3>1. CASE o = c
        BY <1>4, <1>5, <3>1 DEF OwnerProgress, Making
      <3>2. CASE o # c
        BY <1>1, <1>8, <3>2 DEF SetupInv, OwnersProgress, OwnerProgress, Own
      <3>. QED
        BY <3>1, <3>2
    <2>. QED
      BY <2>1 DEF OwnersProgress
  <1>15. GuestsProgress'
    <2>1. ASSUME NEW o \in Calls
          PROVE  GuestProgress(o)'
      <3>1. CASE o = c
        BY <1>4, <1>5, <3>1 DEF GuestProgress, Checked, Statements
      <3>2. CASE o # c
        BY <1>1, <1>8, <3>2 DEF SetupInv, GuestsProgress, GuestProgress, Own, Exists
      <3>. QED
        BY <3>1, <3>2
    <2>. QED
      BY <2>1 DEF GuestsProgress
  <1>16. ServedKnown'
    <2>1. ASSUME NEW o \in Calls, call'[o].stage \in Checked
          PROVE  o # c /\ call'[o] = call[o]
      BY <1>4, <1>5, <1>8, <2>1 DEF Checked, Statements, Cleanup
    <2>2. ASSUME NEW o \in Calls, call'[o].stage \in Checked, ~ Own(o)', NEW m, m = call'[o].serves
          PROVE  m \in Calls /\ Began(m)' /\ call'[m].profile = call'[o].target
      <3>1. m \in Calls /\ Began(m) /\ call[m].profile = call[o].target
        BY <1>8, <2>1, <2>2 DEF SetupInv, ServedKnown
      <3>2. m # c
        BY <1>7, <3>1
      <3>. QED
        BY <1>8, <2>1, <2>2, <3>1, <3>2
    <2>3. ASSUME NEW o \in Calls, call'[o].stage \in Checked, Own(o)'
          PROVE  call'[o].serves = o
      BY <1>8, <2>1, <2>3 DEF SetupInv, ServedKnown
    <2>. QED
      BY <2>2, <2>3 DEF ServedKnown, Began, Own
  <1>17. PrivilegesKnown'
    <2>1. ASSUME NEW d \in Profiles, Exists(d), NEW q \in database[d].connect \cup database[d].tables
          PROVE  role[q] \in Calls \ {c} /\ call'[role[q]] = call[role[q]]
      <3>1. role[q] \in Calls /\ q \in Profiles
        BY <2>1, TableTypes DEF SetupInv, PrivilegesKnown
      <3>. QED
        BY <1>6, <1>8, <3>1
    <2> DEFINE Holds(o, d, q) ==
          /\ o \in Calls /\ d = IF call'[o].target = None THEN call'[o].profile ELSE call'[o].target
          /\ call'[o].stage \notin {"create database", "revoke public"}
          /\ call'[o].stage = "drop role" => call'[o].lost
          /\ q \in database'[d].tables =>
               /\ call'[o].stage # "grant connect"
               /\ call'[o].stage = "revoke connect" => call'[o].lost
    <2>2. ASSUME NEW d \in Profiles, Stays(d), NEW q \in database'[d].connect \cup database'[d].tables,
                 NEW o, o = role'[q]
          PROVE  Holds(o, d, q)
      <3>1. Exists(d) /\ q \in database[d].connect \cup database[d].tables /\ o = role[q]
        BY <1>1, <2>2 DEF Stays, Exists
      <3>2. /\ Place(o) = d /\ call[o].stage \notin {"create database", "revoke public"}
            /\ call[o].stage = "drop role" => call[o].lost
            /\ q \in database[d].tables =>
                 /\ call[o].stage # "grant connect"
                 /\ call[o].stage = "revoke connect" => call[o].lost
        BY <3>1 DEF SetupInv, PrivilegesKnown, At
      <3>3. o \in Calls /\ call'[o] = call[o]
        BY <2>1, <3>1
      <3>. QED
        BY <1>1, <3>2, <3>3 DEF Place, Own
    <2>3. ASSUME NEW d \in Profiles, Exists(d)',
                 NEW q \in database'[d].connect \cup database'[d].tables
          PROVE  /\ role'[q] \in Calls /\ Place(role[q])' = d
                 /\ call'[role'[q]].stage \notin {"create database", "revoke public"}
                 /\ At(role[q], "drop role")' => call'[role'[q]].lost
                 /\ q \in database'[d].tables =>
                      /\ ~ At(role[q], "grant connect")'
                      /\ At(role[q], "revoke connect")' => call'[role'[q]].lost
      <3>1. Stays(d)
        BY <2>3 DEF Exists, Stays
      <3>2. Holds(role'[q], d, q)
        <4> HIDE DEF Holds
        <4>. QED
          BY <2>2, <2>3, <3>1
      <3>. QED
        BY <3>2 DEF At, Place, Own
    <2>4. ASSUME NEW d \in Profiles, Exists(d)'
          PROVE  /\ \A q \in database'[d].connect \cup database'[d].tables :
                      /\ role'[q] \in Calls /\ Place(role[q])' = d
                      /\ call'[role'[q]].stage \notin {"create database", "revoke public"}
                      /\ At(role[q], "drop role")' => call'[role'[q]].lost
                 /\ \A q \in database'[d].tables :
                      /\ ~ At(role[q], "grant connect")'
                      /\ At(role[q], "revoke connect")' => call'[role'[q]].lost
      BY <2>3, <2>4
    <2>. QED
      BY <2>4, Zenon DEF PrivilegesKnown
  <1>18. EntriesKnown'
    <2>1. ASSUME NEW e \in Entries, EntryOf(e)
          PROVE  EntryOf(e)'
      <3>1. e.by \in Calls \ {c}
        BY <1>1, <2>1 DEF EntryOf, At, Entries
      <3>. QED
        BY <1>8, <2>1, <3>1 DEF EntryOf
    <2>2. config \subseteq Entries /\ \A o \in Calls : call[o].text \subseteq Entries
      BY CallTypes DEF SetupInv, ProfileTypeOK
    <2>3. \A o \in Calls : call'[o].text = call[o].text
      BY <1>4, <1>5, <1>8
    <2>. QED
      BY <1>1, <2>1, <2>2, <2>3 DEF SetupInv, EntriesKnown
  <1>19. TextsKnown'
    <2>1. ASSUME NEW o \in Calls
          PROVE  /\ HoldsText(o)' => HoldsText(o)
                 /\ At(o, "done")' => At(o, "done")
                 /\ call'[o].text = call[o].text
      BY <1>4, <1>5, <1>7, <1>8
    <2>. QED
      BY <1>1, <2>1 DEF SetupInv, TextsKnown
  <1>. QED
    BY <1>9, <1>10, <1>11, <1>12, <1>13, <1>14, <1>15, <1>16, <1>17, <1>18, <1>19 DEF SetupInv

-----------------------------------------------------------------------------
(* The theorems                                                            *)

LEMMA SetupStarts == SetupInit => SetupInv
  <1>. SUFFICES ASSUME SetupInit
                PROVE  SetupInv
    OBVIOUS
  <1>1. \A c \in Calls : /\ call[c].stage = "idle" /\ call[c].text = {}
    BY DEF SetupInit, Idle
  <1>2. \A p \in Profiles : role[p] = None /\ ~ Exists(p)
    BY DEF SetupInit, Exists
  <1>3. ProfileTypeOK
    <2>1. Idle \in CallRecords
      BY DEF Idle, CallRecords, Stages
    <2>. QED
      BY <2>1 DEF SetupInit, ProfileTypeOK, CallRecords
  <1>4. Kinds /\ RolesKnown /\ MakersKnown /\ Closed
    BY <1>1, <1>2 DEF Kinds, RolesKnown, MakersKnown, Closed, Made, Making, Cleanup
  <1>5. OwnersProgress /\ GuestsProgress /\ ServedKnown
    BY <1>1 DEF OwnersProgress, OwnerProgress, GuestsProgress, GuestProgress, ServedKnown,
                Making, Checked, Statements, Cleanup
  <1>6. PrivilegesKnown /\ EntriesKnown
    BY <1>1, <1>2 DEF PrivilegesKnown, EntriesKnown, SetupInit
  <1>7. TextsKnown
    BY <1>1 DEF TextsKnown, HoldsText, At, Statements, Cleanup
  <1>. QED
    BY <1>3, <1>4, <1>5, <1>6, <1>7 DEF SetupInv

\* What exists is undone by its maker.
UndoneByMaker(p) ==
  /\ role[p] # None /\ role'[p] # role[p] => role'[p] = None /\ At(role[p], "drop role")
  /\ Exists(p) /\ database'[p] = None => At(database[p].by, "drop database")
  /\ Exists(p) /\ database'[p] # None =>
       /\ database'[p].by = database[p].by
       /\ database[p].schema = "ready" => database'[p].schema = "ready"

LEMMA StepUndoes ==
  ASSUME SetupInv, NEW c \in Calls, NEW stage, NEW lost, Step(c, stage, lost), NEW p \in Profiles
  PROVE  UndoneByMaker(p)
  <1>1. ASSUME role[p] # None, role'[p] # role[p]
        PROVE  role'[p] = None /\ At(role[p], "drop role")
    <2>1. CASE At(c, "create role") /\ role[call[c].profile] = None
               /\ role' = [role EXCEPT ![call[c].profile] = c]
      BY <1>1, <2>1, TableTypes
    <2>2. CASE At(c, "drop role") /\ role' = [role EXCEPT ![call[c].profile] = None]
      <3>1. p = call[c].profile /\ role'[p] = None
        BY <1>1, <2>2, TableTypes
      <3>2. role[p] = c
        BY <2>2, <3>1 DEF SetupInv, RolesKnown, At, Made, Cleanup
      <3>. QED
        BY <2>2, <3>1, <3>2
    <2>. QED
      BY <1>1, <2>1, <2>2 DEF Step, RoleEffect
  <1>2. ASSUME Exists(p), database'[p] = None
        PROVE  At(database[p].by, "drop database")
    <2>1. At(c, "drop database") /\ p = call[c].profile
      BY <1>2 DEF Step, Frame, Stays
    <2>2. database[p].by = c
      BY <2>1 DEF SetupInv, Kinds, MakersKnown, Making, At
    <2>. QED
      BY <2>1, <2>2
  <1>3. ASSUME Exists(p), database'[p] # None
        PROVE  /\ database'[p].by = database[p].by
               /\ database[p].schema = "ready" => database'[p].schema = "ready"
    <2>1. Keeps(c, p)
      BY <1>3 DEF Step, Frame, Stays
    <2>. QED
      BY <2>1 DEF Keeps
  <1>. QED
    BY <1>1, <1>2, <1>3 DEF UndoneByMaker

\* Every action but Start is a step of a call that has started.
LEMMA ActionSteps ==
  ASSUME SetupInv, SetupNext
  PROVE  \/ \E c \in Calls, p \in Profiles, target \in Profiles \cup {None} : Start(c, p, target)
         \/ \E c \in Calls : \E stage, lost : Step(c, stage, lost)
  <1>1. ASSUME NEW c \in Calls,
               \/ Check(c) \/ ReadText(c) \/ CheckSchema(c)
               \/ CreateRole(c) \/ CreateDatabase(c) \/ RevokePublic(c) \/ GrantConnect(c)
               \/ Prepare(c) \/ CreateTables(c) \/ GrantTables(c) \/ Recheck(c)
               \/ WriteConfig(c)
               \/ Terminate(c) \/ DropDatabase(c) \/ DropOwned(c) \/ RevokeConnect(c)
               \/ DropRole(c)
               \/ Refused(c) \/ Killed(c)
        PROVE  \E stage, lost : Step(c, stage, lost)
    BY <1>1, CheckSteps, ReadTextSteps, CheckSchemaSteps, CreateRoleSteps, RecheckSteps,
       WriteConfigSteps, TerminateSteps, DropRoleSteps, ChangeSteps, EndSteps
  <1>. QED
    BY <1>1 DEF SetupNext

LEMMA SetupStays == SetupInv /\ [SetupNext]_setupVars => SetupInv'
  <1>. SUFFICES ASSUME SetupInv, [SetupNext]_setupVars
                PROVE  SetupInv'
    OBVIOUS
  <1>1. CASE UNCHANGED setupVars
    <2>. USE <1>1 DEF setupVars, SetupInv, At, Own, Place, Exists
    <2>1. ProfileTypeOK' /\ Kinds'
      BY DEF ProfileTypeOK, Kinds
    <2>2. RolesKnown' /\ Closed'
      BY DEF RolesKnown, Closed
    <2>3. MakersKnown'
      BY DEF MakersKnown
    <2>4. OwnersProgress'
      BY DEF OwnersProgress, OwnerProgress
    <2>5. GuestsProgress'
      BY DEF GuestsProgress, GuestProgress
    <2>6. ServedKnown'
      BY DEF ServedKnown, Began
    <2>7. PrivilegesKnown'
      <3>1. role' = role /\ database' = database /\ call' = call /\ PrivilegesKnown
        OBVIOUS
      <3>2. ASSUME NEW d \in Profiles, database'[d] # None, NEW q \in database'[d].connect \cup database'[d].tables
            PROVE  /\ role'[q] \in Calls
                   /\ d = IF call'[role'[q]].target = None THEN call'[role'[q]].profile
                          ELSE call'[role'[q]].target
                   /\ call'[role'[q]].stage \notin {"create database", "revoke public"}
        BY ONLY <3>1, <3>2 DEF PrivilegesKnown, Own, Place, Exists
      <3>3. ASSUME NEW d \in Profiles, database'[d] # None, NEW q \in database'[d].connect \cup database'[d].tables
            PROVE  call'[role'[q]].stage = "drop role" => call'[role'[q]].lost
        BY ONLY <3>1, <3>3 DEF PrivilegesKnown, Exists, At
      <3>4. ASSUME NEW d \in Profiles, database'[d] # None, NEW q \in database'[d].tables
            PROVE  /\ call'[role'[q]].stage # "grant connect"
                   /\ call'[role'[q]].stage = "revoke connect" => call'[role'[q]].lost
        BY ONLY <3>1, <3>4 DEF PrivilegesKnown, Exists, At
      <3>. QED
        BY ONLY <3>2, <3>3, <3>4 DEF PrivilegesKnown, At, Own, Place, Exists
    <2>8. EntriesKnown'
      BY DEF EntriesKnown, EntryOf
    <2>9. TextsKnown'
      BY DEF TextsKnown, HoldsText
    <2>. QED
      BY <2>1, <2>2, <2>3, <2>4, <2>5, <2>6, <2>7, <2>8, <2>9
  <1>2. CASE \E c \in Calls, p \in Profiles, target \in Profiles \cup {None} : Start(c, p, target)
    BY <1>2, StartKeeps
  <1>3. CASE \E c \in Calls : \E stage, lost : Step(c, stage, lost)
    BY <1>3, StepKeeps
  <1>. QED
    BY <1>1, <1>2, <1>3, ActionSteps

LEMMA StepsUndo ==
  ASSUME SetupInv, [SetupNext]_setupVars, NEW p \in Profiles
  PROVE  UndoneByMaker(p)
  <1>1. CASE role' = role /\ database' = database
    BY <1>1 DEF UndoneByMaker, Exists
  <1>2. CASE \E c \in Calls, q \in Profiles, target \in Profiles \cup {None} : Start(c, q, target)
    BY <1>1, <1>2 DEF Start
  <1>3. CASE \E c \in Calls : \E stage, lost : Step(c, stage, lost)
    BY <1>3, StepUndoes
  <1>. QED
    BY <1>1, <1>2, <1>3, ActionSteps DEF setupVars

\* The progress of every call, the roles, the databases and the entries of
\* config.toml agree at all times, for any number of profiles and of calls.
THEOREM SetupInvariant == SetupSpec => []SetupInv
  BY SetupStarts, SetupStays, PTL DEF SetupSpec

\* Every variable keeps its type.
THEOREM ProfileTypeCorrectness == SetupSpec => []ProfileTypeOK
  <1>1. SetupInv => ProfileTypeOK
    BY DEF SetupInv
  <1>. QED
    BY <1>1, SetupInvariant, PTL

\* config.toml never names a half-made profile.
THEOREM ConfiguredIsUsable == SetupSpec => []EntriesUsable
  BY UsableFollows, SetupInvariant, PTL

\* A reported failure leaves no database and no entry, and no role but one whose
\* making was not answered.
THEOREM FailureLeavesNothing == SetupSpec => []FailedCallLeavesNothing
  BY FailedFollows, SetupInvariant, PTL

\* PostgreSQL accepts the statements of the compensation in the order they come.
THEOREM CompensationAccepted == SetupSpec => []CleanupAccepted
  BY AcceptedFollows, SetupInvariant, PTL

\* A reported success keeps its entry, if nobody else held a text meanwhile.
THEOREM SuccessRecorded == SetupSpec => []SuccessIsRecorded
  BY RecordedFollows, SetupInvariant, PTL

\* Roles, databases and schemas are undone by the call that has made them only.
THEOREM MakersUndo == SetupSpec => OnlyItsMakerUndoes
  <1>1. SetupInv /\ [SetupNext]_setupVars =>
          [\A p \in Profiles : UndoneByMaker(p)]_setupVars
    BY StepsUndo
  <1>2. SetupSpec => [][\A p \in Profiles : UndoneByMaker(p)]_setupVars
    BY <1>1, SetupInvariant, PTL DEF SetupSpec
  <1>. QED
    BY <1>2 DEF OnlyItsMakerUndoes, UndoneByMaker
=============================================================================
