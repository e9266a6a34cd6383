----------------------------- MODULE Migrations -----------------------------
(***************************************************************************)
(* Processes that start on one database, each of them bringing its schema  *)
(* to the current version first (migrations.py, called from _startup of    *)
(* app.py).  The connection is in autocommit mode, so every statement is   *)
(* seen by the others at once, survives a crash right after it, and the    *)
(* commit() calls do nothing.  Of the tables only backends has changed     *)
(* since version 1, so it stands for the baseline.                         *)
(***************************************************************************)
EXTENDS Integers, SequencesExt, FiniteSetsExt

CONSTANTS
  Process,  \* processes that start
  MaxStops  \* bound: crashes, and statements that fail
ASSUME StopAssumption == MaxStops \in Nat

CurrentVersion == 3
Columns == {"rate_limited_until", "rate_limit_reason", "last_used_at", "last_polled_at"}

AddColumn(c) == [do |-> "add", arg |-> c]
RenameKind == [do |-> "rename", arg |-> "gemini"]
Baseline == [do |-> "baseline", arg |-> "schema.sql"]
RecordVersion(v) == [do |-> "record", version |-> v]

Migration ==
  << [version |-> 2,
      statements |-> << AddColumn("rate_limited_until"), AddColumn("rate_limit_reason"),
                        AddColumn("last_used_at"), AddColumn("last_polled_at") >>],
     [version |-> 3, statements |-> << RenameKind >>] >>

VARIABLES
  versions,  \* rows of schema_version
  created,   \* the backends table exists
  columns,   \* its columns that version 2 adds
  gemini,    \* it has rows of the old kind
  state,     \* each process: "down", "migrating" or "up"
  script,    \* the statements it has still to execute
  stops

migVars == <<versions, created, columns, gemini, state, script, stops>>

CurrentOf(vs) == Max(vs \cup {0})

(***************************************************************************)
(* A database is new, or of an earlier version: of version 1 with some     *)
(* columns of version 2 if they were added by hand.                        *)
(***************************************************************************)
MigInit ==
  /\ \/ versions = {} /\ created = FALSE /\ columns = {} /\ gemini = FALSE
     \/ versions = {1} /\ created = TRUE /\ columns \in SUBSET Columns /\ gemini \in BOOLEAN
     \/ versions = {1, 2} /\ created = TRUE /\ columns = Columns /\ gemini \in BOOLEAN
  /\ state = [p \in Process |-> "down"]
  /\ script = [p \in Process |-> <<>>]
  /\ stops = 0

BugStep(m) == <<RecordVersion(m.version)>> \o m.statements
Step(m) == m.statements \o <<RecordVersion(m.version)>>

UpToDate(v) == v >= CurrentVersion

\* What apply_migrations() executes once it has read version v.
Script(v) ==
  IF v = 0 THEN <<Baseline, RecordVersion(CurrentVersion)>>
  ELSE IF UpToDate(v) THEN <<>>
  ELSE FlattenSeq([i \in 1 .. Len(Migration) |->
         IF Migration[i].version > v THEN Step(Migration[i]) ELSE <<>>])

Begin(p) ==
  /\ state[p] = "down"
  /\ state' = [state EXCEPT ![p] = "migrating"]
  /\ script' = [script EXCEPT ![p] = Script(CurrentOf(versions))]
  /\ UNCHANGED <<versions, created, columns, gemini, stops>>

Duplicate(s) == s.do = "add" /\ s.arg \in columns

\* _safe_execute(): ALTER TABLE of a column that is there raises an error that is ignored.
BugTolerated(s) == FALSE
Tolerated(s) == Duplicate(s)

Recorded(v) == versions \cup {v}

\* CREATE TABLE IF NOT EXISTS leaves a table as it is.
Effect(s) ==
  /\ created' = (created \/ s.do = "baseline")
  /\ columns' = IF s.do = "add" THEN columns \cup {s.arg}
                ELSE IF s.do = "baseline" /\ ~created THEN Columns ELSE columns
  /\ gemini' = (gemini /\ s.do # "rename")
  /\ versions' = IF s.do = "record" THEN Recorded(s.version) ELSE versions

\* An error that is not ignored ends the process.
Execute(p) ==
  /\ state[p] = "migrating" /\ script[p] # <<>>
  /\ LET s == Head(script[p])
         fails == Duplicate(s) /\ ~Tolerated(s)
     IN
       /\ IF Duplicate(s) THEN UNCHANGED <<versions, created, columns, gemini>> ELSE Effect(s)
       /\ script' = [script EXCEPT ![p] = IF fails THEN <<>> ELSE Tail(@)]
       /\ state' = [state EXCEPT ![p] = IF fails THEN "down" ELSE @]
  /\ UNCHANGED stops

Finish(p) ==
  /\ state[p] = "migrating" /\ script[p] = <<>>
  /\ state' = [state EXCEPT ![p] = "up"]
  /\ UNCHANGED <<versions, created, columns, gemini, script, stops>>

\* A crash, or a statement that fails (the disk, or a lock held too long): it is started again.
StopProcess(p) ==
  /\ state[p] # "down" /\ stops < MaxStops
  /\ stops' = stops + 1
  /\ state' = [state EXCEPT ![p] = "down"]
  /\ script' = [script EXCEPT ![p] = <<>>]
  /\ UNCHANGED <<versions, created, columns, gemini>>

MigNext == \E p \in Process : Begin(p) \/ Execute(p) \/ Finish(p) \/ StopProcess(p)

MigSpec == MigInit /\ [][MigNext]_migVars

\* A process that has stopped is started again, and runs.
MigFairness == \A p \in Process : WF_migVars(Begin(p) \/ Execute(p) \/ Finish(p))

(***************************************************************************)
(* Properties.                                                             *)
(***************************************************************************)
\* Type invariant: the versions recorded are those there are.
MigTypeOK ==
  /\ versions \subseteq 1 .. CurrentVersion /\ created \in BOOLEAN /\ gemini \in BOOLEAN
  /\ columns \subseteq Columns
  /\ \A p \in Process : state[p] \in {"down", "migrating", "up"}
  /\ stops \in 0 .. MaxStops

\* A version is recorded only when the schema has what it stands for, whichever
\* statement a process crashed after and whatever another one executes meanwhile:
\* "a crash mid-run resumes correctly on the next boot".
VersionIsTrue ==
  LET v == CurrentOf(versions) IN
    /\ v >= 1 => created
    /\ v >= 2 => columns = Columns
    /\ v >= 3 => ~gemini

\* A process serves requests only on the current schema.
UpIsCurrent == \A p \in Process : state[p] = "up" => CurrentOf(versions) = CurrentVersion

\* The recorded version is the schema's, and nobody serves on an older one.
SchemaIsTrue == VersionIsTrue /\ UpIsCurrent

\* Every process gets to serve, whatever its predecessors left half done.
BootEnds == \A p \in Process : <>[](state[p] = "up")
=============================================================================
