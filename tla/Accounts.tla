------------------------------ MODULE Accounts ------------------------------
(***************************************************************************)
(* AccountService (services/accounts.py) over the tables backends and      *)
(* backend_credentials and the per-account isolation directories.          *)
(*                                                                         *)
(* Every service method is an asyncio coroutine.  It reads a WHOLE backend *)
(* row, awaits (the database thread, a CLI probe, a login), and later      *)
(* writes the WHOLE row back from what it read.  A step of this module is  *)
(* the code between two awaits that matter: one statement on the storage   *)
(* connection, one mkdir / rmtree, or the answer of one probe.  Calls of   *)
(* several requests, of the login streams and of the keep-alive loop       *)
(* interleave freely; a restart of the server drops every call in flight   *)
(* and may come up with another vault key.                                 *)
(*                                                                         *)
(* Abstracted: a credential is the vault key it was encrypted with; the    *)
(* config dict is its three identity keys; timestamps, ids other than the  *)
(* creation order, log lines and the path check of _validate_config (a     *)
(* rejected config raises before anything changes) are left out.           *)
(***************************************************************************)
EXTENDS Integers, FiniteSets

CONSTANTS
  Task,          \* coroutines that may be in flight at the same time
  Kind,          \* registered backend kinds
  Name,          \* display names
  Value,         \* values of config_path, api_key_env and email
  Key,           \* vault keys the server may be started with
  Unset,         \* an argument not given, a config key not present, no key
  MaxBackends,   \* bound: accounts ever created
  MaxCalls,      \* bound: service calls and restarts ever begun
  CreateConfigs, \* configs clients pass to create
  UpdateConfigs  \* configs clients pass to update

Config == [path: Value \cup {Unset}, env: Value \cup {Unset}, email: Value \cup {Unset}]
NoConfig == [path |-> Unset, env |-> Unset, email |-> Unset]

ASSUME BoundsAssumption == MaxBackends \in Nat /\ MaxCalls \in Nat
ASSUME ConfigsAssumption == CreateConfigs \subseteq Config /\ UpdateConfigs \subseteq Config
ASSUME UnsetAssumption ==
  /\ Unset \notin Kind \cup Name \cup Value \cup Key
  /\ Unset \notin Config

Backend == 1..MaxBackends     \* ids, in creation order

\* The statuses the service writes; "detecting" and "needs_reauth" of the enum never are.
Status == {"unconfigured", "needs_login", "validating", "ready", "error"}
\* last_error: None, or which of the service's messages it holds.
Err == {"none", "cli", "validation", "unreadable", "chat"}

Row == [kind: Kind \cup {Unset}, name: Name \cup {Unset}, cfg: Config,
        status: Status, err: Err]
NullRow == [kind |-> Unset, name |-> Unset, cfg |-> NoConfig,
            status |-> "unconfigured", err |-> "none"]

\* Calls that begin by reading one row with get().
RowOp == {"delete", "detect", "begin_login", "store", "login", "validate",
          "keep_alive", "list_models"}
Op == RowOp \cup {"none", "create", "import", "update", "discover"}
Pc == {"idle", "insert", "newdir", "get", "write", "rm", "rmtree", "mkdir", "probe",
       "put", "cred", "dir", "run", "status", "sync"}

\* A call in flight: where it is, its account, the row it read, its arguments,
\* and the status and error it is about to write.
Call == [op: Op, pc: Pc, b: Backend \cup {0}, snap: Row, name: Name \cup {Unset},
         cfg: Config \cup {Unset}, status: Status, err: Err]
Idle == [op |-> "none", pc |-> "idle", b |-> 0, snap |-> NullRow, name |-> Unset,
         cfg |-> Unset, status |-> "unconfigured", err |-> "none"]

VARIABLES
  row,       \* backends: the row of each id, NullRow when it has none
  creds,     \* backend_credentials: the key each stored credential was encrypted with
  dirs,      \* ids whose isolation directory exists
  call,      \* what each coroutine is doing
  todo,      \* discover_existing: status writes left, decided from its list()
  nextId,    \* next id
  calls,     \* calls and restarts so far (bounds the run)
  vaultKey,  \* key the server runs with
  distinct,  \* history: calls have not overlapped, and no config given was that of two accounts
  gone,      \* history: ids whose row was deleted
  synced     \* history: ids whose status discovery has written

vars == <<row, creds, dirs, call, todo, nextId, calls, vaultKey, distinct, gone, synced>>
tables == <<row, creds>>
history == <<gone, synced>>

live == {b \in Backend : row[b].kind # Unset}   \* ids with a row

Init ==
  /\ row = [b \in Backend |-> NullRow] /\ creds = [b \in Backend |-> Unset]
  /\ dirs = {} /\ call = [t \in Task |-> Idle] /\ todo = [t \in Task |-> {}]
  /\ nextId = 1 /\ calls = 0 /\ vaultKey \in Key
  /\ distinct = TRUE /\ gone = {} /\ synced = {}

-----------------------------------------------------------------------------
\* Mutated forms: each breaks a property below when it replaces the definition
\* named after it.

BugUpsert(b, r) == [row EXCEPT ![b] = r]                       \* RowUpdate: no rowcount check
BugNoForeignKey(b) == [creds EXCEPT ![b] = vaultKey]           \* CredPut
BugMatchReady(k, c) ==                                         \* Matching: failed rows skipped
  {b \in live : row[b].kind = k /\ row[b].cfg = c /\ row[b].status = "ready"}
BugInserting(o, b, r) ==                                       \* Inserting: no id given
  [Idle EXCEPT !.op = o, !.pc = "insert", !.snap = r]
BugAfterGet(o) ==                                              \* AfterGet: credential not read
  CASE o \in {"create", "import", "update"} -> "write"
    [] o = "delete" -> "rm"
    [] o = "detect" -> "probe"
    [] o = "begin_login" -> "mkdir"
    [] o \in {"store", "login"} -> "put"
    [] OTHER -> "dir"
BugAfterGetRmFirst(o) ==                                       \* AfterGet: rmtree before DELETE
  CASE o \in {"create", "import", "update"} -> "write"
    [] o = "delete" -> "rmtree"
    [] o = "detect" -> "probe"
    [] o = "begin_login" -> "mkdir"
    [] o \in {"store", "login"} -> "put"
    [] OTHER -> "cred"
BugKeepError(t) ==                                             \* Healthy: last_error not cleared
  IF call[t].op = "list_models" \/ (call[t].op = "keep_alive" /\ call[t].snap.status = "ready")
  THEN call' = [call EXCEPT ![t] = Idle]
  ELSE call' = [call EXCEPT ![t] = [@ EXCEPT !.pc = "status", !.status = "ready", !.err = call[t].snap.err]]

-----------------------------------------------------------------------------
\* Helpers.

\* repo.update: UPDATE ... WHERE id, a KeyError when no row matches.
RowUpdate(b, r) == IF b \in live THEN [row EXCEPT ![b] = r] ELSE row

\* Foreign keys of the schema: a credential needs its row and goes with it.
CredPut(b) == IF b \in live THEN [creds EXCEPT ![b] = vaultKey] ELSE creds
Cascade(b) == [creds EXCEPT ![b] = Unset]

\* dict.update of the stored config with the new one.
Merge(old, new) == [k \in {"path", "env", "email"} |-> IF new[k] # Unset THEN new[k] ELSE old[k]]

\* _find_matching_backend: same kind and same config_path, or api_key_env, or
\* email when neither side has one of the other two.
SameAccount(r, k, c) ==
  /\ r.kind = k
  /\ \/ c.path # Unset /\ r.cfg.path = c.path
     \/ c.env # Unset /\ r.cfg.env = c.env
     \/ /\ c.email # Unset /\ r.cfg.email = c.email
        /\ {c.path, c.env, r.cfg.path, r.cfg.env} = {Unset}
Matching(k, c) == {b \in live : SameAccount(row[b], k, c)}

\* The step after get() returned a row.
AfterGet(o) ==
  CASE o \in {"create", "import", "update"} -> "write"
    [] o = "delete" -> "rm"
    [] o = "detect" -> "probe"
    [] o = "begin_login" -> "mkdir"
    [] o \in {"store", "login"} -> "put"
    [] OTHER -> "cred"

\* A call that starts with get(), one that carries arguments for update(), one
\* that inserts a row; a call that moves on, with the row it read, to a write.
Getting(o, b) == [Idle EXCEPT !.op = o, !.pc = "get", !.b = b]
Patching(o, b, n, c) == [Idle EXCEPT !.op = o, !.pc = "get", !.b = b, !.name = n, !.cfg = c]
Inserting(o, b, r) == [Idle EXCEPT !.op = o, !.pc = "insert", !.b = b, !.snap = r]
Syncing == [Idle EXCEPT !.op = "discover", !.pc = "sync"]
Moved(c, p) == [c EXCEPT !.pc = p]
Loaded(c, p, r) == [c EXCEPT !.pc = p, !.snap = r]
Writing(c, s, e) == [c EXCEPT !.pc = "status", !.status = s, !.err = e]
NewRow(k, n, c) == [NullRow EXCEPT !.kind = k, !.name = n, !.cfg = c]
StatusRow(r, s, e) == [r EXCEPT !.status = s, !.err = e]
SyncedRow(s) == [s.snap EXCEPT !.status = s.status]

Goto(t, r) == call' = [call EXCEPT ![t] = r]
Return(t) == Goto(t, Idle)           \* the call returned or raised
\* the call continues as operation o on the same account
Become(t, o) == Goto(t, Getting(o, call[t].b))
StatusNext(t, s, e) == Goto(t, Writing(call[t], s, e))

At(t, p) == call[t].pc = p
\* A call arrives; the config it gives, if any, is that of the accounts in named.
NewCall(t, named) ==
  /\ At(t, "idle")
  /\ calls < MaxCalls /\ calls' = calls + 1
  /\ distinct' = (distinct /\ (\A u \in Task : At(u, "idle")) /\ \A a, b \in named : a = b)

-----------------------------------------------------------------------------
\* Calls arriving.

\* A route, the login stream or the keep-alive loop calls a method that starts with get().
Begin(t, o, b) ==
  /\ NewCall(t, {}) /\ b \in live
  /\ Goto(t, Getting(o, b))
  /\ UNCHANGED <<tables, dirs, todo, nextId, vaultKey, history>>

\* update(): display_name and config are each given or left out.
BeginUpdate(t, b, n, c) ==
  /\ b \in live
  /\ NewCall(t, {b} \cup IF c = Unset THEN {} ELSE Matching(row[b].kind, c))
  /\ Goto(t, Patching("update", b, n, c))
  /\ UNCHANGED <<tables, dirs, todo, nextId, vaultKey, history>>

\* create() up to its decision: look for the same account in the list; update
\* the first match with the merged config, or make up a new row.
\* import_discovered() is create, store_credential and validate.
CreateLookup(t, o, k, n, c) ==
  /\ NewCall(t, Matching(k, c))
  /\ o = "import" => c.path # Unset
  /\ \/ \E b \in Matching(k, c) :
          /\ \A x \in Matching(k, c) : b <= x
          /\ Goto(t, Patching(o, b, n, Merge(row[b].cfg, c)))
          /\ UNCHANGED nextId
     \/ /\ Matching(k, c) = {}
        /\ nextId \in Backend /\ nextId' = nextId + 1
        /\ Goto(t, Inserting(o, nextId, NewRow(k, n, c)))
  /\ UNCHANGED <<tables, dirs, todo, vaultKey, history>>

\* The server goes down: every coroutine is lost, the database stays.  It comes
\* back with the key of its environment.
Restart(k) ==
  /\ calls < MaxCalls /\ calls' = calls + 1
  /\ call' = [t \in Task |-> Idle] /\ todo' = [t \in Task |-> {}] /\ vaultKey' = k
  /\ UNCHANGED <<tables, dirs, nextId, distinct, history>>

-----------------------------------------------------------------------------
\* Steps of the calls in flight.

\* create(): repo.create, then the isolation directory.
CreateInsert(t) ==
  /\ At(t, "insert")
  /\ row' = [row EXCEPT ![call[t].b] = call[t].snap]
  /\ Goto(t, Moved(call[t], "newdir"))
  /\ UNCHANGED <<creds, dirs, todo, nextId, calls, vaultKey, distinct, history>>

CreateDir(t) ==
  /\ At(t, "newdir")
  /\ dirs' = dirs \cup {call[t].b}
  /\ IF call[t].op = "import" THEN Become(t, "login") ELSE Return(t)
  /\ UNCHANGED <<tables, todo, nextId, calls, vaultKey, distinct, history>>

\* get(): BackendNotFound when the row is gone.
Get(t) ==
  /\ At(t, "get")
  /\ IF call[t].b \in live
     THEN Goto(t, Loaded(call[t], AfterGet(call[t].op), row[call[t].b]))
     ELSE Return(t)
  /\ UNCHANGED <<tables, dirs, todo, nextId, calls, vaultKey, distinct, history>>

\* The row update() writes: the arguments given, the rest as it was read.
Patched(t) ==
  LET c == call[t] IN
  [c.snap EXCEPT !.name = IF c.name = Unset THEN @ ELSE c.name,
                 !.cfg = IF c.cfg = Unset THEN @ ELSE c.cfg]

UpdateWrite(t) ==
  /\ At(t, "write")
  /\ row' = RowUpdate(call[t].b, Patched(t))
  /\ IF call[t].op = "import" /\ call[t].b \in live THEN Become(t, "login") ELSE Return(t)
  /\ UNCHANGED <<creds, dirs, todo, nextId, calls, vaultKey, distinct, history>>

\* delete(): the row and, by cascade, its credential; then the directory.
DeleteRow(t) ==
  /\ At(t, "rm")
  /\ row' = [row EXCEPT ![call[t].b] = NullRow]
  /\ creds' = Cascade(call[t].b)
  /\ gone' = gone \cup {call[t].b}
  /\ Goto(t, Moved(call[t], "rmtree"))
  /\ UNCHANGED <<dirs, todo, nextId, calls, vaultKey, distinct, synced>>

\* rmtree may fail: logged, the directory stays.
RmTree(t) ==
  /\ At(t, "rmtree")
  /\ dirs' \in {dirs, dirs \ {call[t].b}}
  /\ Return(t)
  /\ UNCHANGED <<tables, todo, nextId, calls, vaultKey, distinct, history>>

\* begin_login(): an unknown flow raises; otherwise the directory, then the
\* session is handed to the login registry.
BeginLogin(t) ==
  /\ At(t, "mkdir")
  /\ dirs' \in {dirs, dirs \cup {call[t].b}}
  /\ Return(t)
  /\ UNCHANGED <<tables, todo, nextId, calls, vaultKey, distinct, history>>

\* detect(): a CLI that is not installed is written to the row.
Detect(t) ==
  /\ At(t, "probe")
  /\ Return(t) \/ StatusNext(t, "needs_login", "cli")
  /\ UNCHANGED <<tables, dirs, todo, nextId, calls, vaultKey, distinct, history>>

\* store_credential(): put_credential fails on the foreign key when the row is
\* gone; then _update_status keeps the last_error that was read.
PutCredential(t) ==
  /\ At(t, "put")
  /\ creds' = CredPut(call[t].b)
  /\ IF call[t].b \in live THEN StatusNext(t, "validating", call[t].snap.err) ELSE Return(t)
  /\ UNCHANGED <<row, dirs, todo, nextId, calls, vaultKey, distinct, history>>

\* get_credential and decrypt of validate, keep_alive and list_models.  Without a
\* credential, and for list_models on a row that is not ready, the call ends.  A
\* key mismatch flips the status, except in keep_alive, which only raises.
ReadCredential(t) ==
  /\ At(t, "cred")
  /\ LET c == call[t] IN
     IF creds[c.b] = Unset \/ (c.op = "list_models" /\ c.snap.status # "ready")
     THEN Return(t)
     ELSE IF creds[c.b] = vaultKey THEN Goto(t, Moved(c, "dir"))
     ELSE IF c.op = "keep_alive" THEN Return(t) ELSE StatusNext(t, "error", "unreadable")
  /\ UNCHANGED <<tables, dirs, todo, nextId, calls, vaultKey, distinct, history>>

\* _resolve_config_dir reads the row again; without a config_path it makes the
\* isolation directory.
ResolveConfigDir(t) ==
  /\ At(t, "dir")
  /\ IF call[t].b \in live
     THEN /\ dirs' = IF row[call[t].b].cfg.path = Unset THEN dirs \cup {call[t].b} ELSE dirs
          /\ Goto(t, Moved(call[t], "run"))
     ELSE UNCHANGED dirs /\ Return(t)
  /\ UNCHANGED <<tables, todo, nextId, calls, vaultKey, distinct, history>>

\* What validate(), keep_alive() or list_models() does with a clean answer of
\* the backend: keep_alive writes only when the row it read was not ready.
Healthy(t) ==
  IF call[t].op = "list_models" \/ (call[t].op = "keep_alive" /\ call[t].snap.status = "ready")
  THEN Return(t) ELSE StatusNext(t, "ready", "none")

\* impl.validate, impl.chat or impl.list_models answers: clean, not healthy, or
\* by raising, which only keep_alive turns into a status.
RunImpl(t) ==
  /\ At(t, "run")
  /\ \/ Healthy(t)
     \/ call[t].op = "validate" /\ StatusNext(t, "error", "validation")
     \/ call[t].op = "keep_alive" /\ StatusNext(t, "error", "chat")
     \/ call[t].op # "keep_alive" /\ Return(t)
  /\ UNCHANGED <<tables, dirs, todo, nextId, calls, vaultKey, distinct, history>>

\* _update_status: the whole row as it was read, with the new status and error.
StatusWrite(t) ==
  LET c == call[t] IN
  /\ At(t, "status")
  /\ row' = RowUpdate(c.b, StatusRow(c.snap, c.status, c.err))
  /\ IF c.op = "login" /\ c.b \in live THEN Become(t, "validate") ELSE Return(t)
  /\ UNCHANGED <<creds, dirs, todo, nextId, calls, vaultKey, distinct, history>>

-----------------------------------------------------------------------------
\* discover_existing(): the probe of each config path answered "in", "out" or
\* "timeout" as kind kindOf[p]; then list(), and every decision is made from it.

\* path_to_backend: the last row listed wins a path two rows share.
Mapped(b) == /\ row[b].cfg.path # Unset
             /\ \A x \in live : row[x].cfg.path = row[b].cfg.path => x <= b

Verdict(v) == IF v = "in" THEN "ready" ELSE "error"

\* A timed-out probe says nothing about a ready row.
Inconclusive(b, v) == v = "timeout" /\ row[b].status = "ready"

\* The write decided for row b, and the rows that get one.
SyncOf(b, v) == [b |-> b, snap |-> row[b], status |-> Verdict(v), slow |-> v = "timeout"]

Syncs(found, kindOf) ==
  LET v(b) == found[row[b].cfg.path] IN
  {SyncOf(b, v(b)) : b \in {b \in live : /\ Mapped(b) /\ v(b) # "absent"
                                         /\ row[b].kind = kindOf[row[b].cfg.path]
                                         /\ ~Inconclusive(b, v(b))
                                         /\ row[b].status # Verdict(v(b))}}

Discover(t, found, kindOf) ==
  /\ NewCall(t, {})
  /\ Syncs(found, kindOf) # {}       \* otherwise nothing is written
  /\ todo' = [todo EXCEPT ![t] = Syncs(found, kindOf)]
  /\ Goto(t, Syncing)
  /\ UNCHANGED <<tables, dirs, nextId, vaultKey, history>>

\* One row after the other, _update_status with the listed row; a row that is
\* gone raises and leaves the rest unsynced.
DiscoverSync(t, s) ==
  /\ At(t, "sync") /\ s \in todo[t]
  /\ row' = RowUpdate(s.b, SyncedRow(s))
  /\ synced' = IF s.b \in live THEN synced \cup {s.b} ELSE synced
  /\ todo' = [todo EXCEPT ![t] = IF s.b \in live THEN @ \ {s} ELSE {}]
  /\ IF todo'[t] = {} THEN Return(t) ELSE UNCHANGED call
  /\ UNCHANGED <<creds, dirs, nextId, calls, vaultKey, distinct, gone>>

Step(t) ==
  \/ CreateInsert(t) \/ CreateDir(t) \/ Get(t) \/ UpdateWrite(t) \/ DeleteRow(t) \/ RmTree(t)
  \/ BeginLogin(t) \/ Detect(t) \/ PutCredential(t) \/ ReadCredential(t)
  \/ ResolveConfigDir(t) \/ RunImpl(t) \/ StatusWrite(t)
  \/ \E s \in todo[t] : DiscoverSync(t, s)

Next ==
  \/ \E t \in Task :
       \/ Step(t)
       \/ \E o \in RowOp, b \in Backend : Begin(t, o, b)
       \/ \E b \in Backend, n \in Name \cup {Unset}, c \in UpdateConfigs \cup {Unset} :
            BeginUpdate(t, b, n, c)
       \/ \E o \in {"create", "import"}, k \in Kind, n \in Name, c \in CreateConfigs :
            CreateLookup(t, o, k, n, c)
       \/ \E found \in [Value -> {"absent", "in", "out", "timeout"}], kindOf \in [Value -> Kind] :
            Discover(t, found, kindOf)
  \/ \E k \in Key : Restart(k)

Spec == Init /\ [][Next]_vars

-----------------------------------------------------------------------------
\* Properties.

Sync == [b: Backend, snap: Row, status: {"ready", "error"}, slow: BOOLEAN]

\* Every variable keeps its type, and a call in flight names an account.
TypeOK ==
  /\ row \in [Backend -> Row]
  /\ creds \in [Backend -> Key \cup {Unset}]
  /\ dirs \subseteq Backend
  /\ call \in [Task -> Call]
  /\ \A t \in Task : call[t].pc \notin {"idle", "sync"} => call[t].b \in Backend
  /\ todo \in [Task -> SUBSET Sync]
  /\ nextId \in 1..(MaxBackends + 1)
  /\ calls \in 0..MaxCalls
  /\ vaultKey \in Key
  /\ distinct \in BOOLEAN
  /\ gone \subseteq Backend /\ synced \subseteq Backend

\* A stored credential always belongs to an existing account, however a login
\* that stores it races with delete().
CredentialHasRow == \A b \in Backend : creds[b] # Unset => b \in live

\* A deleted account never comes back: the whole-row write of a call that read
\* the row before delete() finished fails instead of inserting it again.
DeletedStaysDeleted == gone \cap live = {}

\* "validating" and "ready" are only ever written for an account whose credential
\* is stored; the exception is an account whose status discovery has set.  Holds
\* although stale rows are written back, because only delete() removes a credential.
StatusBacked ==
  \A b \in live : row[b].status \in {"validating", "ready"} => creds[b] # Unset \/ b \in synced

\* status and last_error agree: an account in error says why, a ready one holds
\* no old error.  Stale rows carry both fields, so races keep them paired; only
\* discovery, which writes the status alone, separates them.
StatusExplained ==
  \A b \in live \ synced :
    /\ row[b].status = "error" => row[b].err # "none"
    /\ row[b].status = "ready" => row[b].err = "none"

\* delete() removes an isolation directory (the CLI's login lives in it) only
\* once the account is gone; no account loses its directory while it exists.
DirOfLiveAccountKept == [][\A b \in dirs \ dirs' : b \notin live /\ b \notin live']_vars

\* No two accounts are the same one by create()'s own match key, whatever creates merge
\* and updates replace (its comment: wizards that re-run "should not accumulate
\* duplicates"), as long as calls do not overlap and none gives the config of two accounts:
\* a create that does is merged into the first, which then has the key of the second.
NoDuplicateAccount == distinct =>
  \A a, b \in live : SameAccount(row[a], row[b].kind, row[b].cfg) => a = b

\* update(): "Unspecified kwargs are left unchanged."
UnspecifiedLeftUnchanged ==
  [][\A t \in Task : LET b == call[t].b IN
       UpdateWrite(t) /\ call[t].op = "update" /\ b \in live =>
         /\ call[t].cfg = Unset => row'[b].cfg = row[b].cfg
         /\ call[t].name = Unset => row'[b].name = row[b].name]_vars
=============================================================================
