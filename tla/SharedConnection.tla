-------------------------- MODULE SharedConnection --------------------------
(***************************************************************************)
(* The one SQLite connection of SqliteStorage (adapters/storage_sqlite).   *)
(* All repositories and all coroutines use it; aiosqlite runs the          *)
(* statements one after the other, in the order they were awaited.  It is  *)
(* in autocommit: a statement is durable at once unless somebody, not      *)
(* necessarily the caller, has begun a transaction.  commit() of the       *)
(* driver commits whatever transaction is open, or does nothing.           *)
(***************************************************************************)

VARIABLES
  disk,  \* the committed database
  view,  \* the database as every statement on the connection sees it
  tx     \* a transaction is open

connVars == <<disk, view, tx>>

-----------------------------------------------------------------------------
\* A statement that changes the database to d.
Execute(d) ==
  /\ view' = d
  /\ disk' = IF tx THEN disk ELSE d
  /\ UNCHANGED tx

\* The driver's commit(), which every write of a repository ends with.
Commit == disk' = view /\ tx' = FALSE /\ UNCHANGED view

\* BEGIN IMMEDIATE, COMMIT and ROLLBACK as statements: they raise when a
\* transaction is, or is not, open.
CanBegin == ~tx
BeginTx == tx' = TRUE /\ UNCHANGED <<disk, view>>
CanEnd == tx
RollbackTx == view' = disk /\ tx' = FALSE /\ UNCHANGED disk

\* The process dies; SQLite rolls an open transaction back.
LoseConnection == RollbackTx

\* Outside a transaction there is nothing uncommitted.
Settled == tx \/ view = disk
=============================================================================
