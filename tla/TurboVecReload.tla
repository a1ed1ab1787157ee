--------------------------- MODULE TurboVecReload ---------------------------
(***************************************************************************)
(* A schema change inside a write transaction.  ALTER TABLE on any table   *)
(* of the database makes SQLite read its schema again: the next statement  *)
(* on the turbovec0 table runs xConnect and uses a new instance.  The one  *)
(* that was written through stays in the transaction until it ends, so one *)
(* connection has several instances of one table, and COMMIT calls xSync   *)
(* on each.  SQLite is external, as in TurboVecTable.                      *)
(*                                                                         *)
(* The run has one connection.  Savepoints and failed statements are left  *)
(* to TurboVecTable: here a transaction is written, altered, and ended.    *)
(***************************************************************************)
EXTENDS TurboVecTable
LOCAL INSTANCE SequencesExt

VARIABLES
  left,      \* left[c]: written instances a reload left behind, oldest first
  altered    \* altered[c]: the transaction changed the schema

reloadVars == <<disk, mode, view, marks, statement, enlisted, state, left, altered>>

ReloadInit ==
  /\ Init
  /\ left = [c \in Connections |-> <<>>]
  /\ altered = [c \in Connections |-> FALSE]

KeepsInstances == UNCHANGED <<left, altered>>
AllDisconnected(c) ==
  /\ left' = [left EXCEPT ![c] = <<>>]
  /\ altered' = [altered EXCEPT ![c] = FALSE]

(* ALTER of any table of the database: SQLite parses the schema again and   *)
(* connects once more, so that make() opens the uncommitted shadow tables   *)
(* for a new instance.  (Before it, if the turbovec0 table itself is        *)
(* renamed, xRename renames them, which changes no row.)                    *)
SchemaChange(c) ==
  /\ Writing(c) /\ ~altered[c]
  /\ left' = [left EXCEPT ![c] = IF enlisted[c] THEN Append(@, state[c]) ELSE @]
  /\ altered' = [altered EXCEPT ![c] = TRUE]
  /\ SetState(c, OpenStorage(view[c]))
  /\ enlisted' = [enlisted EXCEPT ![c] = FALSE]
  /\ UNCHANGED <<disk, mode, view, marks, statement>>

(* A rollback forgets the changed schema, and every instance with it.      *)
Restored(c) ==
  /\ Ended(c, disk) /\ AllDisconnected(c)
  /\ SetState(c, IF altered[c] THEN OpenStorage(disk)
                 ELSE IF enlisted[c] THEN RolledBack(state[c]) ELSE state[c])

(* xSync on every written instance in the order they were enlisted, each   *)
(* on the tables as the one before left them; the first error ends it.     *)
SyncEach(instances, s) ==
  FoldLeft(LAMBDA done, st : IF done.ok THEN Sync(st, done.s) ELSE done,
           Written(TRUE, None, s), instances)

(* COMMIT, and xCommit on each; the instances left behind are disconnected.*)
CommitEach(c) ==
  LET earlier == SyncEach(left[c], view[c])
      last == IF earlier.ok /\ enlisted[c] THEN Sync(state[c], earlier.s)
              ELSE Written(earlier.ok, state[c], earlier.s)
  IN  /\ Writing(c) /\ ~Busy(c)
      /\ \/ ~last.ok /\ Restored(c)
         \/ /\ last.ok
            /\ Ended(c, last.s) /\ AllDisconnected(c)
            /\ SetState(c, Committed(last.st))

ReloadNext ==
  \E c \in Connections :
    \/ BeginWrite(c) /\ KeepsInstances
    \/ Search(c) /\ KeepsInstances
    \/ Scan(c) /\ KeepsInstances
    \/ Enlist(c) /\ KeepsInstances
    \/ InsertRow(c) /\ KeepsInstances
    \/ DeleteRow(c) /\ KeepsInstances
    \/ Reopen(c) /\ AllDisconnected(c)
    \/ SchemaChange(c)
    \/ CommitEach(c)
    \/ mode[c] = "write" /\ Restored(c)

ReloadSpec == ReloadInit /\ [][ReloadNext]_reloadVars
=============================================================================
