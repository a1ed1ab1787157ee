------------------------------ MODULE SqlTable ------------------------------
(***************************************************************************)
(* What turbovec0 promises: a SQL table of vectors that takes part in      *)
(* SQLite's transactions.  There is one committed table; a connection      *)
(* reads a snapshot of it, one connection at a time writes, what it writes *)
(* is seen by itself alone until it commits, a savepoint restores the rows *)
(* it was opened on, and a transaction takes effect whole or not at all.   *)
(* No index, no shadow table, no log and no cache appear here.             *)
(***************************************************************************)
EXTENDS Naturals, Sequences

CONSTANTS Connections, Rowid, Vector, None

Rows == [Rowid -> Vector \cup {None}]

VARIABLES
  committed,   \* the table every new transaction starts from
  mode,        \* mode[c]: "idle", "read" or "write"
  rows,        \* rows[c]: the table as connection c sees it
  saved        \* saved[c]: what each open savepoint of c would restore

sqlVars == <<committed, mode, rows, saved>>

Init ==
  /\ committed \in Rows
  /\ mode = [c \in Connections |-> "idle"]
  /\ rows = [c \in Connections |-> committed]
  /\ saved = [c \in Connections |-> <<>>]

BeginRead(c) ==
  /\ mode[c] = "idle"
  /\ mode' = [mode EXCEPT ![c] = "read"]
  /\ UNCHANGED <<committed, rows, saved>>

BeginWrite(c) ==
  /\ mode[c] # "write" /\ rows[c] = committed
  /\ \A d \in Connections : mode[d] # "write"
  /\ mode' = [mode EXCEPT ![c] = "write"]
  /\ UNCHANGED <<committed, rows, saved>>

Write(c) ==
  /\ mode[c] = "write"
  /\ \E id \in Rowid, value \in Vector \cup {None} :
       rows' = [rows EXCEPT ![c][id] = value]
  /\ UNCHANGED <<committed, mode, saved>>

Save(c) ==
  /\ mode[c] = "write"
  /\ saved' = [saved EXCEPT ![c] = Append(@, rows[c])]
  /\ UNCHANGED <<committed, mode, rows>>

Release(c) ==
  /\ \E j \in 0 .. Len(saved[c]) - 1 : saved' = [saved EXCEPT ![c] = SubSeq(@, 1, j)]
  /\ UNCHANGED <<committed, mode, rows>>

(* Back to a savepoint, which stays open or, for a failed statement, goes. *)
Restore(c) ==
  /\ \E j \in 1 .. Len(saved[c]) :
       /\ rows' = [rows EXCEPT ![c] = saved[c][j]]
       /\ \E kept \in {j, j - 1} : saved' = [saved EXCEPT ![c] = SubSeq(@, 1, kept)]
  /\ UNCHANGED <<committed, mode>>

RestoreBegin(c) ==
  /\ mode[c] = "write"
  /\ rows' = [rows EXCEPT ![c] = committed]
  /\ saved' = [saved EXCEPT ![c] = <<>>]
  /\ UNCHANGED <<committed, mode>>

(* The end of a transaction: c sees what is committed, and so does every   *)
(* connection that holds no snapshot.                                      *)
End(c, table) ==
  /\ committed' = table
  /\ mode' = [mode EXCEPT ![c] = "idle"]
  /\ rows' = [d \in Connections |->
                IF d = c \/ mode[d] = "idle" THEN table ELSE rows[d]]
  /\ saved' = [saved EXCEPT ![c] = <<>>]

Commit(c) == mode[c] = "write" /\ End(c, rows[c])
Abandon(c) == End(c, committed)

Next ==
  \E c \in Connections :
    \/ BeginRead(c) \/ BeginWrite(c) \/ Write(c)
    \/ Save(c) \/ Release(c) \/ Restore(c) \/ RestoreBegin(c)
    \/ Commit(c) \/ Abandon(c)

Spec == Init /\ [][Next]_sqlVars
=============================================================================
