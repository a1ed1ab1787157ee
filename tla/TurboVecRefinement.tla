------------------------- MODULE TurboVecRefinement -------------------------
(***************************************************************************)
(* turbovec0 implements SqlTable.  Two history variables write down what   *)
(* the refinement mapping needs after each step: the rows a search on each *)
(* connection would return, and the rows that can be read from the file.   *)
(* They are functions of the state of TurboVecTable and guard nothing.     *)
(***************************************************************************)
EXTENDS TurboVecTable

VARIABLES shown, stored

refinementVars == <<vars, shown, stored>>

Record ==
  /\ shown' = [c \in Connections |->
                IF state'[c] = state[c] /\ view'[c] = view[c] THEN shown[c]
                ELSE SeenRows(state'[c], view'[c])]
  /\ stored' = IF disk' = disk THEN stored ELSE Content(disk')

RecordedInit ==
  /\ Init
  /\ shown = [c \in Connections |-> SeenRows(state[c], view[c])]
  /\ stored = Content(disk)

RecordedNext == Next /\ Record

RecordedSpec == RecordedInit /\ [][RecordedNext]_refinementVars

(* Every behaviour of turbovec0 is one of a transactional SQL table: what  *)
(* a search returns is the table, the readable content of the file is what *)
(* is committed, and a mark holds the rows that were seen when it was set. *)
Sql == INSTANCE SqlTable WITH
  committed <- stored,
  rows <- shown,
  saved <- [c \in Connections |-> [j \in DOMAIN marks[c] |-> marks[c][j].rows]]

ImplementsSqlTable == Sql!Spec
=============================================================================
