------------------------------- MODULE Tables -------------------------------
(***************************************************************************)
(* A table is a function from ids to rows; what save() makes of it.        *)
(***************************************************************************)

OneRow(id, row) == [i \in {id} |-> row]

\* Rows are inserted, or replace the row of the same id.
WrittenOver(new, old) ==
    [i \in DOMAIN new \cup DOMAIN old |-> IF i \in DOMAIN new THEN new[i] ELSE old[i]]

\* UPDATE of some columns.
WithColumns(row, given, columns) ==
    [c \in DOMAIN row |-> IF c \in columns THEN given[c] ELSE row[c]]

\* TypeORM's save() of a row that is there: of what it is given it writes the columns
\* that differ from the row it selected.
Differing(given, selected) == {c \in DOMAIN given : given[c] # selected[c]}
ColumnsWritten(given, selected, row) == WithColumns(row, given, Differing(given, selected))
=============================================================================
