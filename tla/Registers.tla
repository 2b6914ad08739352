------------------------------ MODULE Registers ------------------------------
(***************************************************************************)
(* The registers of the back office: tables of rows that clerks create,    *)
(* edit and delete through the same kind of request.  A behaviour is about *)
(* one register, `reg'; the modules that extend this one (FloorRegisters   *)
(* and CatalogRegisters) define, for each register, its rows and its use   *)
(* cases.                                                                  *)
(*                                                                         *)
(* A use case reads what it needs, decides, and then saves or deletes one  *)
(* row.  Nothing is locked or versioned, so requests of two clerks         *)
(* overlap: what was read may be stale when the row is written.  save() is *)
(* TypeORM's: it selects the row by id, inserts it if there is none and    *)
(* updates the columns that differ if there is one.  So it brings back a   *)
(* row that was deleted, a creation with an id that exists overwrites that *)
(* row, and the columns of two requests can end up in one row: `blended'   *)
(* remembers such rows.                                                    *)
(***************************************************************************)
EXTENDS Tables, Naturals, FiniteSets

CONSTANTS RegisterClerks,   \* the clients, each with one request at a time
          Ids,              \* ids of rows: they come with the request
          Names,            \* what a row is known by: its name or number
          Scope             \* bound: the ids and names that requests put together, by
                            \* register

VARIABLES reg,      \* the register this behaviour is about
          rows,     \* its committed rows, by id
          links,    \* ids of this register that rows of other tables hold
          request,  \* the statement each clerk is about to issue
          blended   \* history: rows that the last UPDATE left other than its request
                    \* wanted them

registerVars == <<reg, rows, links, request, blended>>

NoRequest == [do |-> "nothing"]
SaveRow(id, row) == [do |-> "select", id |-> id, row |-> row, columns |-> {}]
DeleteRow(id) == [do |-> "delete", id |-> id]

\* The rows a search by name finds.
Named(n) == {id \in DOMAIN rows : rows[id].name = n}

InScope(s) == s.do = "select" => <<s.id, s.row.name>> \in Scope[reg]

\* A use case decided on a statement.
Decide(c, statement) ==
    /\ request[c] = NoRequest
    /\ InScope(statement)      \* bound
    /\ request' = [request EXCEPT ![c] = statement]
    /\ UNCHANGED <<reg, rows, links, blended>>

\* save() selects the row; if it is as wanted, nothing is left to do.  Rows of
\* another table that belong to it are replaced whether or not they differ.
SelectRow(c, replaced) ==
    LET s == request[c]
        columns == Differing(s.row, rows[s.id]) \cup replaced IN
    /\ s.do = "select"
    /\ request' = [request EXCEPT ![c] =
          IF s.id \notin DOMAIN rows THEN [s EXCEPT !.do = "insert"]
          ELSE IF columns = {} THEN NoRequest
          ELSE [s EXCEPT !.do = "update", !.columns = columns]]
    /\ UNCHANGED <<reg, rows, links, blended>>

\* With a unique index, a name that another row has is refused by the database.
InsertSaved(s, unique) ==
    /\ s.do = "insert" /\ s.id \notin DOMAIN rows
    /\ unique => Named(s.row.name) = {}
    /\ rows' = WrittenOver(OneRow(s.id, s.row), rows)
    /\ blended' = blended

\* The UPDATE of a row that was deleted meanwhile changes nothing.
UpdateSaved(s, unique) ==
    /\ s.do = "update"
    /\ IF s.id \in DOMAIN rows
       THEN LET row == WithColumns(rows[s.id], s.row, s.columns) IN
            /\ unique => Named(row.name) \subseteq {s.id}
            /\ rows' = [rows EXCEPT ![s.id] = row]
            /\ blended' = IF row = s.row THEN blended \ {s.id} ELSE blended \cup {s.id}
       ELSE UNCHANGED <<rows, blended>>

SaveStatement(c, unique) ==
    /\ InsertSaved(request[c], unique) \/ UpdateSaved(request[c], unique)
    /\ request' = [request EXCEPT ![c] = NoRequest]
    /\ UNCHANGED <<reg, links>>

\* delete(): a foreign key protects a row that is referred to.
DeleteStatement(c, foreignKey) ==
    LET s == request[c] IN
    /\ s.do = "delete"
    /\ foreignKey => s.id \notin links
    /\ rows' = [id \in DOMAIN rows \ {s.id} |-> rows[id]]
    /\ blended' = blended \ {s.id}
    /\ request' = [request EXCEPT ![c] = NoRequest]
    /\ UNCHANGED <<reg, links>>

\* A row of another table comes to hold an id of register r, or no row does any
\* longer.  A foreign key refuses the id of a row that is not there.
Refer(r, foreignKey) ==
    /\ reg = r
    /\ \E id \in Ids \ links :
          /\ foreignKey => id \in DOMAIN rows
          /\ links' = links \cup {id}
    /\ UNCHANGED <<reg, rows, request, blended>>

Unrefer(r) ==
    /\ reg = r
    /\ \E id \in links : links' = links \ {id}
    /\ UNCHANGED <<reg, rows, request, blended>>

\* The database refuses the statement, or the request dies before it: nothing
\* was written.
FailRequest(c) ==
    /\ request[c] # NoRequest
    /\ request' = [request EXCEPT ![c] = NoRequest]
    /\ UNCHANGED <<reg, rows, links, blended>>

RegistersInit(registers) ==
    /\ reg \in registers
    /\ rows = << >>
    /\ links = {}
    /\ request = [c \in RegisterClerks |-> NoRequest]
    /\ blended = {}
=============================================================================
