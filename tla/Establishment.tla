---------------------------- MODULE Establishment ----------------------------
(***************************************************************************)
(* The settings of the restaurant, src/contexts/establishment: one row,    *)
(* the oldest of its table, that every order reads.  Of its columns this   *)
(* model keeps the two that must fit each other, the type and the rate of  *)
(* the tax.                                                                *)
(*                                                                         *)
(* An update loads the row, merges what the request names, validates the   *)
(* result and saves it whole.  save() is two statements: TypeORM selects   *)
(* the row again and then updates the columns that differ from what it     *)
(* just selected.  Nothing is locked between any two of these.  `crossed'  *)
(* remembers that a row changed between the two statements of a save().    *)
(***************************************************************************)
EXTENDS Naturals, Sequences, FiniteSets

CONSTANTS Managers,        \* the clients, each with one request at a time
          SettingsIds,     \* ids a first request may carry
          TaxTypes,        \* types of tax
          Exempt,          \* the type without a rate
          Rates,           \* rates; 0 is none
          Unset            \* what a request leaves out; no row

ASSUME EstablishmentAssumption ==
    /\ Exempt \in TaxTypes /\ 0 \in Rates
    /\ Unset \notin TaxTypes \cup Rates

VARIABLES establishments,  \* the committed rows, the oldest first
          office,          \* the request of each client
          crossed          \* history

establishmentVars == <<establishments, office, crossed>>

SettingsRow == [id : SettingsIds, taxType : TaxTypes, taxRate : Rates]
CreateSettingsRequest == SettingsRow
UpdateSettingsRequest == [taxType : TaxTypes \cup {Unset}, taxRate : Rates \cup {Unset}]

AtRest == [at |-> "rest"]

EnsureTaxRateMatchesTaxType(row) == row.taxType = Exempt <=> row.taxRate = 0

\* A request that names both is refused when they do not fit.
TaxRateMatchesTaxType(q) ==
    q.taxType # Unset /\ q.taxRate # Unset => EnsureTaxRateMatchesTaxType(q)

RowOf(id) == {n \in DOMAIN establishments : establishments[n].id = id}
StoredRow(id) ==
    IF RowOf(id) = {} THEN Unset ELSE establishments[CHOOSE n \in RowOf(id) : TRUE]

\* findSingleton: the oldest row, which must be valid to be read.
CanFindSingleton ==
    establishments # << >> /\ EnsureTaxRateMatchesTaxType(establishments[1])

MergedSettings(row, q) ==
    [row EXCEPT !.taxType = IF q.taxType = Unset THEN @ ELSE q.taxType,
                !.taxRate = IF q.taxRate = Unset THEN @ ELSE q.taxRate]

\* Faulty variant: an update is valid when the request is.
ValidUpdateOfRequest(row, q) == TaxRateMatchesTaxType(q)

ValidUpdate(row, q) ==
    TaxRateMatchesTaxType(q) /\ EnsureTaxRateMatchesTaxType(MergedSettings(row, q))

\* The settings that the first request may give.
NewSettings(q) == q

-----------------------------------------------------------------------------
SubmitSettings(m, row) ==
    /\ office[m] = AtRest
    /\ office' = [office EXCEPT ![m] = [at |-> "select", row |-> row]]
    /\ UNCHANGED <<establishments, crossed>>

\* POST /establishment/settings: only while there are none.
InitializeEstablishment(m) ==
    \E q \in CreateSettingsRequest :
        /\ EnsureTaxRateMatchesTaxType(q)
        /\ establishments = << >>
        /\ SubmitSettings(m, NewSettings(q))

\* PATCH /establishment/settings.
UpdateEstablishmentSettings(m) ==
    \E q \in UpdateSettingsRequest :
        /\ CanFindSingleton
        /\ ValidUpdate(establishments[1], q)
        /\ SubmitSettings(m, MergedSettings(establishments[1], q))

\* The first statement of save(): what the columns are compared with.
SelectSettings(m) ==
    /\ office[m].at = "select"
    /\ office' = [office EXCEPT ![m] =
          [at |-> "write", row |-> @.row, base |-> StoredRow(@.row.id)]]
    /\ UNCHANGED <<establishments, crossed>>

\* The columns that differ from what was selected are written into row r.
Updated(r, row, base) ==
    [r EXCEPT !.taxType = IF row.taxType = base.taxType THEN @ ELSE row.taxType,
              !.taxRate = IF row.taxRate = base.taxRate THEN @ ELSE row.taxRate]

\* The second statement: an INSERT when nothing was selected, which the primary
\* key refuses if the row has come to be, and otherwise an UPDATE.
WriteSettings(m) ==
    LET w == office[m] IN
    /\ w.at = "write"
    /\ w.base = Unset => RowOf(w.row.id) = {}
    /\ establishments' =
          IF w.base = Unset THEN Append(establishments, w.row)
          ELSE [n \in DOMAIN establishments |->
                   IF n \in RowOf(w.row.id) THEN Updated(establishments[n], w.row, w.base)
                   ELSE establishments[n]]
    /\ crossed' = (crossed \/ StoredRow(w.row.id) # w.base)
    /\ office' = [office EXCEPT ![m] = AtRest]

\* A statement is refused, or the process ends.
AbandonSettings(m) ==
    /\ office[m] # AtRest
    /\ office' = [office EXCEPT ![m] = AtRest]
    /\ UNCHANGED <<establishments, crossed>>

-----------------------------------------------------------------------------
EstablishmentInit ==
    /\ establishments = << >>
    /\ office = [m \in Managers |-> AtRest]
    /\ crossed = FALSE

EstablishmentNext ==
    \E m \in Managers :
        \/ InitializeEstablishment(m)
        \/ UpdateEstablishmentSettings(m)
        \/ SelectSettings(m)
        \/ WriteSettings(m)
        \/ AbandonSettings(m)

EstablishmentSpec == EstablishmentInit /\ [][EstablishmentNext]_establishmentVars

-----------------------------------------------------------------------------
(* Properties *)

\* Type correctness of the committed rows and the requests.
EstablishmentTypeOK ==
    /\ establishments \in Seq(SettingsRow)
    /\ office \in [Managers -> {AtRest} \cup [at : {"select"}, row : SettingsRow]
                     \cup [at : {"write"}, row : SettingsRow, base : SettingsRow \cup {Unset}]]
    /\ crossed \in BOOLEAN

\* Unless a row changed between the two statements of a save(): requests that
\* overlap, in whichever order they read and save, leave settings that can be
\* read again.  A row that does not fit is refused by every later read, the one
\* of the update that would repair it included.
SettingsCanBeRead ==
    ~crossed => \A n \in DOMAIN establishments :
                    EnsureTaxRateMatchesTaxType(establishments[n])
=============================================================================
