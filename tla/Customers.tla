------------------------------ MODULE Customers ------------------------------
(***************************************************************************)
(* Customers, their addresses and loyalty accounts, src/contexts/crm, and  *)
(* what closing an order adds to a customer.                               *)
(*                                                                         *)
(* A request reads what it needs and then saves; what it writes becomes    *)
(* visible at once, because it is one statement or one transaction.        *)
(* TypeORM's save() selects the rows again and writes the columns that     *)
(* differ from what it just selected.  Nothing is locked or versioned in   *)
(* between, so a request may write back what it read before another one    *)
(* changed it.  `stale' remembers that this happened.                      *)
(*                                                                         *)
(* The routes of the addresses take the customer from the URL and do not   *)
(* look whose the address is, and a POST with the id of an address there   *)
(* is moves that address.  `misdirected' remembers such a request.         *)
(***************************************************************************)
EXTENDS Tables, Naturals, FiniteSets

CONSTANTS CrmClerks,    \* the clients, each with one request at a time
          People,       \* ids of customers
          Phones,       \* phone numbers
          Documents,    \* identity documents (type and number)
          NoDocument,   \* of a request that does not look a document up
          AddressIds,   \* ids of addresses
          Circles,      \* bound: who sends which requests in a behaviour
          NoAddress,    \* the null of default_address_id
          Totals,       \* totals of closed orders
          MaxLifetime   \* bound: closed orders add up to at most this

ASSUME CustomersAssumption ==
    /\ Circles \subseteq [clerks : SUBSET CrmClerks,
                         profiles : SUBSET [id : People, phone : Phones, document : Documents],
                         phones : SUBSET Phones, addresses : SUBSET AddressIds,
                         totals : SUBSET Totals]
    /\ NoDocument \notin Documents
    /\ NoAddress \notin AddressIds
    /\ Totals \subseteq Nat \ {0}
    /\ MaxLifetime \in Nat

VARIABLES circle,       \* what this behaviour is about
          customers,    \* the committed customer rows, by id
          addresses,    \* whose address each committed address row is, by id
          accounts,     \* customers with a loyalty account
          counter,      \* the request each clerk is running
          spent,        \* history: totals of the closed orders of each customer
          stale,        \* history: some request wrote after what it read changed
          misdirected   \* history: some request named another customer's address

customerVars == <<circle, customers, addresses, accounts, counter, spent, stale, misdirected>>

CustomerRow == [phone : Phones, document : Documents,
                defaultAddressId : AddressIds \cup {NoAddress},
                lifetimeValue : 0..MaxLifetime]

NoCustomer == [phone |-> NoDocument, document |-> NoDocument,
               defaultAddressId |-> NoAddress, lifetimeValue |-> 0]

CreateCustomerRequest == circle.profiles
UpdateCustomerRequest == [phone : circle.phones]
AddAddressRequest == [id : circle.addresses]

NewCustomer(q) ==
    [phone |-> q.phone, document |-> q.document, defaultAddressId |-> NoAddress,
     lifetimeValue |-> 0]

\* Faulty variant: an edit starts the lifetime value again.
EditedCustomerAnew(row, q) == [row EXCEPT !.phone = q.phone, !.lifetimeValue = 0]

EditedCustomer(row, q) == [row EXCEPT !.phone = q.phone]

SetDefault(row, a) == [row EXCEPT !.defaultAddressId = a]

AddToLifetimeValue(row, total) == [row EXCEPT !.lifetimeValue = @ + total]

ExistsByPhone(f) == \E p \in DOMAIN customers : customers[p].phone = f

ExistsByDocument(d) == \E p \in DOMAIN customers : customers[p].document = d

\* Of an address only its id and its customer are kept.
NewAddress(q) == {q.id}
EditedAddress(a) == {a}

AddressesOf(p) == {a \in DOMAIN addresses : addresses[a] = p}
CountByCustomer(p) == Cardinality(AddressesOf(p))

\* The subscriber of CustomerCreated; the index on customer_id refuses a second
\* account.
MayOpenLoyaltyAccount(p) == p \notin accounts

\* CreateLoyaltyAccountOnCustomerCreated.
LoyaltyAccountOf(p) == {p}

-----------------------------------------------------------------------------
(* A request: the customer and the address that its URL and its body name, what
   it read, and what it will write: the customer row (NoCustomer: none), an address
   to save or to delete, a loyalty account, and what the order it closes adds. *)

AtCounter == [at |-> "free"]

\* The rows of the customer, of its addresses and of the addresses the request names.
Seen(p, names, d) ==
    [row |-> IF p \in DOMAIN customers THEN customers[p] ELSE NoCustomer,
     addresses |-> [a \in AddressesOf(p) \cup (names \cap DOMAIN addresses) |-> addresses[a]],
     documentTaken |-> ExistsByDocument(d)]

Writes(p, row, names) ==
    [at |-> "select", person |-> p, document |-> NoDocument, read |-> Seen(p, names, NoDocument),
     row |-> row, names |-> names, put |-> {}, drop |-> {}, account |-> FALSE, total |-> 0]

\* An address that the request names is another customer's.
NamesAnothers(r) ==
    \E a \in r.names : a \in DOMAIN addresses /\ addresses[a] # r.person

Submit(c, writes) ==
    /\ counter[c] = AtCounter
    /\ counter' = [counter EXCEPT ![c] = writes]
    /\ misdirected' = (misdirected \/ NamesAnothers(writes))
    /\ UNCHANGED <<circle, customers, addresses, accounts, spent, stale>>

\* POST /customers, one transaction with its synchronous subscriber, which opens
\* the loyalty account.  The id comes with the request and is not looked up.
CreateCustomer(c) ==
    \E q \in CreateCustomerRequest :
        /\ ~ExistsByPhone(q.phone)
        /\ ~ExistsByDocument(q.document)
        /\ Submit(c, [Writes(q.id, NewCustomer(q), {}) EXCEPT
                          !.document = q.document, !.read = Seen(q.id, {}, q.document),
                          !.account = TRUE])

\* PUT /customers/:id.
UpdateCustomer(c) ==
    \E p \in DOMAIN customers, q \in UpdateCustomerRequest :
        /\ customers[p].phone # q.phone => ~ExistsByPhone(q.phone)
        /\ Submit(c, Writes(p, EditedCustomer(customers[p], q), {}))

\* POST /customers/:id/addresses, one transaction: the first address of a customer
\* becomes the default one.  The id comes with the request and is not looked up.
AddAddress(c) ==
    \E p \in DOMAIN customers, q \in AddAddressRequest :
        Submit(c, [Writes(p, IF CountByCustomer(p) = 0 THEN SetDefault(customers[p], q.id)
                             ELSE NoCustomer, {q.id}) EXCEPT !.put = NewAddress(q)])

\* PUT /customers/:id/addresses/:id: writes the row of the address only, whoever the
\* URL names.
UpdateAddress(c) ==
    \E a \in DOMAIN addresses :
        Submit(c, [Writes(addresses[a], NoCustomer, {a}) EXCEPT !.put = EditedAddress(a)])

\* DELETE /customers/:id/addresses/:id, one transaction: the default address goes
\* only as the last one.
RemoveAddress(c) ==
    \E p \in DOMAIN customers, a \in DOMAIN addresses :
        LET isDefault == customers[p].defaultAddressId = a IN
        /\ isDefault => CountByCustomer(p) <= 1
        /\ Submit(c, [Writes(p, IF isDefault /\ CountByCustomer(p) = 1
                                THEN SetDefault(customers[p], NoAddress)
                                ELSE NoCustomer, {a}) EXCEPT !.drop = {a}])

\* POST /customers/:id/addresses/:id/set-default.
SetDefaultAddress(c) ==
    \E p \in DOMAIN customers, a \in DOMAIN addresses :
        Submit(c, Writes(p, SetDefault(customers[p], a), {a}))

\* An order of the customer is closed: its synchronous subscriber adds the total.
UpdateLifetimeValueOnOrderClosed(c) ==
    \E p \in DOMAIN customers, t \in circle.totals :
        /\ spent[p] + t <= MaxLifetime      \* bound
        /\ Submit(c, [Writes(p, AddToLifetimeValue(customers[p], t), {}) EXCEPT !.total = t])

SeenNow(r) == Seen(r.person, r.names, r.document)

\* save() selects the rows: what was read before is forgotten.
SelectCustomer(c) ==
    LET r == counter[c] IN
    /\ r.at = "select"
    /\ counter' = [counter EXCEPT ![c].at = "write", ![c].read = SeenNow(r)]
    /\ stale' = (stale \/ SeenNow(r) # r.read)
    /\ misdirected' = (misdirected \/ NamesAnothers(r))
    /\ UNCHANGED <<circle, customers, addresses, accounts, spent>>

\* The row as its INSERT or its UPDATE leaves it.
SavedCustomer(r) ==
    IF r.read.row = NoCustomer THEN r.row
    ELSE ColumnsWritten(r.row, r.read.row, customers[r.person])

\* An address that was not there is inserted; of one that was the customer is written
\* when it differs.
Inserted(r) == r.put \ DOMAIN r.read.addresses
Moved(r) == {a \in r.put \cap DOMAIN r.read.addresses : r.read.addresses[a] # r.person}

SavedAddresses(r) ==
    [a \in (DOMAIN addresses \cup Inserted(r)) \ r.drop |->
        IF a \in Inserted(r) \cup Moved(r) THEN r.person ELSE addresses[a]]

\* The statement, or the transaction, is committed.  The database refuses a phone
\* that another row has, an address id twice, and a second loyalty account of a
\* customer.
CommitCustomer(c) ==
    LET r == counter[c]
        writesRow == r.row # NoCustomer IN
    /\ r.at = "write"
    /\ r.account => MayOpenLoyaltyAccount(r.person)
    /\ writesRow =>
          \A q \in DOMAIN customers \ {r.person} : customers[q].phone # SavedCustomer(r).phone
    /\ Inserted(r) \cap DOMAIN addresses = {}
    /\ spent[r.person] + r.total <= MaxLifetime      \* bound
    /\ customers' = IF writesRow THEN WrittenOver(OneRow(r.person, SavedCustomer(r)), customers)
                    ELSE customers
    /\ addresses' = SavedAddresses(r)
    /\ accounts' = IF r.account THEN accounts \cup LoyaltyAccountOf(r.person) ELSE accounts
    /\ spent' = [spent EXCEPT ![r.person] = @ + r.total]
    /\ stale' = (stale \/ SeenNow(r) # r.read)
    /\ misdirected' = (misdirected \/ NamesAnothers(r))
    /\ counter' = [counter EXCEPT ![c] = AtCounter]
    /\ UNCHANGED circle

\* A statement is refused, or the request dies: its transaction is rolled back.
AbandonCustomer(c) ==
    /\ counter[c] # AtCounter
    /\ counter' = [counter EXCEPT ![c] = AtCounter]
    /\ UNCHANGED <<circle, customers, addresses, accounts, spent, stale, misdirected>>

-----------------------------------------------------------------------------
CustomersInit ==
    /\ circle \in Circles
    /\ customers = << >>
    /\ addresses = << >>
    /\ accounts = {}
    /\ counter = [c \in CrmClerks |-> AtCounter]
    /\ spent = [p \in People |-> 0]
    /\ stale = FALSE
    /\ misdirected = FALSE

CustomerCommand(c) ==
    \/ CreateCustomer(c)
    \/ UpdateCustomer(c)

AddressCommand(c) ==
    \/ AddAddress(c)
    \/ UpdateAddress(c)
    \/ RemoveAddress(c)
    \/ SetDefaultAddress(c)

CustomersNext ==
    \E c \in circle.clerks :
        \/ CustomerCommand(c)
        \/ AddressCommand(c)
        \/ UpdateLifetimeValueOnOrderClosed(c)
        \/ SelectCustomer(c)
        \/ CommitCustomer(c)
        \/ AbandonCustomer(c)

CustomersSpec == CustomersInit /\ [][CustomersNext]_customerVars

-----------------------------------------------------------------------------
(* Properties *)

AddressTable == UNION {[as -> People] : as \in SUBSET AddressIds}

CustomerRequest ==
    [at : {"select", "write"}, person : People, document : Documents \cup {NoDocument},
     read : [row : CustomerRow \cup {NoCustomer}, addresses : AddressTable,
             documentTaken : BOOLEAN],
     row : CustomerRow \cup {NoCustomer}, names : SUBSET AddressIds,
     put : SUBSET AddressIds, drop : SUBSET AddressIds, account : BOOLEAN,
     total : Totals \cup {0}]

\* Type correctness of the committed rows, the requests and the history.
CustomersTypeOK ==
    /\ circle \in Circles
    /\ DOMAIN customers \subseteq People
    /\ \A p \in DOMAIN customers : customers[p] \in CustomerRow
    /\ addresses \in AddressTable
    /\ accounts \subseteq People
    /\ \A c \in CrmClerks : counter[c] \in CustomerRequest \cup {AtCounter}
    /\ spent \in [People -> 0..MaxLifetime]
    /\ stale \in BOOLEAN
    /\ misdirected \in BOOLEAN

CustomersHaveLoyaltyAccounts == accounts = DOMAIN customers

CustomersAreDistinct ==
    \A p, q \in DOMAIN customers :
        p # q => /\ customers[p].phone # customers[q].phone
                 /\ ~stale => customers[p].document # customers[q].document

CustomersKeepTheirDefaultAddress ==
    ~stale /\ ~misdirected => \A p \in DOMAIN customers :
        IF AddressesOf(p) = {} THEN customers[p].defaultAddressId = NoAddress
        ELSE customers[p].defaultAddressId \in AddressesOf(p)

LifetimeValueCountsClosedOrders ==
    ~stale => \A p \in DOMAIN customers : customers[p].lifetimeValue = spent[p]

\* Every customer has a loyalty account and nobody else has one, whatever requests
\* overlap, are sent again or fail: this is also what keeps a second creation with
\* the id of a customer from overwriting that customer.  No two customers have one
\* phone number.  Unless a request wrote what had meanwhile changed, no two have one
\* document either, the lifetime value is what the customer's closed orders add up to,
\* and, as long as no request named an address of a customer that is not the URL's, a
\* customer with addresses has one of them as the default one and a customer without
\* has none.
CustomersAreConsistent ==
    /\ CustomersHaveLoyaltyAccounts
    /\ CustomersAreDistinct
    /\ CustomersKeepTheirDefaultAddress
    /\ LifetimeValueCountsClosedOrders
=============================================================================
