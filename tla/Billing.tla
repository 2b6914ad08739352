------------------------------- MODULE Billing -------------------------------
(***************************************************************************)
(* Invoices, src/contexts/billing: what the closing of an order becomes at *)
(* the Factus API, and the retry of what failed.                           *)
(*                                                                         *)
(* IssueInvoice runs from the outbox poller, which delivers the event of a *)
(* closed order again until its subscribers return; every delivery makes   *)
(* an invoice of its own.  Each save commits by itself and writes the      *)
(* whole row, nothing is locked, and Factus cannot be asked what it has    *)
(* already accepted.                                                       *)
(***************************************************************************)
EXTENDS Tables, Naturals, Sequences, FiniteSets

CONSTANTS Billers,       \* deliveries of the poller and clients, one request each
          Sales,         \* closed orders
          InvoiceIds,    \* bound: the invoices of a behaviour
          MaxDocuments,  \* bound: the documents Factus issues
          NoDocumentYet  \* the null of factus_document_number

ASSUME BillingAssumption ==
    /\ MaxDocuments \in Nat
    /\ NoDocumentYet \notin Nat

VARIABLES invoices,    \* the committed invoice rows, by id
          dispatched,  \* orders whose event is marked as dispatched
          configured,  \* the billing_configs table has a row
          factus,      \* the order of every document Factus issued, by its number
          biller,      \* what each biller is doing
          orphaned     \* history: invoices whose retry ended between its two saves

billingVars == <<invoices, dispatched, configured, factus, biller, orphaned>>

InvoiceStatus == {"PENDING", "ISSUED", "FAILED"}

InvoiceRow == [order : Sales, status : InvoiceStatus,
               document : (1..MaxDocuments) \cup {NoDocumentYet}]

CreatePending(s) == [order |-> s, status |-> "PENDING", document |-> NoDocumentYet]
MarkIssued(i, n) == [i EXCEPT !.status = "ISSUED", !.document = n]

\* Faulty variant: a failure leaves the status as it is.
MarkFailedOnly(i) == i

MarkFailed(i) == [i EXCEPT !.status = "FAILED"]
EnsureRetryable(i) == i.status = "FAILED"
ResetToPending(i) == [i EXCEPT !.status = "PENDING"]

Resting == [at |-> "rest"]

\* A biller is about to save its copy of an invoice for the first time.
Starting(b, task, id, copy) ==
    /\ biller[b] = Resting
    /\ biller' = [biller EXCEPT ![b] = [at |-> "pending", task |-> task, id |-> id,
                                        copy |-> copy]]
    /\ UNCHANGED <<invoices, dispatched, configured, factus, orphaned>>

Step(b, at, next) == biller[b].at = at /\ biller' = [biller EXCEPT ![b].at = next]

\* save(): the whole row.
SaveInvoice(b) == invoices' = WrittenOver(OneRow(biller[b].id, biller[b].copy), invoices)

-----------------------------------------------------------------------------
\* The poller delivers the event of a closed order; its row stays locked until
\* this delivery ends.  The id of the invoice is made up on the spot.
IssueInvoice(b) ==
    \E s \in Sales \ dispatched,
       id \in InvoiceIds \ (DOMAIN invoices \cup {biller[c].id : c \in {d \in Billers : biller[d] # Resting}}) :
        /\ \A c \in Billers : biller[c] # Resting =>
              ~(biller[c].task = "deliver" /\ biller[c].copy.order = s)
        /\ Starting(b, "deliver", id, CreatePending(s))

\* POST /invoices/:id/retry: without a configuration it throws before it saves.
RetryInvoice(b) ==
    \E id \in DOMAIN invoices :
        /\ EnsureRetryable(invoices[id])
        /\ configured
        /\ Starting(b, "retry", id, ResetToPending(invoices[id]))

SavePendingInvoice(b) ==
    /\ Step(b, "pending", "call")
    /\ SaveInvoice(b)
    /\ UNCHANGED <<dispatched, configured, factus, orphaned>>

Answered(b, copy) ==
    biller' = [biller EXCEPT ![b].at = "result", ![b].copy = copy]

\* Factus issues the document and its answer arrives.
FactusIssues(b) ==
    /\ biller[b].at = "call" /\ configured
    /\ Len(factus) < MaxDocuments      \* bound
    /\ factus' = Append(factus, biller[b].copy.order)
    /\ Answered(b, MarkIssued(biller[b].copy, Len(factus')))
    /\ UNCHANGED <<invoices, dispatched, configured, orphaned>>

\* Factus issues the document after the ten seconds, or its answer is lost.
FactusIssuesUnheard(b) ==
    /\ biller[b].at = "call" /\ configured
    /\ Len(factus) < MaxDocuments      \* bound
    /\ factus' = Append(factus, biller[b].copy.order)
    /\ Answered(b, MarkFailed(biller[b].copy))
    /\ UNCHANGED <<invoices, dispatched, configured, orphaned>>

\* Factus refuses or is not reached, or billing is not configured.
FactusRefuses(b) ==
    /\ biller[b].at = "call"
    /\ Answered(b, MarkFailed(biller[b].copy))
    /\ UNCHANGED <<invoices, dispatched, configured, factus, orphaned>>

SaveResult(b) ==
    /\ Step(b, "result", "publish")
    /\ SaveInvoice(b)
    /\ UNCHANGED <<dispatched, configured, factus, orphaned>>

\* publish() succeeds: a retry ends, a delivery returns to the poller, which marks
\* the event with the rest of its batch.
PublishInvoice(b) ==
    /\ biller[b].at = "publish"
    /\ biller' = [biller EXCEPT ![b] =
          IF @.task = "retry" THEN Resting ELSE [@ EXCEPT !.at = "mark"]]
    /\ UNCHANGED <<invoices, dispatched, configured, factus, orphaned>>

MarkDispatched(b) ==
    /\ biller[b].at = "mark"
    /\ dispatched' = dispatched \cup {biller[b].copy.order}
    /\ biller' = [biller EXCEPT ![b] = Resting]
    /\ UNCHANGED <<invoices, configured, factus, orphaned>>

\* A save or publish() throws, or the process ends.
BillerStops(b) ==
    /\ biller[b] # Resting
    /\ biller' = [biller EXCEPT ![b] = Resting]
    /\ orphaned' = IF biller[b].task = "retry" /\ biller[b].at \in {"call", "result"}
                   THEN orphaned \cup {biller[b].id} ELSE orphaned
    /\ UNCHANGED <<invoices, dispatched, configured, factus>>

\* Somebody puts a row into billing_configs; nothing removes it.
Configure ==
    /\ ~configured /\ configured' = TRUE
    /\ UNCHANGED <<invoices, dispatched, factus, biller, orphaned>>

-----------------------------------------------------------------------------
BillingInit ==
    /\ invoices = << >>
    /\ dispatched = {}
    /\ configured = FALSE
    /\ factus = << >>
    /\ biller = [b \in Billers |-> Resting]
    /\ orphaned = {}

BillingNext ==
    \/ \E b \in Billers :
          \/ IssueInvoice(b)
          \/ RetryInvoice(b)
          \/ SavePendingInvoice(b)
          \/ FactusIssues(b)
          \/ FactusIssuesUnheard(b)
          \/ FactusRefuses(b)
          \/ SaveResult(b)
          \/ PublishInvoice(b)
          \/ MarkDispatched(b)
          \/ BillerStops(b)
    \/ Configure

BillingSpec == BillingInit /\ [][BillingNext]_billingVars

-----------------------------------------------------------------------------
(* Properties *)

\* Type correctness of the committed rows and the requests.
BillingTypeOK ==
    /\ DOMAIN invoices \subseteq InvoiceIds
    /\ \A i \in DOMAIN invoices : invoices[i] \in InvoiceRow
    /\ dispatched \subseteq Sales
    /\ configured \in BOOLEAN
    /\ factus \in Seq(Sales)
    /\ \A b \in Billers : biller[b] # Resting =>
          /\ biller[b].at \in {"pending", "call", "result", "publish", "mark"}
          /\ biller[b].copy \in InvoiceRow
    /\ orphaned \subseteq InvoiceIds

\* A number stored with an invoice is that of a document Factus issued for the same
\* order, and no two invoices store the same one.
DocumentsBelongToTheirInvoices ==
    \A i \in DOMAIN invoices : invoices[i].status = "ISSUED" =>
        /\ invoices[i].document \in DOMAIN factus
        /\ factus[invoices[i].document] = invoices[i].order
        /\ \A j \in DOMAIN invoices \ {i} : invoices[j].document # invoices[i].document

\* Some invoice of the order is issued, or can be retried, or is being retried.
InGoodHands(s) ==
    \E i \in DOMAIN invoices :
        /\ invoices[i].order = s
        /\ \/ EnsureRetryable(invoices[i])
           \/ invoices[i].status = "ISSUED"
           \/ \E b \in Billers : biller[b] # Resting /\ biller[b].id = i

\* Through deliveries that are repeated, answers that are lost, billing that is not
\* configured yet and retries that overlap: an issued invoice carries a document of
\* its own, and the order whose event was marked is issued or can be brought to it,
\* unless a retry ended halfway and left its invoice PENDING, which nothing retries.
OrdersAreInvoiced ==
    /\ DocumentsBelongToTheirInvoices
    /\ \A s \in dispatched : (\E i \in orphaned : invoices[i].order = s) \/ InGoodHands(s)
=============================================================================
