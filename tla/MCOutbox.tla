------------------------------ MODULE MCOutbox ------------------------------
(***************************************************************************)
(* Small instances of Outbox.                                              *)
(***************************************************************************)
EXTENDS Outbox, TLC

\* One event of each kind the router and the poller tell apart: "received" and
\* "batchCreated" have synchronous subscribers that publish in turn;
\* "audit" has no subscriber; "ticket" has two
\* deferred ones (the default category), "poison" one that throws every time.
MCEvents == {"received", "batchCreated", "ticket", "poison", "audit"}
MCSynchronous == {"received", "batchCreated"}
MCCascade ==
    [e \in MCEvents |-> CASE e = "received" -> <<"batchCreated", "ticket">>
                          [] e = "batchCreated" -> <<"audit">>
                          [] OTHER -> <<>>]
MCDeferred ==
    [e \in MCEvents |-> CASE e = "ticket" -> <<"print", "notify">>
                          [] e = "poison" -> <<"notify">>
                          [] OTHER -> <<>>]
MCBroken == {<<"poison", "notify">>}
MCCalls ==
    [r \in Requests |-> CASE r = "receive" -> << <<"received">> >>
                          [] r = "alone" -> << <<"poison">>, <<"ticket">> >>]

\* The subscribers as registered: OrderClosed and OrderSentToKitchen have
\* category-1 and category-2 subscribers both, and no other event has category 2.
OrderEvents == {"orderClosed", "tableReleased", "outOfStock"}
OrderCascade ==
    [e \in OrderEvents |-> IF e = "orderClosed" THEN <<"tableReleased", "outOfStock">> ELSE <<>>]
OrderDeferred ==
    [e \in OrderEvents |-> IF e = "orderClosed" THEN <<"IssueBillingDocumentOnOrderClosed">>
                                                ELSE <<>>]
OrderCalls == [r \in Requests |-> << <<"orderClosed">> >>]
=============================================================================
