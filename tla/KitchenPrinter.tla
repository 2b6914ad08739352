--------------------------- MODULE KitchenPrinter ---------------------------
(***************************************************************************)
(* Kitchen tickets from their dispatch to the paper.                       *)
(*                                                                         *)
(* The outbox worker dispatches a ticket: it prints on a network printer   *)
(* itself, and leaves a print job for a USB one.  The print agent, the     *)
(* program beside the USB printers, holds a socket to the API process,     *)
(* receives tickets on it and answers each with print-ack or print-nack.   *)
(* Staff reprint from the lists of unprinted and failed jobs.              *)
(*                                                                         *)
(* Answers and reprints are handled concurrently and without a transaction:*)
(* a handler reads the job, changes its copy, and saves it.  save() reads  *)
(* the row once more and updates the columns in which its copy differs.    *)
(***************************************************************************)
EXTENDS Naturals, Sequences, FiniteSets

CONSTANTS
    Jobs,           \* dispatches of a ticket to one station
    Network,        \* those whose station has a network printer
    Connections,    \* sockets of the agent, one after the other
    Handlers,       \* bound: handlers at work at the same time
    AgentReasons,   \* what a print-nack may carry
    MaxReprints,    \* bound: reprints of one job
    NoRow, NoConnection

FailureReason == {"out-of-paper", "offline", "jammed", "unknown"}
Status == {"pending", "delivered", "printed", "failed"}
Row == [status : Status, failureReason : FailureReason \union {"null"}]

ASSUME KitchenPrinterAssumption ==
    /\ Network \subseteq Jobs
    /\ AgentReasons # {}
    /\ MaxReprints \in Nat
    /\ NoRow \notin Row
    /\ NoConnection \notin Connections

VARIABLES
    row,        \* kitchen_ticket_print_jobs
    dispatched, \* the dispatches that took place
    seen,       \* the printers were reported within the staleness TTL
    paper,      \* the tickets that came out of a printer
    reprints,   \* how often each job was reprinted
    socket,     \* per connection: new, open, registered, broken or closed
    connections,\* per process: the connection its registry holds
    toAgent,    \* per connection: tickets on their way
    fromAgent,  \* per connection: answers not yet handled
    handler     \* per slot: the handler at work

agentVars == <<socket, connections, toAgent, fromAgent>>
vars == <<row, dispatched, seen, paper, reprints, agentVars, handler>>

Idle == [pc |-> "idle"]

Init ==
    /\ row = [j \in Jobs |-> NoRow]
    /\ dispatched = {}
    /\ seen = TRUE
    /\ paper = {}
    /\ reprints = [j \in Jobs |-> 0]
    /\ socket = [c \in Connections |-> "new"]
    /\ connections = [p \in {"api", "worker"} |-> NoConnection]
    /\ toAgent = [c \in Connections |-> <<>>]
    /\ fromAgent = [c \in Connections |-> {}]
    /\ handler = [h \in Handlers |-> Idle]

-----------------------------------------------------------------------------
(* KitchenTicketPrintJob *)

create == [status |-> "pending", failureReason |-> "null"]

\* Faulty variant: what reached the agent is taken for printed.
markDeliveredPrinted(r) == IF r.status = "pending" THEN [r EXCEPT !.status = "printed"] ELSE r

markDelivered(r) == IF r.status = "pending" THEN [r EXCEPT !.status = "delivered"] ELSE r

\* The reason of an earlier failure stays.
markPrinted(r) == [r EXCEPT !.status = "printed"]

markFailed(r, reason) ==
    IF r.status = "printed" THEN r ELSE [status |-> "failed", failureReason |-> reason]

retryFromFailure(r) ==
    IF r.status = "failed" THEN [status |-> "delivered", failureReason |-> "null"] ELSE r

Stored == {j \in Jobs : row[j] # NoRow}

\* Faulty variant: a delivered ticket counts as printed.
searchUnprintedPending == {j \in Stored : row[j].status = "pending"}

searchUnprinted == {j \in Stored : row[j].status \in {"pending", "delivered"}}
searchFailed == {j \in Stored : row[j].status = "failed"}

-----------------------------------------------------------------------------
(* KitchenPrinterDispatcher, in the worker process *)

Work(pc, process, j, copy) ==
    [pc |-> pc, process |-> process, job |-> j, copy |-> copy, stored |-> copy]

failStaleDispatch(j) ==
    /\ ~seen
    /\ row' = [row EXCEPT ![j] = markFailed(create, "offline")]
    /\ UNCHANGED <<paper, handler>>

\* The adapter swallows what goes wrong.
printDirectly(j) ==
    /\ seen /\ j \in Network
    /\ \/ paper' = paper \union {j}
       \/ paper' = paper
    /\ UNCHANGED <<row, handler>>

dispatchToUsbStation(h, j) ==
    /\ seen /\ j \notin Network
    /\ row' = [row EXCEPT ![j] = create]
    /\ handler' = [handler EXCEPT ![h] = Work("notify", "worker", j, create)]
    /\ UNCHANGED paper

Dispatch(h, j) ==
    /\ handler[h] = Idle /\ j \notin dispatched
    /\ dispatched' = dispatched \union {j}
    /\ failStaleDispatch(j) \/ printDirectly(j) \/ dispatchToUsbStation(h, j)
    /\ UNCHANGED <<seen, reprints, agentVars>>

-----------------------------------------------------------------------------
(* Handlers of the API process *)

\* ReprintKitchenTicket.
Reprint(h, j) ==
    /\ handler[h] = Idle /\ j \in Stored
    /\ row[j].status # "printed"
    /\ reprints[j] < MaxReprints
    /\ reprints' = [reprints EXCEPT ![j] = @ + 1]
    /\ handler' = [handler EXCEPT ![h] = Work("notify", "api", j, row[j])]
    /\ UNCHANGED <<row, dispatched, seen, paper, agentVars>>

ToldDelivered(w) ==
    [w EXCEPT !.pc = "save", !.copy = retryFromFailure(markDelivered(w.copy))]

\* notify(): nobody registers with the worker, which listens on no port.
Notify(h) ==
    LET c == connections[handler[h].process]
    IN  /\ handler[h].pc = "notify"
        /\ \/ /\ c = NoConnection
              /\ handler' = [handler EXCEPT ![h] = Idle]
              /\ UNCHANGED toAgent
           \/ /\ c # NoConnection
              /\ toAgent' = [toAgent EXCEPT ![c] =
                               IF socket[c] = "broken" THEN @ ELSE Append(@, handler[h].job)]
              /\ handler' = [handler EXCEPT ![h] = ToldDelivered(@)]
        /\ UNCHANGED <<row, dispatched, seen, paper, reprints, socket, connections, fromAgent>>

\* AcknowledgePrintJob.  Handlers overtake each other: answers come in any order.
AcknowledgePrintJob(h, c) ==
    \E m \in fromAgent[c] :
        /\ handler[h] = Idle /\ m.answer = "print-ack"
        /\ m.job \in Stored
        /\ fromAgent' = [fromAgent EXCEPT ![c] = @ \ {m}]
        /\ handler' = [handler EXCEPT ![h] = Work("save", "api", m.job, markPrinted(row[m.job]))]
        /\ UNCHANGED <<row, dispatched, seen, paper, reprints, socket, connections, toAgent>>

\* Faulty variant: the reason is taken as it comes.
ReportPrintJobFailureUnchecked(h, c) ==
    \E m \in fromAgent[c] :
        /\ handler[h] = Idle /\ m.answer = "print-nack"
        /\ m.job \in Stored
        /\ fromAgent' = [fromAgent EXCEPT ![c] = @ \ {m}]
        /\ handler' = [handler EXCEPT ![h] =
                         Work("save", "api", m.job, markFailed(row[m.job], m.reason))]
        /\ UNCHANGED <<row, dispatched, seen, paper, reprints, socket, connections, toAgent>>

\* handlePrintNack: an unknown reason is dropped.
ReportPrintJobFailure(h, c) ==
    \E m \in fromAgent[c] :
        /\ handler[h] = Idle /\ m.answer = "print-nack"
        /\ m.job \in Stored
        /\ fromAgent' = [fromAgent EXCEPT ![c] = @ \ {m}]
        /\ handler' = IF m.reason \notin FailureReason THEN handler
                      ELSE [handler EXCEPT ![h] =
                              Work("save", "api", m.job, markFailed(row[m.job], m.reason))]
        /\ UNCHANGED <<row, dispatched, seen, paper, reprints, socket, connections, toAgent>>

\* save(): SELECT, then an UPDATE if anything differs.
SelectRow(h) ==
    /\ handler[h].pc = "save"
    /\ handler' = [handler EXCEPT ![h] =
                     IF row[@.job] = @.copy THEN Idle
                     ELSE [@ EXCEPT !.pc = "update", !.stored = row[handler[h].job]]]
    /\ UNCHANGED <<row, dispatched, seen, paper, reprints, agentVars>>

Merged(current, w) ==
    [status |-> IF w.copy.status # w.stored.status THEN w.copy.status ELSE current.status,
     failureReason |-> IF w.copy.failureReason # w.stored.failureReason
                       THEN w.copy.failureReason ELSE current.failureReason]

UpdateRow(h) ==
    LET w == handler[h]
    IN  /\ w.pc = "update"
        /\ row' = [row EXCEPT ![w.job] = Merged(@, w)]
        /\ handler' = [handler EXCEPT ![h] = Idle]
        /\ UNCHANGED <<dispatched, seen, paper, reprints, agentVars>>

\* A query throws, or the process of the handler dies.
Abort(h) ==
    /\ handler[h] # Idle
    /\ handler' = [handler EXCEPT ![h] = Idle]
    /\ UNCHANGED <<row, dispatched, seen, paper, reprints, agentVars>>

-----------------------------------------------------------------------------
(* The agent and its sockets *)

\* It reconnects once it noticed that its socket is gone.
Connect(c) ==
    /\ socket[c] = "new"
    /\ \A d \in Connections : socket[d] \notin {"open", "registered"}
    /\ socket' = [socket EXCEPT ![c] = "open"]
    /\ UNCHANGED <<row, dispatched, seen, paper, reprints, connections, toAgent, fromAgent, handler>>

\* register-agent.
RegisterAgent(c) ==
    /\ socket[c] = "open"
    /\ socket' = [socket EXCEPT ![c] = "registered"]
    /\ connections' = [connections EXCEPT !["api"] = c]
    /\ UNCHANGED <<row, dispatched, seen, paper, reprints, toAgent, fromAgent, handler>>

\* What is on the wire is lost, and the server does not know yet.
Break(c) ==
    /\ socket[c] \in {"open", "registered"}
    /\ socket' = [socket EXCEPT ![c] = "broken"]
    /\ toAgent' = [toAgent EXCEPT ![c] = <<>>]
    /\ fromAgent' = [fromAgent EXCEPT ![c] = {}]
    /\ UNCHANGED <<row, dispatched, seen, paper, reprints, connections, handler>>

\* Faulty variant: whichever connection is registered goes.
unregisterCurrent(c) == [connections EXCEPT !["api"] = NoConnection]

unregister(c) == [connections EXCEPT !["api"] = IF @ = c THEN NoConnection ELSE @]

\* handleDisconnect.
HandleDisconnect(c) ==
    /\ socket[c] = "broken"
    /\ socket' = [socket EXCEPT ![c] = "closed"]
    /\ connections' = unregister(c)
    /\ UNCHANGED <<row, dispatched, seen, paper, reprints, toAgent, fromAgent, handler>>

AgentPrints(c) ==
    /\ toAgent[c] # <<>>
    /\ toAgent' = [toAgent EXCEPT ![c] = Tail(@)]
    /\ LET j == Head(toAgent[c])
       IN  \/ /\ paper' = paper \union {j}
              /\ fromAgent' = [fromAgent EXCEPT ![c] = @ \union {[answer |-> "print-ack", job |-> j]}]
           \/ /\ \E reason \in AgentReasons :
                    fromAgent' = [fromAgent EXCEPT ![c] =
                        @ \union {[answer |-> "print-nack", job |-> j, reason |-> reason]}]
              /\ UNCHANGED paper
    /\ UNCHANGED <<row, dispatched, seen, reprints, socket, connections, handler>>

\* report-devices touches lastSeenAt, on any authenticated socket.
ReportDevices(c) ==
    /\ socket[c] \in {"open", "registered"}
    /\ ~seen /\ seen' = TRUE
    /\ UNCHANGED <<row, dispatched, paper, reprints, agentVars, handler>>

BecomeStale ==
    /\ seen /\ seen' = FALSE
    /\ UNCHANGED <<row, dispatched, paper, reprints, agentVars, handler>>

Next ==
    \/ \E h \in Handlers, j \in Jobs : Dispatch(h, j) \/ Reprint(h, j)
    \/ \E h \in Handlers, c \in Connections :
          AcknowledgePrintJob(h, c) \/ ReportPrintJobFailure(h, c)
    \/ \E h \in Handlers : Notify(h) \/ SelectRow(h) \/ UpdateRow(h) \/ Abort(h)
    \/ \E c \in Connections :
          \/ Connect(c)
          \/ RegisterAgent(c)
          \/ Break(c)
          \/ HandleDisconnect(c)
          \/ AgentPrints(c)
          \/ ReportDevices(c)
    \/ BecomeStale

Spec == Init /\ [][Next]_vars

-----------------------------------------------------------------------------
Answer ==
    [answer : {"print-ack"}, job : Jobs]
    \union [answer : {"print-nack"}, job : Jobs, reason : AgentReasons]

Handler ==
    [pc : {"notify", "save", "update"}, process : {"api", "worker"}, job : Jobs,
     copy : Row, stored : Row]

TypeOK ==
    /\ row \in [Jobs -> Row \union {NoRow}]
    /\ dispatched \subseteq Jobs /\ paper \subseteq Jobs
    /\ seen \in BOOLEAN
    /\ reprints \in [Jobs -> 0..MaxReprints]
    /\ socket \in [Connections -> {"new", "open", "registered", "broken", "closed"}]
    /\ connections \in [{"api", "worker"} -> Connections \union {NoConnection}]
    /\ toAgent \in [Connections -> Seq(Jobs)]
    /\ fromAgent \in [Connections -> SUBSET Answer]
    /\ handler \in [Handlers -> {Idle} \union Handler]
    /\ \A h \in Handlers : handler[h] # Idle => handler[h].job \in Stored

\* Staff see every ticket that is not on paper: once its dispatch took place, a
\* ticket for a USB printer is in the list of unprinted or of failed jobs until it
\* is printed, whatever is lost on the way to the agent and back, and whichever
\* handlers overwrite each other (searchUnprinted: "MUST filter status IN
\* ('pending', 'delivered') - NEVER status = 'pending' alone").
NoTicketIsForgotten ==
    \A j \in dispatched \ (Network \union paper) : j \in searchUnprinted \union searchFailed

\* A job is printed only once its paper came out: neither a delivery nor a reprint
\* passes for the agent's print-ack.
PrintedMeansPaper ==
    \A j \in Stored : row[j].status = "printed" => j \in paper

\* While the agent is registered notify() finds its connection: the late
\* disconnect of an earlier socket does not remove it (unregister).
RegisteredAgentIsFound ==
    \A c \in Connections : socket[c] = "registered" => connections["api"] = c

-----------------------------------------------------------------------------
\* Stated by the code's comments, and not so.

\* "No-op when already 'printed' (terminal), guard checked BEFORE any field write
\* (non-regression invariant)": a printed job stays printed.
PrintedIsTerminal ==
    [][\A j \in Stored : row[j].status = "printed" => row'[j].status = "printed"]_vars
=============================================================================
