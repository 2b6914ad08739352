------------------------ MODULE KitchenPrinter_proofs ------------------------
(***************************************************************************)
(* Theorems about KitchenPrinter, for any number of jobs, connections and  *)
(* handlers.                                                               *)
(***************************************************************************)
EXTENDS KitchenPrinter, TLAPS

-----------------------------------------------------------------------------
(* The transitions of a job, and what save() writes *)

\* A transition of a job yields a job (KitchenTicketPrintJob).
LEMMA TransitionTypes ==
    ASSUME NEW r \in Row
    PROVE  /\ create \in Row
           /\ markDelivered(r) \in Row
           /\ markPrinted(r) \in Row
           /\ \A reason \in FailureReason : markFailed(r, reason) \in Row
           /\ retryFromFailure(r) \in Row
  BY DEF create, markDelivered, markPrinted, markFailed, retryFromFailure, Row, Status

\* Only markPrinted makes a job printed.
LEMMA OnlyAckPrints ==
    ASSUME NEW r \in Row
    PROVE  /\ create.status # "printed"
           /\ retryFromFailure(markDelivered(r)).status = "printed" => r.status = "printed"
           /\ \A reason \in FailureReason :
                 markFailed(r, reason).status = "printed" => r.status = "printed"
  BY DEF create, markDelivered, markFailed, retryFromFailure, Row, Status

\* What save() writes is a job, and printed only if the copy or the row was.
LEMMA MergedFacts ==
    ASSUME NEW r \in Row, NEW w \in Handler
    PROVE  /\ Merged(r, w) \in Row
           /\ Merged(r, w).status = "printed" =>
                 r.status = "printed" \/ w.copy.status = "printed"
  BY DEF Merged, Handler, Row, Status

LEMMA IdleFacts == Idle.pc = "idle" /\ Idle \notin Handler
  BY DEF Idle, Handler

-----------------------------------------------------------------------------
(* Types *)

\* Every step keeps the types; rows are never removed, so a handler's job stays
\* stored.
LEMMA TypeStep == TypeOK /\ [Next]_vars => TypeOK'
<1> USE KitchenPrinterAssumption
<1> SUFFICES ASSUME TypeOK, [Next]_vars PROVE TypeOK'
    OBVIOUS
<1> USE DEF TypeOK
<1>1. ASSUME NEW h \in Handlers, NEW j \in Jobs, Dispatch(h, j) PROVE TypeOK'
  <2>1. Work("notify", "worker", j, create) \in Handler
    BY DEF Work, Handler, create, Row, Status
  <2>2. create \in Row /\ markFailed(create, "offline") \in Row
    BY DEF create, markFailed, Row, Status, FailureReason
  <2>3. row' \in [Jobs -> Row \union {NoRow}] /\ Stored \subseteq Stored' /\ (row' # row => j \in Stored')
    <3>1. CASE failStaleDispatch(j)
      BY <3>1, <2>2 DEF failStaleDispatch, Stored
    <3>2. CASE printDirectly(j)
      BY <3>2 DEF printDirectly, Stored
    <3>3. CASE dispatchToUsbStation(h, j)
      BY <3>3, <2>2 DEF dispatchToUsbStation, Stored
    <3> QED BY <1>1, <3>1, <3>2, <3>3 DEF Dispatch
  <2>4. handler' \in [Handlers -> {Idle} \union Handler]
    BY <1>1, <2>1 DEF Dispatch, failStaleDispatch, printDirectly, dispatchToUsbStation
  <2>5. \A k \in Handlers : handler'[k] # Idle => handler'[k].job \in Stored'
    <3>1. CASE dispatchToUsbStation(h, j)
      <4>1. row'[j] # NoRow
        BY <3>1, <2>2 DEF dispatchToUsbStation
      <4>2. handler'[h].job = j
        BY <3>1 DEF dispatchToUsbStation, Work
      <4> QED BY <3>1, <4>1, <4>2, <2>3 DEF dispatchToUsbStation, Stored
    <3>2. CASE handler' = handler
      BY <3>2, <2>3
    <3> QED BY <1>1, <3>1, <3>2 DEF Dispatch, failStaleDispatch, printDirectly
  <2>6. dispatched' \subseteq Jobs /\ paper' \subseteq Jobs
    BY <1>1 DEF Dispatch, failStaleDispatch, printDirectly, dispatchToUsbStation
  <2> QED BY <1>1, <2>3, <2>4, <2>5, <2>6 DEF Dispatch, agentVars
<1>2. ASSUME NEW h \in Handlers, NEW j \in Jobs, Reprint(h, j) PROVE TypeOK'
  <2>1. row[j] \in Row /\ j \in Stored
    BY <1>2 DEF Reprint, Stored
  <2>2. Work("notify", "api", j, row[j]) \in Handler
    BY <2>1 DEF Work, Handler
  <2>3. handler' \in [Handlers -> {Idle} \union Handler]
    BY <1>2, <2>2 DEF Reprint
  <2>4. \A k \in Handlers : handler'[k] # Idle => handler'[k].job \in Stored'
    BY <1>2, <2>1 DEF Reprint, Work, Stored
  <2>5. reprints' \in [Jobs -> 0..MaxReprints]
    BY <1>2 DEF Reprint
  <2> QED BY <1>2, <2>3, <2>4, <2>5 DEF Reprint, agentVars
<1>3. ASSUME NEW h \in Handlers, Notify(h) PROVE TypeOK'
  <2>1. handler[h] \in Handler
    BY <1>3, IdleFacts DEF Notify
  <2>2. retryFromFailure(markDelivered(handler[h].copy)) \in Row
    BY <2>1, TransitionTypes DEF Handler
  <2> DEFINE new == ToldDelivered(handler[h])
             c == connections[handler[h].process]
  <2>3. new \in Handler /\ new.job = handler[h].job
    BY <2>1, <2>2 DEF ToldDelivered, Handler
  <2>4. \/ handler' = [handler EXCEPT ![h] = Idle] /\ UNCHANGED toAgent
        \/ /\ handler' = [handler EXCEPT ![h] = new]
           /\ toAgent' = [toAgent EXCEPT ![c] =
                            IF socket[c] = "broken" THEN @ ELSE Append(@, handler[h].job)]
    <3>1. handler[h].pc = "notify" /\ handler \in [Handlers -> {Idle} \union Handler]
      BY <1>3 DEF Notify
    <3>2. CASE c = NoConnection
      BY <1>3, <3>2 DEF Notify
    <3>3. CASE c # NoConnection
      <4>1. handler' = [handler EXCEPT ![h] = new]
        BY <1>3, <3>3 DEF Notify
      <4>2. toAgent' = [toAgent EXCEPT ![c] =
                         IF socket[c] = "broken" THEN @ ELSE Append(@, handler[h].job)]
        BY <1>3, <3>3 DEF Notify
      <4> QED BY <4>1, <4>2
    <3> QED BY <3>2, <3>3
  <2> HIDE DEF new
  <2>5. handler' \in [Handlers -> {Idle} \union Handler]
    BY <2>3, <2>4
  <2>6. \A k \in Handlers : handler'[k] # Idle => handler'[k].job \in Stored'
    <3>1. Stored' = Stored /\ handler[h].job \in Stored
      BY <1>3, IdleFacts DEF Notify, Stored
    <3> QED BY <2>3, <2>4, <3>1
  <2>7. toAgent' \in [Connections -> Seq(Jobs)]
    <3>1. handler[h].job \in Jobs
      BY <2>1 DEF Handler
    <3>2. \A d \in Connections : Append(toAgent[d], handler[h].job) \in Seq(Jobs)
      BY <3>1
    <3>3. CASE UNCHANGED toAgent
      BY <3>3
    <3>4. CASE c \in Connections /\ toAgent' = [toAgent EXCEPT ![c] =
                         IF socket[c] = "broken" THEN @ ELSE Append(@, handler[h].job)]
      BY <3>2, <3>4
    <3>5. CASE c \notin Connections /\ toAgent' = [toAgent EXCEPT ![c] =
                         IF socket[c] = "broken" THEN @ ELSE Append(@, handler[h].job)]
      BY <3>5
    <3> QED BY <2>4, <3>3, <3>4, <3>5
  <2> QED BY <1>3, <2>5, <2>6, <2>7 DEF Notify
<1>4. ASSUME NEW h \in Handlers, NEW c \in Connections, AcknowledgePrintJob(h, c) PROVE TypeOK'
  <2>1. PICK m \in fromAgent[c] :
          /\ m.job \in Stored
          /\ fromAgent' = [fromAgent EXCEPT ![c] = @ \ {m}]
          /\ handler' = [handler EXCEPT ![h] = Work("save", "api", m.job, markPrinted(row[m.job]))]
    BY <1>4 DEF AcknowledgePrintJob
  <2>2. m.job \in Jobs /\ row[m.job] \in Row
    BY <2>1 DEF Stored
  <2>3. Work("save", "api", m.job, markPrinted(row[m.job])) \in Handler
    BY <2>2, TransitionTypes DEF Work, Handler
  <2>4. handler' \in [Handlers -> {Idle} \union Handler]
    BY <2>1, <2>3
  <2>5. \A k \in Handlers : handler'[k] # Idle => handler'[k].job \in Stored'
    BY <1>4, <2>1 DEF AcknowledgePrintJob, Work, Stored
  <2>6. fromAgent' \in [Connections -> SUBSET Answer]
    BY <2>1
  <2> QED BY <1>4, <2>4, <2>5, <2>6 DEF AcknowledgePrintJob
<1>5. ASSUME NEW h \in Handlers, NEW c \in Connections, ReportPrintJobFailure(h, c) PROVE TypeOK'
  <2>1. PICK m \in fromAgent[c] :
          /\ m.job \in Stored
          /\ fromAgent' = [fromAgent EXCEPT ![c] = @ \ {m}]
          /\ handler' = IF m.reason \notin FailureReason THEN handler
                        ELSE [handler EXCEPT ![h] =
                                Work("save", "api", m.job, markFailed(row[m.job], m.reason))]
    BY <1>5 DEF ReportPrintJobFailure
  <2>2. m.job \in Jobs /\ row[m.job] \in Row
    BY <2>1 DEF Stored
  <2>3. m.reason \in FailureReason =>
          Work("save", "api", m.job, markFailed(row[m.job], m.reason)) \in Handler
    BY <2>2, TransitionTypes DEF Work, Handler
  <2>4. handler' \in [Handlers -> {Idle} \union Handler]
    BY <2>1, <2>3
  <2>5. \A k \in Handlers : handler'[k] # Idle => handler'[k].job \in Stored'
    BY <1>5, <2>1 DEF ReportPrintJobFailure, Work, Stored
  <2>6. fromAgent' \in [Connections -> SUBSET Answer]
    BY <2>1
  <2> QED BY <1>5, <2>4, <2>5, <2>6 DEF ReportPrintJobFailure
<1>6. ASSUME NEW h \in Handlers, SelectRow(h) PROVE TypeOK'
  <2>1. handler[h] \in Handler /\ row[handler[h].job] \in Row
    BY <1>6, IdleFacts DEF SelectRow, Stored, Handler
  <2>2. handler' \in [Handlers -> {Idle} \union Handler]
    BY <1>6, <2>1 DEF SelectRow, Handler
  <2>3. \A k \in Handlers : handler'[k] # Idle => handler'[k].job \in Stored'
    BY <1>6, <2>1, IdleFacts DEF SelectRow, Handler, Stored
  <2> QED BY <1>6, <2>2, <2>3 DEF SelectRow, agentVars
<1>7. ASSUME NEW h \in Handlers, UpdateRow(h) PROVE TypeOK'
  <2>1. handler[h] \in Handler /\ row[handler[h].job] \in Row /\ handler[h].job \in Jobs
    BY <1>7, IdleFacts DEF UpdateRow, Stored, Handler
  <2>2. Merged(row[handler[h].job], handler[h]) \in Row
    BY <2>1, MergedFacts
  <2>3. row' \in [Jobs -> Row \union {NoRow}] /\ Stored \subseteq Stored'
    BY <1>7, <2>1, <2>2 DEF UpdateRow, Stored
  <2>4. \A k \in Handlers : handler'[k] # Idle => handler'[k].job \in Stored'
    BY <1>7, <2>3 DEF UpdateRow
  <2>5. handler' \in [Handlers -> {Idle} \union Handler]
    BY <1>7 DEF UpdateRow
  <2> QED BY <1>7, <2>3, <2>4, <2>5 DEF UpdateRow, agentVars
<1>8. ASSUME NEW h \in Handlers, Abort(h) PROVE TypeOK'
  BY <1>8 DEF Abort, agentVars, Stored
<1>9. ASSUME NEW c \in Connections, AgentPrints(c) PROVE TypeOK'
  <2>1. Head(toAgent[c]) \in Jobs /\ Tail(toAgent[c]) \in Seq(Jobs)
    BY <1>9 DEF AgentPrints
  <2>2. fromAgent' \in [Connections -> SUBSET Answer]
    <3> DEFINE j == Head(toAgent[c])
    <3>1. [answer |-> "print-ack", job |-> j] \in Answer
      BY <2>1 DEF Answer
    <3>2. \A r \in AgentReasons : [answer |-> "print-nack", job |-> j, reason |-> r] \in Answer
      BY <2>1 DEF Answer
    <3>3. \E m \in Answer : fromAgent' = [fromAgent EXCEPT ![c] = @ \union {m}]
      BY <1>9, <3>1, <3>2 DEF AgentPrints
    <3> QED BY <3>3
  <2>3. paper' \subseteq Jobs /\ toAgent' \in [Connections -> Seq(Jobs)]
    BY <1>9, <2>1 DEF AgentPrints
  <2> QED BY <1>9, <2>2, <2>3 DEF AgentPrints, Stored
<1>10. ASSUME NEW c \in Connections, Connect(c) \/ RegisterAgent(c) \/ Break(c) PROVE TypeOK'
  <2>1. CASE Connect(c)
    BY <2>1 DEF Connect, Stored
  <2>2. CASE RegisterAgent(c)
    BY <2>2 DEF RegisterAgent, Stored
  <2>3. CASE Break(c)
    <3>1. <<>> \in Seq(Jobs) /\ {} \in SUBSET Answer
      OBVIOUS
    <3> QED BY <2>3, <3>1 DEF Break, Stored
  <2> QED BY <1>10, <2>1, <2>2, <2>3
<1>11. ASSUME NEW c \in Connections, HandleDisconnect(c) \/ ReportDevices(c) PROVE TypeOK'
  BY <1>11 DEF HandleDisconnect, ReportDevices, unregister, agentVars, Stored
<1>12. CASE BecomeStale \/ UNCHANGED vars
  BY <1>12 DEF BecomeStale, vars, agentVars, Stored
<1> QED
  BY <1>1, <1>2, <1>3, <1>4, <1>5, <1>6, <1>7, <1>8, <1>9, <1>10, <1>11, <1>12 DEF Next

LEMMA TypeInit == Init => TypeOK
  BY KitchenPrinterAssumption DEF Init, TypeOK, Idle

\* Types hold for every instance.
THEOREM TypeCorrect == Spec => []TypeOK
  BY TypeInit, TypeStep, PTL DEF Spec

-----------------------------------------------------------------------------
(* A printed job has its paper, and no ticket is forgotten *)

\* Whatever is printed - a row, a handler's copy of it, an answer on its way -
\* stems from an agent that printed.
PaperInv ==
    /\ PrintedMeansPaper
    /\ \A h \in Handlers :
          handler[h] # Idle /\ handler[h].copy.status = "printed" => handler[h].job \in paper
    /\ \A c \in Connections : \A m \in fromAgent[c] :
          m.answer = "print-ack" => m.job \in paper

LEMMA PaperInit == Init => PaperInv
  BY DEF Init, PaperInv, PrintedMeansPaper, Stored, Idle

LEMMA PaperStep == TypeOK /\ PaperInv /\ [Next]_vars => PaperInv'
<1> USE KitchenPrinterAssumption
<1> SUFFICES ASSUME TypeOK, PaperInv, [Next]_vars PROVE PaperInv'
    OBVIOUS
<1> USE DEF PaperInv, PrintedMeansPaper
<1>0. /\ \A j \in Stored : j \in Jobs /\ row[j] \in Row
      /\ \A h \in Handlers : handler[h] # Idle => handler[h] \in Handler /\ handler[h].job \in Stored
  BY DEF TypeOK, Stored
<1>1. ASSUME NEW h \in Handlers, NEW j \in Jobs, Dispatch(h, j) PROVE PaperInv'
  <2>1. create \in Row /\ create.status # "printed"
    BY DEF create, Row, Status
  <2>2. markFailed(create, "offline").status # "printed"
    BY <2>1 DEF markFailed
  <2>3. CASE failStaleDispatch(j)
    BY <1>1, <2>2, <2>3 DEF Dispatch, failStaleDispatch, agentVars, TypeOK, Stored
  <2>4. CASE printDirectly(j)
    BY <1>1, <2>4 DEF Dispatch, printDirectly, agentVars, TypeOK, Stored
  <2>5. CASE dispatchToUsbStation(h, j)
    BY <1>1, <2>1, <2>5 DEF Dispatch, dispatchToUsbStation, Work, agentVars, TypeOK, Stored
  <2> QED BY <1>1, <2>3, <2>4, <2>5 DEF Dispatch
<1>2. ASSUME NEW h \in Handlers, NEW j \in Jobs, Reprint(h, j) PROVE PaperInv'
  BY <1>2 DEF Reprint, Work, agentVars, TypeOK, Stored
<1>3. ASSUME NEW h \in Handlers, Notify(h) PROVE PaperInv'
  <2>1. handler[h] # Idle /\ handler[h] \in Handler
    BY <1>0, <1>3, IdleFacts DEF Notify
  <2>2. /\ ToldDelivered(handler[h]).job = handler[h].job
        /\ ToldDelivered(handler[h]).copy.status = "printed" => handler[h].copy.status = "printed"
    BY <2>1, OnlyAckPrints DEF ToldDelivered, Handler
  <2>3. handler'[h] = Idle \/ handler'[h] = ToldDelivered(handler[h])
    BY <1>3 DEF Notify, TypeOK
  <2>4. \A k \in Handlers \ {h} : handler'[k] = handler[k]
    BY <1>3 DEF Notify, TypeOK
  <2> QED BY <1>3, <2>1, <2>2, <2>3, <2>4 DEF Notify, Stored
<1>4. ASSUME NEW h \in Handlers, NEW c \in Connections, AcknowledgePrintJob(h, c) PROVE PaperInv'
  BY <1>4 DEF AcknowledgePrintJob, Work, TypeOK, Stored
<1>5. ASSUME NEW h \in Handlers, NEW c \in Connections, ReportPrintJobFailure(h, c) PROVE PaperInv'
  <2>1. PICK m \in fromAgent[c] :
          /\ m.job \in Stored
          /\ fromAgent' = [fromAgent EXCEPT ![c] = @ \ {m}]
          /\ handler' = IF m.reason \notin FailureReason THEN handler
                        ELSE [handler EXCEPT ![h] =
                                Work("save", "api", m.job, markFailed(row[m.job], m.reason))]
    BY <1>5 DEF ReportPrintJobFailure
  <2>2. m.reason \in FailureReason =>
          (markFailed(row[m.job], m.reason).status = "printed" => row[m.job].status = "printed")
    BY <1>0, <2>1, OnlyAckPrints
  <2> QED BY <1>5, <2>1, <2>2 DEF ReportPrintJobFailure, Work, TypeOK, Stored
<1>6. ASSUME NEW h \in Handlers, SelectRow(h) PROVE PaperInv'
  <2>1. handler[h] # Idle /\ handler[h] \in Handler
    BY <1>0, <1>6, IdleFacts DEF SelectRow
  <2>2. handler'[h] = Idle \/ (handler'[h].copy = handler[h].copy /\ handler'[h].job = handler[h].job)
    BY <1>6, <2>1 DEF SelectRow, TypeOK, Handler
  <2>3. \A k \in Handlers \ {h} : handler'[k] = handler[k]
    BY <1>6 DEF SelectRow, TypeOK
  <2> QED BY <1>6, <2>1, <2>2, <2>3 DEF SelectRow, agentVars, Stored
<1>7. ASSUME NEW h \in Handlers, UpdateRow(h) PROVE PaperInv'
  <2> DEFINE w == handler[h]
  <2>1. w # Idle /\ w \in Handler /\ w.job \in Stored
    BY <1>0, <1>7, IdleFacts DEF UpdateRow
  <2>2. Merged(row[w.job], w).status = "printed" => w.job \in paper
    BY <1>0, <2>1, MergedFacts
  <2>3. \A j \in Stored' : j \in Stored /\ (j # w.job => row'[j] = row[j])
    BY <1>7, <2>1 DEF UpdateRow, Stored, TypeOK
  <2>4. row'[w.job] = Merged(row[w.job], w)
    BY <1>7, <2>1 DEF UpdateRow, Stored, TypeOK
  <2> QED BY <1>7, <2>2, <2>3, <2>4 DEF UpdateRow, agentVars, TypeOK
<1>8. ASSUME NEW h \in Handlers, Abort(h) PROVE PaperInv'
  BY <1>8 DEF Abort, agentVars, TypeOK, Stored
<1>9. ASSUME NEW c \in Connections, AgentPrints(c) PROVE PaperInv'
  <2>1. row' = row /\ handler' = handler /\ toAgent \in [Connections -> Seq(Jobs)]
    BY <1>9 DEF AgentPrints, TypeOK
  <2>2. paper \subseteq paper'
    BY <1>9 DEF AgentPrints
  <2>3. PICK m :
          /\ fromAgent' = [fromAgent EXCEPT ![c] = @ \union {m}]
          /\ m.answer = "print-ack" => m.job \in paper'
    <3> DEFINE j == Head(toAgent[c])
               ack == [answer |-> "print-ack", job |-> j]
    <3>1. CASE /\ paper' = paper \union {j}
               /\ fromAgent' = [fromAgent EXCEPT ![c] = @ \union {ack}]
      <4>1. ack.answer = "print-ack" => ack.job \in paper'
        BY <3>1
      <4> HIDE DEF ack
      <4> QED BY <3>1, <4>1
    <3>2. CASE \E reason \in AgentReasons :
                 fromAgent' = [fromAgent EXCEPT ![c] =
                   @ \union {[answer |-> "print-nack", job |-> j, reason |-> reason]}]
      <4>1. PICK reason \in AgentReasons :
              fromAgent' = [fromAgent EXCEPT ![c] =
                @ \union {[answer |-> "print-nack", job |-> j, reason |-> reason]}]
        BY <3>2
      <4> DEFINE n == [answer |-> "print-nack", job |-> j, reason |-> reason]
      <4>2. n.answer # "print-ack"
        OBVIOUS
      <4>3. fromAgent' = [fromAgent EXCEPT ![c] = @ \union {n}]
        BY <4>1
      <4> HIDE DEF n
      <4> QED BY <4>2, <4>3
    <3> QED BY <1>9, <3>1, <3>2 DEF AgentPrints
  <2>4. \A d \in Connections : \A n \in fromAgent'[d] : n \in fromAgent[d] \/ n = m
    BY <2>3 DEF TypeOK
  <2>5. Stored' = Stored
    BY <2>1 DEF Stored
  <2> QED BY <2>1, <2>2, <2>3, <2>4, <2>5
<1>10. ASSUME NEW c \in Connections,
              \/ Connect(c) \/ RegisterAgent(c) \/ Break(c)
              \/ HandleDisconnect(c) \/ ReportDevices(c)
       PROVE  PaperInv'
  BY <1>10 DEF Connect, RegisterAgent, Break, HandleDisconnect, ReportDevices, agentVars,
               TypeOK, Stored
<1>11. CASE BecomeStale \/ UNCHANGED vars
  BY <1>11 DEF BecomeStale, vars, agentVars, Stored
<1> QED
  BY <1>1, <1>2, <1>3, <1>4, <1>5, <1>6, <1>7, <1>8, <1>9, <1>10, <1>11 DEF Next

\* PrintedMeansPaper holds for every instance: no interleaving of reprints,
\* answers and saves makes a job printed whose paper never came out.
THEOREM PrintedAreOnPaper == Spec => []PrintedMeansPaper
<1>1. TypeOK /\ PaperInv /\ [Next]_vars => (TypeOK /\ PaperInv)'
  BY TypeStep, PaperStep
<1>2. PaperInv => PrintedMeansPaper
  BY DEF PaperInv
<1> QED BY <1>1, <1>2, TypeInit, PaperInit, PTL DEF Spec

\* A dispatched ticket of a USB printer has its row.
DispatchedAreStored == dispatched \ Network \subseteq Stored

LEMMA DispatchedStep == TypeOK /\ DispatchedAreStored /\ [Next]_vars => DispatchedAreStored'
<1> USE KitchenPrinterAssumption
<1> SUFFICES ASSUME TypeOK, DispatchedAreStored, [Next]_vars PROVE DispatchedAreStored'
    OBVIOUS
<1>1. CASE UNCHANGED <<row, dispatched>>
  BY <1>1 DEF DispatchedAreStored, Stored
<1>2. ASSUME NEW h \in Handlers, NEW j \in Jobs, Dispatch(h, j) PROVE DispatchedAreStored'
  <2>1. create \in Row /\ markFailed(create, "offline") \in Row
    BY DEF create, markFailed, Row, Status, FailureReason
  <2>2. Stored \subseteq Stored' /\ (j \in Stored' \/ j \in Network)
    <3>1. CASE failStaleDispatch(j)
      BY <2>1, <3>1 DEF failStaleDispatch, TypeOK, Stored
    <3>2. CASE printDirectly(j)
      BY <3>2 DEF printDirectly, Stored
    <3>3. CASE dispatchToUsbStation(h, j)
      BY <2>1, <3>3 DEF dispatchToUsbStation, TypeOK, Stored
    <3> QED BY <1>2, <3>1, <3>2, <3>3 DEF Dispatch
  <2> QED BY <1>2, <2>2 DEF Dispatch, DispatchedAreStored
<1>3. ASSUME NEW h \in Handlers, UpdateRow(h) PROVE DispatchedAreStored'
  <2>1. handler[h] \in Handler /\ handler[h].job \in Jobs /\ row[handler[h].job] \in Row
    BY <1>3, IdleFacts DEF UpdateRow, TypeOK, Stored
  <2>2. Merged(row[handler[h].job], handler[h]) \in Row
    BY <2>1, MergedFacts
  <2> QED BY <1>3, <2>1, <2>2 DEF UpdateRow, DispatchedAreStored, TypeOK, Stored
<1> QED
  BY <1>1, <1>2, <1>3 DEF Next, Reprint, Notify, AcknowledgePrintJob, ReportPrintJobFailure,
     SelectRow, Abort, Connect, RegisterAgent, Break, HandleDisconnect, AgentPrints,
     ReportDevices, BecomeStale, vars

\* NoTicketIsForgotten holds for every instance: a ticket of a USB printer is on
\* paper or in one of the two lists staff see.
THEOREM TicketsAreListed == Spec => []NoTicketIsForgotten
<1>1. Init => DispatchedAreStored
  BY DEF Init, DispatchedAreStored
<1>2. TypeOK /\ PaperInv /\ DispatchedAreStored => NoTicketIsForgotten
  BY DEF TypeOK, PaperInv, PrintedMeansPaper, DispatchedAreStored, NoTicketIsForgotten,
         searchUnprinted, searchFailed, Stored, Row, Status
<1>3. (TypeOK /\ PaperInv /\ DispatchedAreStored) /\ [Next]_vars
         => (TypeOK /\ PaperInv /\ DispatchedAreStored)'
  BY TypeStep, PaperStep, DispatchedStep
<1> QED BY <1>1, <1>2, <1>3, TypeInit, PaperInit, PTL DEF Spec

-----------------------------------------------------------------------------
(* Printed for good, if only one handler at a time works on a job *)

\* What a lock on the job's row, taken when it is read, would bring about.
OneHandlerPerJob ==
    \A h, k \in Handlers :
        handler[h] # Idle /\ handler[k] # Idle /\ handler[h].job = handler[k].job => h = k

\* Whoever works on a printed job has a printed copy.
CopiesFollowPrinted ==
    \A h \in Handlers :
        handler[h] # Idle /\ row[handler[h].job].status = "printed" =>
            handler[h].copy.status = "printed"

\* No transition of a printed job leaves "printed" (the guards of the aggregate).
LEMMA PrintedIsKept ==
    ASSUME NEW r \in Row, r.status = "printed"
    PROVE  /\ markPrinted(r).status = "printed"
           /\ retryFromFailure(markDelivered(r)).status = "printed"
           /\ \A reason \in FailureReason : markFailed(r, reason).status = "printed"
  BY DEF markPrinted, markDelivered, markFailed, retryFromFailure, Row

LEMMA StoredStep ==
    TypeOK /\ Stored \subseteq dispatched /\ [Next]_vars => (Stored \subseteq dispatched)'
<1> SUFFICES ASSUME TypeOK, Stored \subseteq dispatched, [Next]_vars
             PROVE (Stored \subseteq dispatched)'
    OBVIOUS
<1>1. CASE UNCHANGED <<row, dispatched>>
  BY <1>1 DEF Stored
<1>2. ASSUME NEW h \in Handlers, NEW j \in Jobs, Dispatch(h, j)
      PROVE  (Stored \subseteq dispatched)'
  <2>1. \A i \in Jobs : i # j => row'[i] = row[i]
    BY <1>2 DEF Dispatch, failStaleDispatch, printDirectly, dispatchToUsbStation, TypeOK
  <2> QED BY <1>2, <2>1 DEF Dispatch, Stored
<1>3. ASSUME NEW h \in Handlers, UpdateRow(h)
      PROVE  (Stored \subseteq dispatched)'
  <2>1. handler[h].job \in Stored
    BY <1>3, IdleFacts DEF UpdateRow, TypeOK
  <2>2. \A i \in Jobs : i # handler[h].job => row'[i] = row[i]
    BY <1>3 DEF UpdateRow, TypeOK
  <2> QED BY <1>3, <2>1, <2>2 DEF UpdateRow, Stored
<1> QED
  BY <1>1, <1>2, <1>3 DEF Next, Reprint, Notify, AcknowledgePrintJob, ReportPrintJobFailure,
     SelectRow, Abort, Connect, RegisterAgent, Break, HandleDisconnect, AgentPrints,
     ReportDevices, BecomeStale, vars

\* The step that matters is the second half of save(): it writes the row of a job that
\* nobody else works on.
LEMMA CopiesStep ==
    ASSUME TypeOK, Stored \subseteq dispatched, CopiesFollowPrinted, OneHandlerPerJob, Next
    PROVE  /\ CopiesFollowPrinted'
           /\ \A j \in Stored : row[j].status = "printed" => row'[j].status = "printed"
<1> DEFINE Goal == /\ CopiesFollowPrinted'
                   /\ \A j \in Stored : row[j].status = "printed" => row'[j].status = "printed"
<1> USE DEF CopiesFollowPrinted
<1>0. /\ \A j \in Stored : j \in Jobs /\ row[j] \in Row
      /\ \A h \in Handlers : handler[h] # Idle => handler[h] \in Handler /\ handler[h].job \in Stored
      /\ handler \in [Handlers -> {Idle} \union Handler]
  BY DEF TypeOK, Stored
<1>1. ASSUME NEW h \in Handlers, NEW j \in Jobs, Dispatch(h, j) PROVE Goal
  <2>1. j \notin Stored
    BY <1>1 DEF Dispatch
  <2>2. \A i \in Jobs : i # j => row'[i] = row[i]
    BY <1>1 DEF Dispatch, failStaleDispatch, printDirectly, dispatchToUsbStation, TypeOK
  <2>3. \A k \in Handlers : handler'[k] # Idle =>
           \/ handler'[k] = handler[k] /\ handler[k] # Idle
           \/ handler'[k].job = j /\ row'[j].status # "printed"
    <3>1. CASE handler' = handler
      BY <3>1
    <3>2. CASE dispatchToUsbStation(h, j)
      <4>1. /\ handler' = [handler EXCEPT ![h] = Work("notify", "worker", j, create)]
            /\ row'[j] = create
        BY <3>2 DEF dispatchToUsbStation, TypeOK
      <4>2. Work("notify", "worker", j, create).job = j /\ create.status # "printed"
        BY DEF Work, create
      <4> QED BY <1>0, <4>1, <4>2
    <3> QED BY <1>1, <3>1, <3>2 DEF Dispatch, failStaleDispatch, printDirectly
  <2> QED BY <1>0, <2>1, <2>2, <2>3
<1>2. ASSUME NEW h \in Handlers, NEW w,
             handler' = [handler EXCEPT ![h] = w], UNCHANGED row,
             w # Idle /\ row[w.job].status = "printed" => w.copy.status = "printed"
      PROVE  Goal
  BY <1>0, <1>2
<1>3. ASSUME NEW h \in Handlers, NEW j \in Jobs, Reprint(h, j) PROVE Goal
  <2>1. Work("notify", "api", j, row[j]).job = j /\ row[j].status # "printed"
    BY <1>3 DEF Reprint, Work
  <2> QED BY <1>2, <1>3, <2>1 DEF Reprint
<1>4. ASSUME NEW h \in Handlers, Notify(h) PROVE Goal
  <2>1. handler[h] # Idle /\ handler[h] \in Handler /\ UNCHANGED row
    BY <1>0, <1>4, IdleFacts DEF Notify
  <2>2. /\ ToldDelivered(handler[h]).job = handler[h].job
        /\ handler[h].copy.status = "printed" => ToldDelivered(handler[h]).copy.status = "printed"
    BY <2>1, PrintedIsKept DEF ToldDelivered, Handler
  <2>3. \/ handler' = [handler EXCEPT ![h] = Idle]
        \/ handler' = [handler EXCEPT ![h] = ToldDelivered(handler[h])]
    BY <1>4 DEF Notify
  <2> QED BY <1>2, <2>1, <2>2, <2>3
<1>5. ASSUME NEW h \in Handlers, NEW c \in Connections, AcknowledgePrintJob(h, c) PROVE Goal
  <2>1. PICK j \in Stored :
          handler' = [handler EXCEPT ![h] = Work("save", "api", j, markPrinted(row[j]))]
    BY <1>5 DEF AcknowledgePrintJob
  <2>2. /\ Work("save", "api", j, markPrinted(row[j])).job = j
        /\ Work("save", "api", j, markPrinted(row[j])).copy = markPrinted(row[j])
    BY DEF Work
  <2>3. row[j].status = "printed" => markPrinted(row[j]).status = "printed"
    BY <1>0, PrintedIsKept
  <2> QED BY <1>2, <1>5, <2>1, <2>2, <2>3 DEF AcknowledgePrintJob
<1>6. ASSUME NEW h \in Handlers, NEW c \in Connections, ReportPrintJobFailure(h, c) PROVE Goal
  <2>1. \/ UNCHANGED handler
        \/ \E j \in Stored, reason \in FailureReason :
              handler' = [handler EXCEPT ![h] = Work("save", "api", j, markFailed(row[j], reason))]
    BY <1>6 DEF ReportPrintJobFailure
  <2>2. CASE UNCHANGED handler
    BY <1>6, <2>2 DEF ReportPrintJobFailure
  <2>3. ASSUME NEW j \in Stored, NEW reason \in FailureReason,
               handler' = [handler EXCEPT ![h] = Work("save", "api", j, markFailed(row[j], reason))]
        PROVE  Goal
    <3>1. /\ Work("save", "api", j, markFailed(row[j], reason)).job = j
          /\ Work("save", "api", j, markFailed(row[j], reason)).copy = markFailed(row[j], reason)
      BY DEF Work
    <3>2. row[j].status = "printed" => markFailed(row[j], reason).status = "printed"
      BY <1>0, PrintedIsKept
    <3> QED BY <1>2, <1>6, <2>3, <3>1, <3>2 DEF ReportPrintJobFailure
  <2> QED BY <2>1, <2>2, <2>3
<1>7. ASSUME NEW h \in Handlers, SelectRow(h) PROVE Goal
  <2>1. handler[h] # Idle /\ handler[h] \in Handler /\ UNCHANGED row
    BY <1>0, <1>7, IdleFacts DEF SelectRow
  <2>2. PICK w : /\ handler' = [handler EXCEPT ![h] = w]
                 /\ w = Idle \/ (w.job = handler[h].job /\ w.copy = handler[h].copy)
    <3>1. handler' = [handler EXCEPT ![h] =
                        IF row[handler[h].job] = handler[h].copy THEN Idle
                        ELSE [handler[h] EXCEPT !.pc = "update", !.stored = row[handler[h].job]]]
      BY <1>7 DEF SelectRow
    <3>2. [handler[h] EXCEPT !.pc = "update", !.stored = row[handler[h].job]].job = handler[h].job
      BY <2>1 DEF Handler
    <3>3. [handler[h] EXCEPT !.pc = "update", !.stored = row[handler[h].job]].copy = handler[h].copy
      BY <2>1 DEF Handler
    <3> QED BY <3>1, <3>2, <3>3
  <2> QED BY <1>2, <2>1, <2>2
<1>8. ASSUME NEW h \in Handlers, UpdateRow(h) PROVE Goal
  <2> DEFINE w == handler[h]
  <2>1. w # Idle /\ w \in Handler /\ w.job \in Stored /\ w.job \in Jobs
    BY <1>0, <1>8, IdleFacts DEF UpdateRow
  <2>2. /\ row' = [row EXCEPT ![w.job] = Merged(row[w.job], w)]
        /\ handler' = [handler EXCEPT ![h] = Idle]
    BY <1>8 DEF UpdateRow
  <2>3. row[w.job].status = "printed" => Merged(row[w.job], w).status = "printed"
    <3>1. row[w.job].status = "printed" => w.copy.status = "printed"
      BY <2>1
    <3> QED BY <3>1 DEF Merged
  <2>4. \A k \in Handlers : handler'[k] # Idle =>
           handler'[k] = handler[k] /\ handler[k] # Idle /\ handler[k].job # w.job
    BY <1>0, <2>1, <2>2 DEF OneHandlerPerJob
  <2>5. \A j \in Jobs : j # w.job => row'[j] = row[j]
    BY <2>2
  <2>6. row'[w.job] = Merged(row[w.job], w)
    BY <2>1, <2>2 DEF TypeOK
  <2> HIDE DEF w
  <2> QED BY <1>0, <2>1, <2>3, <2>4, <2>5, <2>6
<1>9. ASSUME NEW h \in Handlers, Abort(h) PROVE Goal
  BY <1>2, <1>9 DEF Abort
<1>10. CASE UNCHANGED <<row, handler>>
  BY <1>10
<1> QED
  BY <1>1, <1>3, <1>4, <1>5, <1>6, <1>7, <1>8, <1>9, <1>10
  DEF Next, Connect, RegisterAgent, Break, HandleDisconnect, AgentPrints, ReportDevices, BecomeStale

\* "Printed" would be terminal, as the code's comment says, if one handler at a time
\* worked on a job: what undoes it is only that save() overwrites what another handler
\* wrote after the copy was read.
THEOREM PrintedIsTerminalForLoneHandlers ==
    Spec /\ []OneHandlerPerJob => PrintedIsTerminal
<1> DEFINE Inv == TypeOK /\ Stored \subseteq dispatched /\ CopiesFollowPrinted
           Kept == \A j \in Stored : row[j].status = "printed" => row'[j].status = "printed"
<1>1. Init => Inv
  BY TypeInit DEF Init, Stored, CopiesFollowPrinted
<1>2. Inv /\ OneHandlerPerJob /\ [Next]_vars => Inv'
  <2>1. CASE Next
    BY <2>1, TypeStep, StoredStep, CopiesStep
  <2>2. CASE UNCHANGED vars
    BY <2>2, TypeStep, StoredStep DEF vars, CopiesFollowPrinted
  <2> QED BY <2>1, <2>2
<1>3. Inv /\ OneHandlerPerJob /\ [Next]_vars => [Kept]_vars
  BY CopiesStep
<1> HIDE DEF Inv
<1> QED BY <1>1, <1>2, <1>3, PTL DEF Spec, PrintedIsTerminal

-----------------------------------------------------------------------------
(* The registry *)

\* The agent has one socket at a time that it believes in.
RegistryInv ==
    /\ RegisteredAgentIsFound
    /\ \A c, d \in Connections :
          socket[c] \in {"open", "registered"} /\ socket[d] \in {"open", "registered"} => c = d

LEMMA RegistryStep == TypeOK /\ RegistryInv /\ [Next]_vars => RegistryInv'
<1> SUFFICES ASSUME TypeOK, RegistryInv, [Next]_vars PROVE RegistryInv'
    OBVIOUS
<1> USE DEF RegistryInv, RegisteredAgentIsFound
<1>1. CASE UNCHANGED <<socket, connections>>
  BY <1>1
<1>2. ASSUME NEW c \in Connections, Connect(c) PROVE RegistryInv'
  BY <1>2 DEF Connect, TypeOK
<1>3. ASSUME NEW c \in Connections, RegisterAgent(c) PROVE RegistryInv'
  BY <1>3 DEF RegisterAgent, TypeOK
<1>4. ASSUME NEW c \in Connections, Break(c) PROVE RegistryInv'
  BY <1>4 DEF Break, TypeOK
<1>5. ASSUME NEW c \in Connections, HandleDisconnect(c) PROVE RegistryInv'
  BY <1>5 DEF HandleDisconnect, unregister, TypeOK
<1> QED
  BY <1>1, <1>2, <1>3, <1>4, <1>5 DEF Next, Dispatch, Reprint, Notify, AcknowledgePrintJob,
     ReportPrintJobFailure, SelectRow, UpdateRow, Abort, AgentPrints, ReportDevices,
     BecomeStale, agentVars, vars

\* RegisteredAgentIsFound holds for every instance: however late the disconnects
\* of earlier sockets come, notify() finds a registered agent.
THEOREM RegisteredAgentsAreFound == Spec => []RegisteredAgentIsFound
<1>1. Init => RegistryInv
  BY DEF Init, RegistryInv, RegisteredAgentIsFound
<1>2. (TypeOK /\ RegistryInv) /\ [Next]_vars => (TypeOK /\ RegistryInv)'
  BY TypeStep, RegistryStep
<1>3. RegistryInv => RegisteredAgentIsFound
  BY DEF RegistryInv
<1> QED BY <1>1, <1>2, <1>3, TypeInit, PTL DEF Spec
=============================================================================
