---------------------------- MODULE AgentPairing ----------------------------
(***************************************************************************)
(* How the print agent comes by its key, keeps it and loses it.            *)
(*                                                                         *)
(* The agent asks for a pairing code and polls with it; an administrator   *)
(* redeems the code, which issues a credential and leaves its key on the   *)
(* code's row for the agent's next poll.  A key that comes close to its    *)
(* expiry is rotated when a message of the agent arrives; the old one      *)
(* works for a grace period.  Unpairing revokes the active credential.     *)
(*                                                                         *)
(* Redeeming is one READ COMMITTED transaction; polls, rotations and       *)
(* unpairings commit statement by statement.  All of them overlap.         *)
(***************************************************************************)
EXTENDS Naturals, FiniteSets

CONSTANTS
    Codes,
    Credentials,        \* a key is known by its credential
    Handlers,           \* bound: requests and messages handled at the same time
    Sockets,            \* bound: of the agent, one after the other
    None, NoRow,
    PairingCodeTTL, PendingSecretTTL, ActiveTTL, RotationLead, GracePeriod,
    MaxInvalidAttempts, \* MAX_CONSECUTIVE_INVALID_ATTEMPTS
    MaxTime,            \* bound: units of time
    MaxFaults           \* bound: lost messages and aborted handlers

Time == 0..MaxTime
Deadline == 0..(MaxTime + PairingCodeTTL + ActiveTTL + GracePeriod)

CodeRow ==
    [status : {"issued", "consumed"}, expiresAt : Deadline, delivered : BOOLEAN,
     pendingSecret : Credentials \union {None}, pendingSecretExpiresAt : Deadline]
CredentialRow ==
    [status : {"active", "superseded", "revoked"}, activeExpiresAt : Deadline,
     gracePeriodEndsAt : Deadline]

ASSUME AgentPairingAssumption ==
    /\ {PairingCodeTTL, PendingSecretTTL, ActiveTTL, RotationLead, GracePeriod,
         MaxInvalidAttempts} \subseteq Nat \ {0}
    /\ PendingSecretTTL <= PairingCodeTTL /\ RotationLead <= ActiveTTL
    /\ {MaxTime, MaxFaults} \subseteq Nat /\ IsFiniteSet(Handlers)
    /\ None \notin Credentials \union Codes \union Sockets
    /\ NoRow \notin CodeRow \union CredentialRow

VARIABLES
    now,
    code,           \* pairing_codes
    credential,     \* agent_credentials
    attempts,       \* invalidAttemptsByEstablishment
    handler,        \* per slot: the handler at work
    connected,      \* the authenticated sockets, as the server knows them
    socket,         \* the one that the agent opened last and reads
    key,            \* the key the agent holds
    handedOut,      \* history: how often a poll answered with the key
    redemptions,    \* history: how often the code was redeemed
    stranded,       \* history: keys whose successor did not go to their holder
    faults

tables == <<code, credential>>
history == <<handedOut, redemptions, stranded>>
vars == <<now, tables, attempts, handler, connected, socket, key, history, faults>>

Idle == [pc |-> "idle"]

Init ==
    /\ now = 0
    /\ code = [c \in Codes |-> NoRow]
    /\ credential = [k \in Credentials |-> NoRow]
    /\ attempts = 0
    /\ handler = [h \in Handlers |-> Idle]
    /\ connected = {}
    /\ socket = None
    /\ key = None
    /\ handedOut = [k \in Credentials |-> 0]
    /\ redemptions = [c \in Codes |-> 0]
    /\ stranded = {}
    /\ faults = 0

-----------------------------------------------------------------------------
(* AgentCredential and PairingCode *)

issue(at) == [status |-> "active", activeExpiresAt |-> at + ActiveTTL, gracePeriodEndsAt |-> 0]

\* Faulty variant: no grace period.
supersedeAtOnce(r, at) == [r EXCEPT !.status = "superseded", !.gracePeriodEndsAt = at]

supersede(r, at) == [r EXCEPT !.status = "superseded", !.gracePeriodEndsAt = at + GracePeriod]

revoke(r) == [r EXCEPT !.status = "revoked", !.gracePeriodEndsAt = 0]

needsRotation(r) == r.status = "active" /\ now + RotationLead >= r.activeExpiresAt

\* PairingCode.issue, consume and attachPendingSecret.
NewCode(at) ==
    [status |-> "issued", expiresAt |-> at + PairingCodeTTL, delivered |-> FALSE,
     pendingSecret |-> None, pendingSecretExpiresAt |-> 0]

Sooner(s, t) == IF s < t THEN s ELSE t

Consumed(r, k, at) ==
    [r EXCEPT !.status = "consumed", !.pendingSecret = k,
              !.pendingSecretExpiresAt = Sooner(at + PendingSecretTTL, r.expiresAt)]

Stored == {k \in Credentials : credential[k] # NoRow}
Active == {k \in Stored : credential[k].status = "active"}

\* findAllAuthenticatableCandidates: activeExpiresAt is not consulted.
Authenticates(k) ==
    /\ k \in Stored
    /\ \/ credential[k].status = "active"
       \/ credential[k].status = "superseded" /\ now < credential[k].gracePeriodEndsAt

isExpired(c) == now >= code[c].expiresAt

\* findActiveByEstablishment: whichever row the database returns first.
FindsActive(k) == k \in Active \/ (Active = {} /\ k = None)

-----------------------------------------------------------------------------
(* Pairing: start, redeem, poll *)

Work(pc) ==
    [pc |-> pc, at |-> now, code |-> None, socket |-> None, old |-> None, new |-> None,
     expiresAt |-> 0]

Polling == {"capture", "wipe", "answer"}

IssuePairingCode(c) ==
    /\ code[c] = NoRow
    /\ code' = [code EXCEPT ![c] = NewCode(now)]
    /\ UNCHANGED <<now, credential, attempts, handler, connected, socket, key, history, faults>>

\* Faulty variant: the attempts are counted and nothing else.
RedeemUnthrottled(h, c) ==
    /\ handler[h] = Idle
    /\ handler' = [handler EXCEPT ![h] = [Work("findByCode") EXCEPT !.code = c]]
    /\ UNCHANGED <<now, tables, attempts, connected, socket, key, history, faults>>

\* AgentPairingController.redeem
Redeem(h, c) ==
    /\ handler[h] = Idle
    /\ attempts < MaxInvalidAttempts
    /\ handler' = [handler EXCEPT ![h] = [Work("findByCode") EXCEPT !.code = c]]
    /\ UNCHANGED <<now, tables, attempts, connected, socket, key, history, faults>>

\* RedeemPairingCode checks the code, which nothing locks; the controller
\* counts what it refuses.
FindByCode(h) ==
    LET c == handler[h].code
    IN  /\ handler[h].pc = "findByCode"
        /\ IF code[c] # NoRow /\ code[c].status = "issued" /\ ~isExpired(c)
           THEN /\ handler' = [handler EXCEPT ![h].pc = "findActive"]
                /\ UNCHANGED attempts
           ELSE /\ handler' = [handler EXCEPT ![h] = Idle]
                /\ attempts' = attempts + 1
        /\ UNCHANGED <<now, tables, connected, socket, key, history, faults>>

\* IssueAgentCredential's first statement, of a redemption or of a rotation.
FindActive(h) ==
    /\ handler[h].pc = "findActive"
    /\ Stored # Credentials
    /\ \E k \in Credentials \union {None} :
          /\ FindsActive(k)
          /\ handler' = [handler EXCEPT ![h].old = k,
                             ![h].pc = IF handler[h].code # None THEN "commit"
                                       ELSE IF k = None THEN "insert" ELSE "supersede"]
    /\ UNCHANGED <<now, tables, attempts, connected, socket, key, history, faults>>

\* The transaction's writes.  Whether save() resets deliveredAt depends on
\* whether its SELECT saw the wipe of a poll in between.
CommitRedemption(h) ==
    LET w == handler[h]
        k == CHOOSE k \in Credentials : k \notin Stored
    IN  /\ w.pc = "commit"
        /\ Stored # Credentials
        /\ credential' = [j \in Credentials |->
              IF j = k THEN issue(w.at)
              ELSE IF j = w.old THEN supersede(credential[j], w.at) ELSE credential[j]]
        /\ \E delivered \in {FALSE, code[w.code].delivered} :
              code' = [code EXCEPT ![w.code] =
                         [Consumed(@, k, w.at) EXCEPT !.delivered = delivered]]
        /\ attempts' = 0
        /\ handler' = [handler EXCEPT ![h] = Idle]
        /\ redemptions' = [redemptions EXCEPT ![w.code] = @ + 1]
        /\ stranded' = stranded \union ({w.old} \ {None})
        /\ UNCHANGED <<now, connected, socket, key, handedOut, faults>>

\* PollPairingCode, with the code's own token; other answers change nothing.
\* An agent polls for a key before it connects with one.
Poll(h, c) ==
    /\ handler[h] = Idle /\ socket = None
    /\ code[c] # NoRow
    /\ code[c].status = "consumed" /\ ~code[c].delivered
    /\ handler' = [handler EXCEPT ![h] = [Work("capture") EXCEPT !.code = c]]
    /\ UNCHANGED <<now, tables, attempts, connected, socket, key, history, faults>>

\* compareAndWipePendingSecret: the SELECT.
CaptureSecret(h) ==
    LET r == code[handler[h].code]
    IN  /\ handler[h].pc = "capture"
        /\ handler' = [handler EXCEPT ![h] =
              IF r.pendingSecret = None THEN Idle
              ELSE [@ EXCEPT !.pc = "wipe", !.new = r.pendingSecret,
                             !.expiresAt = r.pendingSecretExpiresAt]]
        /\ UNCHANGED <<now, tables, attempts, connected, socket, key, history, faults>>

\* Faulty variant: without "pending_secret IS NOT NULL".
WipeSecretAnyway(h) ==
    LET w == handler[h]
        r == code[w.code]
    IN  /\ w.pc = "wipe"
        /\ IF r.pendingSecretExpiresAt > w.at
           THEN /\ code' = [code EXCEPT ![w.code].pendingSecret = None, ![w.code].delivered = TRUE]
                /\ handler' = [handler EXCEPT ![h].pc = "answer"]
           ELSE /\ handler' = [handler EXCEPT ![h] = Idle]
                /\ UNCHANGED code
        /\ UNCHANGED <<now, credential, attempts, connected, socket, key, history, faults>>

\* ... and the conditional UPDATE.
WipeSecret(h) ==
    LET w == handler[h]
        r == code[w.code]
    IN  /\ w.pc = "wipe"
        /\ IF r.pendingSecret # None /\ r.pendingSecretExpiresAt > w.at
           THEN /\ code' = [code EXCEPT ![w.code].pendingSecret = None, ![w.code].delivered = TRUE]
                /\ handler' = [handler EXCEPT ![h].pc = "answer"]
           ELSE /\ handler' = [handler EXCEPT ![h] = Idle]
                /\ UNCHANGED code
        /\ UNCHANGED <<now, credential, attempts, connected, socket, key, history, faults>>

\* retrieveAndWipeSecret, on the row as captured, and the answer.
AnswerPoll(h) ==
    LET w == handler[h]
    IN  /\ w.pc = "answer"
        /\ IF w.at < w.expiresAt
           THEN /\ handedOut' = [handedOut EXCEPT ![w.new] = @ + 1]
                /\ key' = w.new
           ELSE UNCHANGED <<handedOut, key>>
        /\ handler' = [handler EXCEPT ![h] = Idle]
        /\ UNCHANGED <<now, tables, attempts, connected, socket, redemptions, stranded, faults>>

-----------------------------------------------------------------------------
(* The agent's sockets, and rotation *)

\* The key is verified in the handshake and not again.
Connect(s) ==
    /\ s \notin connected
    /\ \A h \in Handlers : handler[h].pc \notin Polling
    /\ \A h \in Handlers : handler[h] # Idle => handler[h].socket # s
    /\ Authenticates(key)
    /\ connected' = connected \union {s}
    /\ socket' = s
    /\ UNCHANGED <<now, tables, attempts, handler, key, history, faults>>

HandleDisconnect(s) ==
    /\ s \in connected
    /\ connected' = connected \ {s}
    /\ socket' = IF socket = s THEN None ELSE socket
    /\ UNCHANGED <<now, tables, attempts, handler, key, history, faults>>

\* maybeRotate: a message starts a rotation if one is due.  The throttle, a
\* minute per socket, keeps a socket's rotations apart.
MaybeRotate(h, s) ==
    /\ handler[h] = Idle /\ s \in connected
    /\ \A g \in Handlers : handler[g] # Idle => handler[g].socket # s
    /\ \E k \in Active : needsRotation(credential[k])
    /\ handler' = [handler EXCEPT ![h] = [Work("findActive") EXCEPT !.socket = s]]
    /\ UNCHANGED <<now, tables, attempts, connected, socket, key, history, faults>>

SupersedeOld(h) ==
    LET w == handler[h]
    IN  /\ w.pc = "supersede"
        /\ credential' = [credential EXCEPT ![w.old] = supersede(@, w.at)]
        /\ handler' = [handler EXCEPT ![h].pc = "insert"]
        /\ stranded' = IF key = w.old THEN stranded ELSE stranded \union {w.old}
        /\ UNCHANGED <<now, code, attempts, connected, socket, key, handedOut, redemptions, faults>>

InsertNew(h) ==
    LET w == handler[h]
        k == CHOOSE k \in Credentials : k \notin Stored
    IN  /\ w.pc = "insert"
        /\ Stored # Credentials
        /\ credential' = [credential EXCEPT ![k] = issue(w.at)]
        /\ handler' = [handler EXCEPT ![h].pc = "emit", ![h].new = k]
        /\ UNCHANGED <<now, code, attempts, connected, socket, key, history, faults>>

\* agent-credential-rotated, on the socket of the message; nobody acknowledges
\* it, and a socket that the agent left behind delivers nothing.
EmitRotated(h) ==
    LET w == handler[h]
    IN  /\ w.pc = "emit"
        /\ \/ /\ w.socket = socket
              /\ key' = w.new
              /\ UNCHANGED <<stranded, faults>>
           \/ /\ faults' = IF w.socket = socket THEN faults + 1 ELSE faults
              /\ faults' <= MaxFaults
              /\ stranded' = stranded \union ({w.old} \ {None})
              /\ UNCHANGED key
        /\ handler' = [handler EXCEPT ![h] = Idle]
        /\ UNCHANGED <<now, tables, attempts, connected, socket, handedOut, redemptions>>

-----------------------------------------------------------------------------
\* RevokeAgentCredential; without an active credential it has nothing to do.
Unpair(h) ==
    /\ handler[h] = Idle
    /\ \E k \in Active : handler' = [handler EXCEPT ![h] = [Work("revoke") EXCEPT !.old = k]]
    /\ UNCHANGED <<now, tables, attempts, connected, socket, key, history, faults>>

SaveRevoked(h) ==
    LET k == handler[h].old
    IN  /\ handler[h].pc = "revoke"
        /\ credential' = [credential EXCEPT ![k] = revoke(@)]
        /\ handler' = [handler EXCEPT ![h] = Idle]
        /\ UNCHANGED <<now, code, attempts, connected, socket, key, history, faults>>

\* A query throws or the process ends: a redemption rolls back, though the
\* attempts may be forgotten before it commits; a rotation may have superseded
\* the old key and not issued a new one.
Abort(h) ==
    /\ handler[h] # Idle
    /\ faults < MaxFaults
    /\ faults' = faults + 1
    /\ handler' = [handler EXCEPT ![h] = Idle]
    /\ attempts' \in {attempts} \union {0 : pc \in {handler[h].pc} \intersect {"commit"}}
    /\ stranded' = IF handler[h].pc \in {"insert", "emit"}
                   THEN stranded \union ({handler[h].old} \ {None}) ELSE stranded
    /\ UNCHANGED <<now, tables, connected, socket, key, handedOut, redemptions>>

\* Bound: only polls last longer than a unit of time.
Tick ==
    /\ now < MaxTime
    /\ \A h \in Handlers : handler[h].pc \in Polling \union {"idle"}
    /\ now' = now + 1
    /\ UNCHANGED <<tables, attempts, handler, connected, socket, key, history, faults>>

Next ==
    \/ \E c \in Codes : IssuePairingCode(c)
    \/ \E h \in Handlers, c \in Codes : Redeem(h, c) \/ Poll(h, c)
    \/ \E h \in Handlers :
          \/ FindByCode(h)
          \/ FindActive(h)
          \/ CommitRedemption(h)
          \/ CaptureSecret(h)
          \/ WipeSecret(h)
          \/ AnswerPoll(h)
          \/ SupersedeOld(h)
          \/ InsertNew(h)
          \/ EmitRotated(h)
          \/ Unpair(h)
          \/ SaveRevoked(h)
          \/ Abort(h)
    \/ \E s \in Sockets : Connect(s) \/ HandleDisconnect(s)
    \/ \E h \in Handlers, s \in Sockets : MaybeRotate(h, s)
    \/ Tick

Spec == Init /\ [][Next]_vars

-----------------------------------------------------------------------------
Handler ==
    [pc : {"findByCode", "findActive", "commit", "capture", "wipe", "answer", "supersede", "insert", "emit", "revoke"},
     at : Time, code : Codes \union {None}, socket : Sockets \union {None},
     old : Credentials \union {None}, new : Credentials \union {None}, expiresAt : Deadline]

TypeOK ==
    /\ now \in Time
    /\ code \in [Codes -> CodeRow \union {NoRow}]
    /\ credential \in [Credentials -> CredentialRow \union {NoRow}]
    /\ attempts \in Nat /\ attempts < MaxInvalidAttempts + Cardinality(Handlers)
    /\ handler \in [Handlers -> Handler \union {Idle}]
    /\ connected \subseteq Sockets /\ socket \in connected \union {None}
    /\ key \in Credentials \union {None}
    /\ handedOut \in [Credentials -> Nat]
    /\ redemptions \in [Codes -> Nat]
    /\ stranded \subseteq Credentials
    /\ faults \in 0..MaxFaults

\* Each key is handed out once: polls that read the same pending secret do not
\* both answer with it, however they overlap (compareAndWipePendingSecret: "only
\* one concurrent caller's UPDATE affects a row"), unless overlapping redemptions
\* of one code put a second secret in its place.
KeyIsHandedOutOnce ==
    \A k \in Credentials :
        handedOut[k] <= 1 \/ \E c \in Codes : redemptions[c] > 1

\* The agent's key works until somebody takes it away: it stops authenticating
\* only when it was revoked, when the establishment was paired anew, when it was
\* rotated before the agent picked it up, or when its successor got lost.  However
\* long the agent was silent and whatever overlaps, a rotation of the key that
\* the agent holds, if it runs to its end, leaves it a working key.
AgentKeepsAWorkingKey ==
    key # None /\ ~Authenticates(key) =>
        credential[key].status = "revoked" \/ key \in stranded
=============================================================================
