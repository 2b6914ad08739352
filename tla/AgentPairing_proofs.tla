------------------------- MODULE AgentPairing_proofs -------------------------
(***************************************************************************)
(* Theorems about AgentPairing, for any number of codes, credentials,      *)
(* handlers and sockets.                                                   *)
(***************************************************************************)
EXTENDS AgentPairing, FiniteSetTheorems, TLAPS

-----------------------------------------------------------------------------
(* What handlers know *)

Secret(c) == IF code[c] = NoRow THEN None ELSE code[c].pendingSecret

\* What a handler carries refers to rows that exist, and only a poll lasts longer
\* than a unit of time.
HandlerOK(w) ==
    /\ w.pc = "findActive" => w.code # None \/ w.socket # None
    /\ w.pc \in {"findByCode", "commit"} \union Polling => w.code # None
    /\ (w.pc # "findByCode" /\ w.code # None) => code[w.code] # NoRow
    /\ w.pc \in {"supersede", "insert", "emit"} => w.socket # None
    /\ w.pc \in {"supersede", "revoke"} => w.old # None
    /\ w.old # None => w.old \in Stored
    /\ w.pc \in {"wipe", "answer", "emit"} => w.new \in Stored
    /\ w.pc = "emit" => w.new # w.old
    /\ w.pc \notin Polling => w.at = now

\* The types, except that attempts are bounded.
Types ==
    /\ now \in Time
    /\ code \in [Codes -> CodeRow \union {NoRow}]
    /\ credential \in [Credentials -> CredentialRow \union {NoRow}]
    /\ attempts \in Nat
    /\ handler \in [Handlers -> Handler \union {Idle}]
    /\ connected \subseteq Sockets /\ socket \in connected \union {None}
    /\ key \in Credentials \union {None}
    /\ handedOut \in [Credentials -> Nat]
    /\ redemptions \in [Codes -> Nat]
    /\ stranded \subseteq Credentials
    /\ faults \in 0..MaxFaults

BaseInv ==
    /\ Types
    /\ \A h \in Handlers : handler[h] # Idle => HandlerOK(handler[h])
    /\ \A c \in Codes : Secret(c) # None => Secret(c) \in Stored

\* Every redemption at its first statement may yet be refused.
Redeeming == {h \in Handlers : handler[h].pc = "findByCode"}
AttemptsInv ==
    attempts + Cardinality(Redeeming) < MaxInvalidAttempts + Cardinality(Handlers)

-----------------------------------------------------------------------------
(* Where keys are *)

Excused(k) == credential[k].status = "superseded" => k \in stranded

\* A rotation replaces key k and has not yet told the agent.
BeingReplaced(k) ==
    /\ now < credential[k].gracePeriodEndsAt
    /\ \E h \in Handlers : handler[h].pc \in {"insert", "emit"} /\ handler[h].old = k

Usable(k) == k \in Stored /\ (Excused(k) \/ BeingReplaced(k))

\* A secret that waits on the row of a code.
SecretInv ==
    \A c \in Codes : Secret(c) # None =>
        /\ Secret(c) # key /\ Excused(Secret(c))
        /\ \A d \in Codes : Secret(d) = Secret(c) => d = c

\* A key that a rotation has issued and is about to send.
EmitInv ==
    \A h \in Handlers : handler[h].pc = "emit" =>
        /\ handler[h].new # key /\ Excused(handler[h].new)
        /\ \A c \in Codes : Secret(c) # handler[h].new
        /\ \A g \in Handlers \ {h} :
              handler[g].pc \in {"wipe", "answer", "emit"} => handler[g].new # handler[h].new

\* A key that a poll has read; only while it is not wiped is it on a row.
PollInv ==
    \A h \in Handlers : handler[h].pc \in {"wipe", "answer"} =>
        /\ Usable(handler[h].new)
        /\ \A c \in Codes : Secret(c) = handler[h].new =>
              (handler[h].pc = "wipe" /\ handler[h].code = c)

KeyInv ==
    /\ key # None => Usable(key)
    /\ socket # None => \A h \in Handlers : handler[h].pc \notin Polling

PairingInv == BaseInv /\ SecretInv /\ EmitInv /\ PollInv /\ KeyInv

-----------------------------------------------------------------------------
(* How often keys are handed out *)

RedeemedInv ==
    /\ \A c \in Codes :
          code[c] # NoRow /\ (code[c].status = "consumed" \/ code[c].pendingSecret # None)
              => redemptions[c] > 0
    /\ \A h \in Handlers : handler[h].pc \in Polling => redemptions[handler[h].code] > 0
    /\ \A k \in Credentials : handedOut[k] > 0 => k \in Stored

\* As long as no code was redeemed twice, a secret is in one place: on its row, in
\* the poll that wiped it, or with the agent.
OnceInv ==
    (\A c \in Codes : redemptions[c] <= 1) =>
        /\ \A c \in Codes : Secret(c) # None => handedOut[Secret(c)] = 0
        /\ \A h \in Handlers : handler[h].pc = "wipe" =>
              Secret(handler[h].code) \in {None, handler[h].new}
        /\ \A h \in Handlers : handler[h].pc = "answer" =>
              /\ handedOut[handler[h].new] = 0
              /\ \A g \in Handlers \ {h} :
                    handler[g].pc = "answer" => handler[g].new # handler[h].new
        /\ \A k \in Credentials : handedOut[k] <= 1

IInv == PairingInv /\ AttemptsInv /\ RedeemedInv /\ OnceInv

-----------------------------------------------------------------------------
(* The rows *)

LEMMA Bounds ==
    /\ PairingCodeTTL \in Nat /\ PendingSecretTTL \in Nat /\ ActiveTTL \in Nat
    /\ GracePeriod \in Nat /\ MaxTime \in Nat /\ MaxFaults \in Nat /\ MaxInvalidAttempts \in Nat
    /\ GracePeriod > 0 /\ MaxInvalidAttempts > 0
  BY AgentPairingAssumption

LEMMA CredentialRows ==
    /\ NoRow \notin CredentialRow
    /\ \A at \in Time : issue(at) \in CredentialRow /\ issue(at).status = "active"
    /\ \A r \in CredentialRow, at \in Time :
          /\ supersede(r, at) \in CredentialRow /\ supersede(r, at).status = "superseded"
          /\ supersede(r, at).gracePeriodEndsAt = at + GracePeriod
    /\ \A r \in CredentialRow : revoke(r) \in CredentialRow /\ revoke(r).status = "revoked"
<1>1. \A at \in Time : issue(at) \in CredentialRow /\ issue(at).status = "active"
  BY Bounds DEF issue, CredentialRow, Deadline, Time
<1>2. ASSUME NEW r \in CredentialRow, NEW at \in Time
      PROVE  /\ supersede(r, at) \in CredentialRow /\ supersede(r, at).status = "superseded"
             /\ supersede(r, at).gracePeriodEndsAt = at + GracePeriod
  <2>1. at + GracePeriod \in Deadline
    BY Bounds DEF Deadline, Time
  <2> QED
    BY <2>1 DEF supersede, CredentialRow
<1>3. \A r \in CredentialRow : revoke(r) \in CredentialRow /\ revoke(r).status = "revoked"
  <2>1. 0 \in Deadline
    BY Bounds DEF Deadline
  <2> QED
    BY <2>1 DEF revoke, CredentialRow
<1> QED
  BY <1>1, <1>2, <1>3, AgentPairingAssumption

LEMMA CodeRows ==
    /\ NoRow \notin CodeRow
    /\ \A at \in Time : /\ NewCode(at) \in CodeRow
                        /\ NewCode(at).pendingSecret = None /\ NewCode(at).status = "issued"
    /\ \A r \in CodeRow, k \in Credentials, at \in Time, d \in BOOLEAN :
          /\ [Consumed(r, k, at) EXCEPT !.delivered = d] \in CodeRow
          /\ [Consumed(r, k, at) EXCEPT !.delivered = d].pendingSecret = k
<1>1. \A at \in Time : /\ NewCode(at) \in CodeRow
                       /\ NewCode(at).pendingSecret = None /\ NewCode(at).status = "issued"
  BY Bounds DEF NewCode, CodeRow, Deadline, Time
<1>2. ASSUME NEW r \in CodeRow, NEW k \in Credentials, NEW at \in Time, NEW d \in BOOLEAN
      PROVE  /\ [Consumed(r, k, at) EXCEPT !.delivered = d] \in CodeRow
             /\ [Consumed(r, k, at) EXCEPT !.delivered = d].pendingSecret = k
  <2>1. Sooner(at + PendingSecretTTL, r.expiresAt) \in Deadline
    BY Bounds DEF Deadline, Time, Sooner, CodeRow
  <2> QED
    BY <2>1 DEF Consumed, CodeRow
<1> QED
  BY <1>1, <1>2, AgentPairingAssumption

\* A handler starts with nothing but the time.
LEMMA IdleFacts == Idle.pc = "idle" /\ Idle \notin Handler
  BY DEF Idle, Handler

LEMMA Names ==
    /\ None \notin Credentials /\ None \notin Codes /\ None \notin Sockets
  BY AgentPairingAssumption

\* What a handler at work is.
LEMMA AtWork ==
    ASSUME BaseInv, NEW h \in Handlers, handler[h].pc # "idle"
    PROVE  handler[h] \in Handler /\ handler[h] # Idle /\ HandlerOK(handler[h])
  BY IdleFacts DEF BaseInv, Types

-----------------------------------------------------------------------------
(* Types and what handlers know *)

Others(h) == \A g \in Handlers \ {h} : handler'[g] = handler[g]

RowsStay ==
    /\ \A c \in Codes : code[c] # NoRow => code'[c] # NoRow
    /\ Stored \subseteq Stored'
    /\ \A c \in Codes : Secret(c)' # None => Secret(c)' \in Stored'

LEMMA RowsUnchanged ==
    ASSUME BaseInv, UNCHANGED <<code, credential>>
    PROVE  RowsStay
  BY DEF BaseInv, RowsStay, Stored, Secret

LEMMA BaseKeeps ==
    ASSUME BaseInv, NEW h \in Handlers, Types', now' = now, RowsStay, Others(h),
           handler'[h] = Idle \/ HandlerOK(handler[h])'
    PROVE  BaseInv'
<1>1. ASSUME NEW g \in Handlers \ {h}, handler'[g] # Idle
      PROVE  HandlerOK(handler[g])'
  <2>1. handler'[g] = handler[g] /\ HandlerOK(handler[g])
    BY <1>1 DEF Others, BaseInv
  <2>2. handler[g] \in Handler
    BY <1>1, <2>1 DEF BaseInv, Types
  <2>3. handler[g].code \in Codes \union {None}
    BY <2>2 DEF Handler
  <2> QED
    BY <2>1, <2>3 DEF HandlerOK, RowsStay
<1> QED
  BY <1>1 DEF BaseInv, RowsStay

LEMMA NoHandlerBase ==
    ASSUME BaseInv, Types', RowsStay, UNCHANGED <<now, handler>>
    PROVE  BaseInv'
<1>1. ASSUME NEW g \in Handlers, handler'[g] # Idle
      PROVE  HandlerOK(handler[g])'
  <2>1. handler'[g] = handler[g] /\ HandlerOK(handler[g])
    BY <1>1 DEF BaseInv
  <2>2. handler[g] \in Handler
    BY <1>1, <2>1 DEF BaseInv, Types
  <2>3. handler[g].code \in Codes \union {None}
    BY <2>2 DEF Handler
  <2> QED
    BY <2>1, <2>3 DEF HandlerOK, RowsStay
<1> QED
  BY <1>1 DEF BaseInv, RowsStay

LEMMA PairBase ==
    ASSUME BaseInv, NEW h \in Handlers, NEW c \in Codes,
           Redeem(h, c) \/ Poll(h, c)
    PROVE  BaseInv'
<1> USE DEF BaseInv
<1>1. UNCHANGED <<now, code, credential, attempts, connected, socket, key, handedOut,
                  redemptions, stranded, faults>>
  BY DEF Redeem, Poll, tables, history
<1>2. PICK pc \in {"findByCode", "capture"} :
          /\ handler' = [handler EXCEPT ![h] = [Work(pc) EXCEPT !.code = c]]
          /\ pc = "capture" => code[c] # NoRow
  BY DEF Redeem, Poll
<1> DEFINE w == [Work(pc) EXCEPT !.code = c]
<1>3. /\ w \in Handler /\ w.pc = pc /\ w.code = c /\ w.old = None /\ w.at = now
  BY Bounds DEF Work, Handler, Types, Deadline, Time
<1>4. handler'[h] = w /\ Others(h) /\ handler' \in [Handlers -> Handler \union {Idle}]
  BY <1>2, <1>3 DEF Types, Others
<1>5. RowsStay
  BY <1>1, RowsUnchanged
<1>6. Types'
  BY <1>1, <1>4 DEF Types
<1>7. HandlerOK(handler[h])'
  <2>1. handler'[h].pc = pc /\ handler'[h].code = c /\ handler'[h].old = None /\ handler'[h].at = now
    BY <1>3, <1>4
  <2> QED
    BY <1>1, <1>2, <2>1, Names DEF HandlerOK, Polling
<1> QED
  BY <1>1, <1>4, <1>5, <1>6, <1>7, BaseKeeps

LEMMA FindByCodeBase ==
    ASSUME BaseInv, NEW h \in Handlers, FindByCode(h)
    PROVE  BaseInv'
<1> USE DEF BaseInv
<1>1. handler[h] \in Handler /\ handler[h] # Idle /\ HandlerOK(handler[h]) /\ handler[h].pc = "findByCode"
  BY AtWork DEF FindByCode
<1>2. /\ UNCHANGED <<now, code, credential, connected, socket, key, handedOut, redemptions,
                     stranded, faults>>
      /\ attempts' \in {attempts, attempts + 1}
      /\ \/ code[handler[h].code] # NoRow /\ handler' = [handler EXCEPT ![h].pc = "findActive"]
         \/ handler' = [handler EXCEPT ![h] = Idle]
  BY DEF FindByCode, tables, history
<1>3. RowsStay
  BY <1>2, RowsUnchanged
<1>4. Others(h) /\ handler' \in [Handlers -> Handler \union {Idle}]
  BY <1>1, <1>2 DEF Types, Handler, Others
<1>5. Types'
  BY <1>2, <1>4 DEF Types
<1>6. CASE handler' = [handler EXCEPT ![h] = Idle]
  BY <1>2, <1>3, <1>4, <1>5, <1>6, BaseKeeps DEF Types
<1>7. CASE code[handler[h].code] # NoRow /\ handler' = [handler EXCEPT ![h].pc = "findActive"]
  <2>1. handler'[h] = [handler[h] EXCEPT !.pc = "findActive"]
    BY <1>7 DEF Types
  <2>2. HandlerOK(handler[h])'
    BY <1>1, <1>2, <1>7, <2>1 DEF HandlerOK, Handler, Polling, Stored
  <2> QED
    BY <1>2, <1>3, <1>4, <1>5, <2>2, BaseKeeps
<1> QED
  BY <1>2, <1>6, <1>7

LEMMA FindActiveBase ==
    ASSUME BaseInv, NEW h \in Handlers, FindActive(h)
    PROVE  BaseInv'
<1> USE DEF BaseInv
<1>1. handler[h] \in Handler /\ handler[h] # Idle /\ HandlerOK(handler[h]) /\ handler[h].pc = "findActive"
  BY AtWork DEF FindActive
<1>2. PICK k \in Credentials \union {None}, pc \in {"commit", "insert", "supersede"} :
          /\ FindsActive(k)
          /\ handler' = [handler EXCEPT ![h].old = k, ![h].pc = pc]
          /\ pc = IF handler[h].code # None THEN "commit" ELSE IF k = None THEN "insert" ELSE "supersede"
  BY DEF FindActive
<1>3. UNCHANGED <<now, code, credential, attempts, connected, socket, key, handedOut,
                  redemptions, stranded, faults>>
  BY DEF FindActive, tables, history
<1>4. RowsStay
  BY <1>3, RowsUnchanged
<1>5. /\ Others(h) /\ handler' \in [Handlers -> Handler \union {Idle}]
      /\ handler'[h] = [handler[h] EXCEPT !.old = k, !.pc = pc]
  BY <1>1, <1>2 DEF Types, Handler, Others
<1>6. Types'
  BY <1>3, <1>5 DEF Types
<1>7. k # None => k \in Stored
  BY <1>2 DEF FindsActive, Active
<1>8. HandlerOK(handler[h])'
  BY <1>1, <1>2, <1>3, <1>5, <1>7 DEF HandlerOK, Handler, Polling, Stored
<1> QED
  BY <1>3, <1>4, <1>5, <1>6, <1>8, BaseKeeps

\* What the transaction of a redemption commits.
RedemptionEffect(h, k, c, old) ==
    /\ handler[h].pc = "commit" /\ handler[h].code = c /\ handler[h].old = old
    /\ k \notin Stored /\ (old # None => old \in Stored)
    /\ \A j \in Credentials :
          credential'[j] = IF j = k THEN issue(now)
                           ELSE IF j = old THEN supersede(credential[j], now) ELSE credential[j]
    /\ credential' = [j \in Credentials |-> credential'[j]]
    /\ code[c] # NoRow
    /\ \E d \in BOOLEAN :
          code' = [code EXCEPT ![c] = [Consumed(code[c], k, now) EXCEPT !.delivered = d]]
    /\ attempts' = 0 /\ handler' = [handler EXCEPT ![h] = Idle]
    /\ redemptions' = [redemptions EXCEPT ![c] = @ + 1]
    /\ stranded' = stranded \union ({old} \ {None})
    /\ UNCHANGED <<now, connected, socket, key, handedOut, faults>>

LEMMA RedemptionFacts ==
    ASSUME BaseInv, NEW h \in Handlers, CommitRedemption(h)
    PROVE  \E k \in Credentials, c \in Codes, old \in Credentials \union {None} :
              RedemptionEffect(h, k, c, old)
<1> DEFINE k == CHOOSE k \in Credentials : k \notin Stored
<1>1. /\ handler[h] \in Handler /\ HandlerOK(handler[h]) /\ handler[h].pc = "commit"
  BY AtWork DEF CommitRedemption
<1>2. k \in Credentials /\ k \notin Stored
  <2>1. \E j \in Credentials : j \notin Stored
    BY DEF CommitRedemption, Stored
  <2> QED
    BY <2>1
<1>3. /\ handler[h].at = now /\ handler[h].code # None /\ handler[h].code \in Codes
      /\ handler[h].old \in Credentials \union {None} /\ (handler[h].old # None => handler[h].old \in Stored)
      /\ code[handler[h].code] # NoRow
  BY <1>1, Names DEF HandlerOK, Handler, Polling
<1>4. /\ credential' = [j \in Credentials |->
              IF j = k THEN issue(now)
              ELSE IF j = handler[h].old THEN supersede(credential[j], now) ELSE credential[j]]
      /\ attempts' = 0 /\ handler' = [handler EXCEPT ![h] = Idle]
      /\ redemptions' = [redemptions EXCEPT ![handler[h].code] = @ + 1]
      /\ stranded' = stranded \union ({handler[h].old} \ {None})
      /\ UNCHANGED <<now, connected, socket, key, handedOut, faults>>
  BY <1>3 DEF CommitRedemption
<1>5. \E d \in BOOLEAN : code' = [code EXCEPT ![handler[h].code] =
              [Consumed(code[handler[h].code], k, now) EXCEPT !.delivered = d]]
  <2>1. PICK d \in {FALSE, code[handler[h].code].delivered} :
            code' = [code EXCEPT ![handler[h].code] =
                        [Consumed(code[handler[h].code], k, now) EXCEPT !.delivered = d]]
    BY <1>3 DEF CommitRedemption
  <2>2. code[handler[h].code] \in CodeRow
    BY <1>3 DEF BaseInv, Types
  <2>3. d \in BOOLEAN
    BY <2>1, <2>2 DEF CodeRow
  <2> QED
    BY <2>1, <2>3
<1> HIDE DEF k
<1>6. /\ \A j \in Credentials :
            credential'[j] = IF j = k THEN issue(now)
                             ELSE IF j = handler[h].old THEN supersede(credential[j], now)
                                                        ELSE credential[j]
      /\ credential' = [j \in Credentials |-> credential'[j]]
  BY <1>4
<1> QED
  BY <1>1, <1>2, <1>3, <1>4, <1>5, <1>6 DEF RedemptionEffect

LEMMA CommitRedemptionBase ==
    ASSUME BaseInv, NEW h \in Handlers, CommitRedemption(h)
    PROVE  BaseInv'
<1> USE DEF BaseInv
<1>1. PICK k \in Credentials, c \in Codes, old \in Credentials \union {None} :
          RedemptionEffect(h, k, c, old)
  BY RedemptionFacts
<1> USE <1>1 DEF RedemptionEffect
<1>2. ASSUME NEW j \in Credentials
      PROVE  /\ credential'[j] \in CredentialRow \union {NoRow}
             /\ j \in Stored \/ j = k => credential'[j] # NoRow
  <2>1. credential[j] \in CredentialRow \union {NoRow} /\ now \in Time
    BY DEF Types
  <2>2. j = old => credential[j] \in CredentialRow
    BY <1>1, <2>1, Names DEF Stored
  <2> QED
    BY <1>1, <2>1, <2>2, CredentialRows DEF Stored
<1>3. code' \in [Codes -> CodeRow \union {NoRow}] /\ code'[c] # NoRow
  <2>1. code[c] \in CodeRow /\ now \in Time
    BY <1>1 DEF Types
  <2> QED
    BY <1>1, <2>1, CodeRows DEF Types
<1>4. RowsStay
  <2>1. Secret(c)' = k
    BY <1>3, CodeRows DEF Secret, Types
  <2>2. \A d \in Codes \ {c} : Secret(d)' = Secret(d)
    BY DEF Secret, Types
  <2>3. \A j \in Credentials : j \in Stored \/ j = k => j \in Stored'
    BY <1>2 DEF Stored
  <2>4. \A d \in Codes : Secret(d)' # None => Secret(d)' \in Stored'
    BY <2>1, <2>2, <2>3 DEF Stored
  <2> QED
    BY <1>3, <2>3, <2>4 DEF RowsStay, Stored, Types
<1>5. redemptions' \in [Codes -> Nat]
  BY <1>1 DEF Types
<1>6. credential' \in [Credentials -> CredentialRow \union {NoRow}]
  BY <1>1, <1>2
<1>7. Types'
  BY <1>1, <1>3, <1>5, <1>6 DEF Types
<1>8. Others(h) /\ handler'[h] = Idle
  BY <1>1 DEF Others, Types
<1> QED
  BY <1>1, <1>4, <1>7, <1>8, BaseKeeps

LEMMA CaptureSecretBase ==
    ASSUME BaseInv, NEW h \in Handlers, CaptureSecret(h)
    PROVE  BaseInv'
<1> USE DEF BaseInv
<1>1. handler[h] \in Handler /\ handler[h] # Idle /\ HandlerOK(handler[h]) /\ handler[h].pc = "capture"
  BY AtWork DEF CaptureSecret
<1>2. UNCHANGED <<now, code, credential, attempts, connected, socket, key, handedOut,
                  redemptions, stranded, faults>>
  BY DEF CaptureSecret, tables, history
<1>3. /\ handler[h].code \in Codes /\ code[handler[h].code] \in CodeRow
  BY <1>1, Names DEF HandlerOK, Handler, Polling, Types
<1>4. RowsStay
  BY <1>2, RowsUnchanged
<1>5. CASE handler' = [handler EXCEPT ![h] = Idle]
  <2>1. Others(h) /\ handler'[h] = Idle /\ Types'
    BY <1>2, <1>5 DEF Types, Others
  <2> QED
    BY <1>2, <1>4, <2>1, BaseKeeps
<1>6. CASE /\ code[handler[h].code].pendingSecret # None
           /\ handler' = [handler EXCEPT ![h].pc = "wipe",
                            ![h].new = code[handler[h].code].pendingSecret,
                            ![h].expiresAt = code[handler[h].code].pendingSecretExpiresAt]
  <2> DEFINE r == code[handler[h].code]
  <2>1. r.pendingSecret \in Credentials /\ r.pendingSecretExpiresAt \in Deadline
    BY <1>3, <1>6 DEF CodeRow
  <2>2. r.pendingSecret \in Stored
    BY <1>3, <1>6, AgentPairingAssumption DEF Secret
  <2> HIDE DEF r
  <2>3. handler' = [handler EXCEPT ![h] = [handler[h] EXCEPT !.pc = "wipe", !.new = r.pendingSecret,
                                              !.expiresAt = r.pendingSecretExpiresAt]]
    BY <1>6 DEF r
  <2>4. handler'[h] = [handler[h] EXCEPT !.pc = "wipe", !.new = r.pendingSecret,
                                         !.expiresAt = r.pendingSecretExpiresAt]
    BY <2>3 DEF Types
  <2>5. handler'[h] \in Handler
    BY <1>1, <2>1, <2>4 DEF Handler
  <2>6. Others(h) /\ Types'
    BY <1>2, <2>3, <2>5 DEF Others, Types
  <2>7. HandlerOK(handler[h])'
    BY <1>1, <1>2, <2>2, <2>4 DEF HandlerOK, Handler, Polling, Stored
  <2> QED
    BY <1>2, <1>4, <2>6, <2>7, BaseKeeps
<1> QED
  BY <1>1, <1>5, <1>6 DEF CaptureSecret

\* The wipe takes the secret off the row.
LEMMA WipeFacts ==
    ASSUME BaseInv, NEW h \in Handlers, WipeSecret(h)
    PROVE  /\ handler[h].pc = "wipe"
           /\ UNCHANGED <<now, credential, attempts, connected, socket, key, handedOut,
                          redemptions, stranded, faults>>
           /\ \/ /\ UNCHANGED code /\ handler' = [handler EXCEPT ![h] = Idle]
              \/ \E c \in Codes :
                    /\ handler[h].code = c /\ Secret(c) # None /\ code[c] \in CodeRow
                    /\ code' = [code EXCEPT ![c] =
                          [code[c] EXCEPT !.pendingSecret = None, !.delivered = TRUE]]
                    /\ handler' = [handler EXCEPT ![h] = [handler[h] EXCEPT !.pc = "answer"]]
<1>1. handler[h] \in Handler /\ HandlerOK(handler[h]) /\ handler[h].pc = "wipe"
  BY AtWork DEF WipeSecret
<1>2. PICK c \in Codes : handler[h].code = c
  BY <1>1, Names DEF HandlerOK, Handler, Polling
<1>3. code[c] # NoRow /\ code[c] \in CodeRow
  BY <1>1, <1>2, Names DEF HandlerOK, BaseInv, Types
<1>4. UNCHANGED <<now, credential, attempts, connected, socket, key, handedOut,
                  redemptions, stranded, faults>>
  BY DEF WipeSecret, history
<1>5. CASE code[c].pendingSecret # None /\ code[c].pendingSecretExpiresAt > handler[h].at
  <2>1. /\ code' = [code EXCEPT ![c].pendingSecret = None, ![c].delivered = TRUE]
        /\ handler' = [handler EXCEPT ![h].pc = "answer"]
    BY <1>2, <1>5 DEF WipeSecret
  <2>2. code' = [code EXCEPT ![c] = [code[c] EXCEPT !.pendingSecret = None, !.delivered = TRUE]]
    BY <2>1
  <2>3. handler' = [handler EXCEPT ![h] = [handler[h] EXCEPT !.pc = "answer"]]
    BY <2>1
  <2>4. Secret(c) # None
    BY <1>3, <1>5 DEF Secret
  <2> QED
    BY <1>1, <1>2, <1>3, <1>4, <2>2, <2>3, <2>4
<1>6. CASE ~(code[c].pendingSecret # None /\ code[c].pendingSecretExpiresAt > handler[h].at)
  BY <1>1, <1>2, <1>4, <1>6 DEF WipeSecret
<1> QED
  BY <1>5, <1>6

LEMMA WipeSecretBase ==
    ASSUME BaseInv, NEW h \in Handlers, WipeSecret(h)
    PROVE  BaseInv'
<1> USE DEF BaseInv
<1>1. handler[h] \in Handler /\ HandlerOK(handler[h]) /\ handler[h].pc = "wipe"
  BY AtWork DEF WipeSecret
<1>2. UNCHANGED <<now, credential, attempts, connected, socket, key, handedOut,
                  redemptions, stranded, faults>>
  BY WipeFacts
<1>3. CASE UNCHANGED code /\ handler' = [handler EXCEPT ![h] = Idle]
  <2>1. Others(h) /\ handler'[h] = Idle /\ Types'
    BY <1>2, <1>3 DEF Types, Others
  <2>2. RowsStay
    BY <1>2, <1>3, RowsUnchanged
  <2> QED
    BY <1>2, <2>1, <2>2, BaseKeeps
<1>4. ASSUME NEW c \in Codes, handler[h].code = c, code[c] \in CodeRow,
             code' = [code EXCEPT ![c] = [code[c] EXCEPT !.pendingSecret = None, !.delivered = TRUE]],
             handler' = [handler EXCEPT ![h] = [handler[h] EXCEPT !.pc = "answer"]]
      PROVE  BaseInv'
  <2>1. [code[c] EXCEPT !.pendingSecret = None, !.delivered = TRUE] \in CodeRow
    BY <1>4 DEF CodeRow
  <2>2. code' \in [Codes -> CodeRow \union {NoRow}]
    BY <1>4, <2>1 DEF Types
  <2>3. RowsStay
    <3>1. \A d \in Codes : code[d] # NoRow => code'[d] # NoRow
      BY <1>4, <2>1, CodeRows DEF Types
    <3>2. \A d \in Codes \ {c} : Secret(d)' = Secret(d)
      BY <1>4 DEF Secret, Types
    <3>3. Secret(c)' = None
      BY <1>4 DEF Secret, Types, CodeRow
    <3>4. Stored' = Stored
      BY <1>2 DEF Stored
    <3> QED
      BY <3>1, <3>2, <3>3, <3>4 DEF RowsStay
  <2>4. handler'[h] = [handler[h] EXCEPT !.pc = "answer"] /\ Others(h)
    BY <1>4 DEF Types, Others
  <2>5. handler' \in [Handlers -> Handler \union {Idle}]
    BY <1>1, <1>4 DEF Types, Handler
  <2>6. Types'
    BY <1>2, <2>2, <2>5 DEF Types
  <2>7. HandlerOK(handler[h])'
    <3>1. code'[c] # NoRow
      BY <1>4, <2>3, CodeRows DEF RowsStay
    <3>2. /\ handler'[h].pc = "answer" /\ handler'[h].code = c
          /\ handler'[h].old = handler[h].old /\ handler'[h].new = handler[h].new
      BY <1>1, <1>4, <2>4 DEF Handler
    <3>3. /\ handler[h].old # None => handler[h].old \in Stored'
          /\ handler[h].new \in Stored'
      BY <1>1, <1>2 DEF HandlerOK, Stored
    <3> QED
      BY <3>1, <3>2, <3>3, Names DEF HandlerOK, Polling
  <2> QED
    BY <1>2, <2>3, <2>4, <2>6, <2>7, BaseKeeps
<1> QED
  BY <1>3, <1>4, WipeFacts

LEMMA AnswerPollBase ==
    ASSUME BaseInv, NEW h \in Handlers, AnswerPoll(h)
    PROVE  BaseInv'
<1> USE DEF BaseInv
<1>1. handler[h] \in Handler /\ HandlerOK(handler[h]) /\ handler[h].pc = "answer"
  BY AtWork DEF AnswerPoll
<1>2. /\ UNCHANGED <<now, code, credential, attempts, connected, socket, redemptions, stranded, faults>>
      /\ handler' = [handler EXCEPT ![h] = Idle]
  BY DEF AnswerPoll, tables
<1>3. handler[h].new \in Credentials
  BY <1>1 DEF HandlerOK, Stored
<1>4. key' \in Credentials \union {None} /\ handedOut' \in [Credentials -> Nat]
  BY <1>3 DEF AnswerPoll, Types
<1>5. Others(h) /\ handler'[h] = Idle /\ Types'
  BY <1>2, <1>4 DEF Types, Others
<1> QED
  BY <1>2, <1>5, RowsUnchanged, BaseKeeps

LEMMA SupersedeOldBase ==
    ASSUME BaseInv, NEW h \in Handlers, SupersedeOld(h)
    PROVE  BaseInv'
<1> USE DEF BaseInv
<1>1. handler[h] \in Handler /\ HandlerOK(handler[h]) /\ handler[h].pc = "supersede"
  BY AtWork DEF SupersedeOld
<1>2. PICK k \in Credentials : handler[h].old = k
  BY <1>1 DEF HandlerOK, Handler
<1>3. k \in Stored /\ handler[h].at = now
  BY <1>1, <1>2 DEF HandlerOK, Polling
<1>4. /\ UNCHANGED <<now, code, attempts, connected, socket, key, handedOut, redemptions, faults>>
      /\ credential' = [credential EXCEPT ![k] = supersede(credential[k], now)]
      /\ handler' = [handler EXCEPT ![h] = [handler[h] EXCEPT !.pc = "insert"]]
      /\ stranded' \subseteq stranded \union {k}
  BY <1>2, <1>3 DEF SupersedeOld
<1>5. credential[k] \in CredentialRow /\ supersede(credential[k], now) \in CredentialRow
  BY <1>3, CredentialRows DEF Types, Stored
<1>6. credential' \in [Credentials -> CredentialRow \union {NoRow}] /\ Stored' = Stored
  BY <1>3, <1>4, <1>5, CredentialRows DEF Types, Stored
<1>7. RowsStay
  BY <1>4, <1>6 DEF RowsStay, Secret
<1>8. handler'[h] = [handler[h] EXCEPT !.pc = "insert"] /\ Others(h)
  BY <1>4 DEF Types, Others
<1>9. handler' \in [Handlers -> Handler \union {Idle}]
  BY <1>1, <1>4 DEF Types, Handler
<1>10. Types'
  BY <1>4, <1>6, <1>9 DEF Types
<1>11. HandlerOK(handler[h])'
  BY <1>1, <1>4, <1>6, <1>8 DEF HandlerOK, Handler, Polling
<1> QED
  BY <1>4, <1>7, <1>8, <1>10, <1>11, BaseKeeps

\* A rotation issues a credential that is new.
LEMMA InsertFacts ==
    ASSUME BaseInv, NEW h \in Handlers, InsertNew(h)
    PROVE  \E k \in Credentials :
              /\ k \notin Stored /\ handler[h].pc = "insert"
              /\ credential' = [credential EXCEPT ![k] = issue(now)]
              /\ handler' = [handler EXCEPT ![h] = [handler[h] EXCEPT !.pc = "emit", !.new = k]]
              /\ UNCHANGED <<now, code, attempts, connected, socket, key, handedOut, redemptions,
                             stranded, faults>>
<1> DEFINE k == CHOOSE k \in Credentials : k \notin Stored
<1>1. k \in Credentials /\ k \notin Stored
  <2>1. \E j \in Credentials : j \notin Stored
    BY DEF InsertNew, Stored
  <2> QED
    BY <2>1
<1>2. HandlerOK(handler[h]) /\ handler[h].pc = "insert"
  BY AtWork DEF InsertNew
<1>3. handler[h].at = now
  BY <1>2 DEF HandlerOK, Polling
<1>4. /\ credential' = [credential EXCEPT ![k] = issue(now)]
      /\ handler' = [handler EXCEPT ![h].pc = "emit", ![h].new = k]
      /\ UNCHANGED <<now, code, attempts, connected, socket, key, handedOut, redemptions,
                     stranded, faults>>
  BY <1>3 DEF InsertNew, history
<1> HIDE DEF k
<1>5. handler' = [handler EXCEPT ![h] = [handler[h] EXCEPT !.pc = "emit", !.new = k]]
  BY <1>4 DEF BaseInv, Types
<1> QED
  BY <1>1, <1>2, <1>4, <1>5

LEMMA InsertNewBase ==
    ASSUME BaseInv, NEW h \in Handlers, InsertNew(h)
    PROVE  BaseInv'
<1> USE DEF BaseInv
<1>1. handler[h] \in Handler /\ HandlerOK(handler[h]) /\ handler[h].pc = "insert"
  BY AtWork DEF InsertNew
<1>2. PICK k \in Credentials :
          /\ k \notin Stored /\ handler[h].pc = "insert"
          /\ credential' = [credential EXCEPT ![k] = issue(now)]
          /\ handler' = [handler EXCEPT ![h] = [handler[h] EXCEPT !.pc = "emit", !.new = k]]
          /\ UNCHANGED <<now, code, attempts, connected, socket, key, handedOut, redemptions,
                         stranded, faults>>
  BY InsertFacts
<1>3. issue(now) \in CredentialRow
  BY CredentialRows DEF Types
<1>4. /\ credential' \in [Credentials -> CredentialRow \union {NoRow}]
      /\ Stored' = Stored \union {k}
  BY <1>2, <1>3, CredentialRows DEF Types, Stored
<1>5. RowsStay
  BY <1>2, <1>4 DEF RowsStay, Secret
<1>6. handler'[h] = [handler[h] EXCEPT !.pc = "emit", !.new = k] /\ Others(h)
  BY <1>2 DEF Types, Others
<1>7. handler'[h] \in Handler
  BY <1>1, <1>6 DEF Handler
<1>8. Types'
  BY <1>2, <1>4, <1>6, <1>7 DEF Types
<1>9. HandlerOK(handler[h])'
  BY <1>1, <1>2, <1>4, <1>6, Names DEF HandlerOK, Handler, Polling
<1> QED
  BY <1>2, <1>5, <1>6, <1>8, <1>9, BaseKeeps

LEMMA EmitRotatedBase ==
    ASSUME BaseInv, NEW h \in Handlers, EmitRotated(h)
    PROVE  BaseInv'
<1> USE DEF BaseInv
<1>1. handler[h] \in Handler /\ HandlerOK(handler[h]) /\ handler[h].pc = "emit"
  BY AtWork DEF EmitRotated
<1>2. /\ UNCHANGED <<now, code, credential, attempts, connected, socket, handedOut, redemptions>>
      /\ handler' = [handler EXCEPT ![h] = Idle]
  BY DEF EmitRotated, tables
<1>3. handler[h].new \in Credentials /\ handler[h].old \in Credentials \union {None}
  BY <1>1 DEF HandlerOK, Stored, Handler
<1>4. /\ key' \in Credentials \union {None} /\ stranded' \subseteq Credentials
      /\ faults' \in 0..MaxFaults
  BY <1>3, Bounds DEF EmitRotated, Types
<1>5. Others(h) /\ handler'[h] = Idle /\ Types'
  BY <1>2, <1>4 DEF Types, Others
<1> QED
  BY <1>2, <1>5, RowsUnchanged, BaseKeeps

LEMMA UnpairBase ==
    ASSUME BaseInv, NEW h \in Handlers, Unpair(h)
    PROVE  BaseInv'
<1> USE DEF BaseInv
<1>1. PICK k \in Active : handler' = [handler EXCEPT ![h] = [Work("revoke") EXCEPT !.old = k]]
  BY DEF Unpair
<1>2. UNCHANGED <<now, code, credential, attempts, connected, socket, key, handedOut,
                  redemptions, stranded, faults>>
  BY DEF Unpair, tables, history
<1> DEFINE w == [Work("revoke") EXCEPT !.old = k]
<1>3. k \in Stored /\ k \in Credentials
  BY DEF Active, Stored
<1>4. /\ w \in Handler /\ w.pc = "revoke" /\ w.code = None /\ w.old = k /\ w.at = now
  BY <1>3, Bounds DEF Work, Handler, Types, Deadline, Time
<1>5. handler'[h] = w /\ Others(h)
  BY <1>1 DEF Types, Others
<1>6. Types'
  BY <1>1, <1>2, <1>4 DEF Types
<1>7. HandlerOK(handler[h])'
  <2>1. /\ handler'[h].pc = "revoke" /\ handler'[h].code = None /\ handler'[h].old = k
        /\ handler'[h].at = now
    BY <1>4, <1>5
  <2> QED
    BY <1>2, <1>3, <2>1, Names DEF HandlerOK, Polling, Stored
<1> QED
  BY <1>2, <1>5, <1>6, <1>7, RowsUnchanged, BaseKeeps

LEMMA MaybeRotateBase ==
    ASSUME BaseInv, NEW h \in Handlers, NEW s \in Sockets, MaybeRotate(h, s)
    PROVE  BaseInv'
<1> USE DEF BaseInv
<1>1. handler' = [handler EXCEPT ![h] = [Work("findActive") EXCEPT !.socket = s]]
  BY DEF MaybeRotate
<1>2. UNCHANGED <<now, code, credential, attempts, connected, socket, key, handedOut,
                  redemptions, stranded, faults>>
  BY DEF MaybeRotate, tables, history
<1> DEFINE w == [Work("findActive") EXCEPT !.socket = s]
<1>4. /\ w \in Handler /\ w.pc = "findActive" /\ w.code = None /\ w.old = None /\ w.at = now
      /\ w.socket = s
  BY Bounds DEF Work, Handler, Types, Deadline, Time
<1>5. handler'[h] = w /\ Others(h)
  BY <1>1 DEF Types, Others
<1>6. Types'
  BY <1>1, <1>2, <1>4 DEF Types
<1>7. HandlerOK(handler[h])'
  <2>1. /\ handler'[h].pc = "findActive" /\ handler'[h].code = None /\ handler'[h].old = None
        /\ handler'[h].at = now /\ handler'[h].socket = s
    BY <1>4, <1>5
  <2> QED
    BY <1>2, <2>1, Names DEF HandlerOK, Polling, Stored
<1> QED
  BY <1>2, <1>5, <1>6, <1>7, RowsUnchanged, BaseKeeps

LEMMA SaveRevokedBase ==
    ASSUME BaseInv, NEW h \in Handlers, SaveRevoked(h)
    PROVE  BaseInv'
<1> USE DEF BaseInv
<1>1. handler[h] \in Handler /\ HandlerOK(handler[h]) /\ handler[h].pc = "revoke"
  BY AtWork DEF SaveRevoked
<1>2. PICK k \in Credentials : handler[h].old = k /\ k \in Stored
  BY <1>1 DEF HandlerOK, Handler
<1>3. /\ UNCHANGED <<now, code, attempts, connected, socket, key, handedOut, redemptions,
                     stranded, faults>>
      /\ credential' = [credential EXCEPT ![k] = revoke(credential[k])]
      /\ handler' = [handler EXCEPT ![h] = Idle]
  BY <1>2 DEF SaveRevoked, history
<1>4. credential[k] \in CredentialRow /\ revoke(credential[k]) \in CredentialRow
  BY <1>2, CredentialRows DEF Types, Stored
<1>5. credential' \in [Credentials -> CredentialRow \union {NoRow}] /\ Stored' = Stored
  BY <1>2, <1>3, <1>4, CredentialRows DEF Types, Stored
<1>6. RowsStay
  BY <1>3, <1>5 DEF RowsStay, Secret
<1>7. handler'[h] = Idle /\ Others(h) /\ Types'
  BY <1>3, <1>5 DEF Types, Others
<1> QED
  BY <1>3, <1>6, <1>7, BaseKeeps

LEMMA AbortBase ==
    ASSUME BaseInv, NEW h \in Handlers, Abort(h)
    PROVE  BaseInv'
<1> USE DEF BaseInv
<1>1. handler[h] \in Handler
  BY DEF Abort, Types
<1>2. /\ UNCHANGED <<now, code, credential, connected, socket, key, handedOut, redemptions>>
      /\ handler' = [handler EXCEPT ![h] = Idle]
      /\ attempts' \in {attempts, 0}
      /\ faults < MaxFaults /\ faults' = faults + 1
      /\ stranded' \subseteq stranded \union ({handler[h].old} \ {None})
  BY DEF Abort, tables
<1>3. handler[h].old \in Credentials \union {None}
  BY <1>1 DEF Handler
<1>4. stranded' \subseteq Credentials /\ faults' \in 0..MaxFaults /\ attempts' \in Nat
  BY <1>2, <1>3, Bounds DEF Types
<1>5. Others(h) /\ handler'[h] = Idle /\ Types'
  BY <1>2, <1>4 DEF Types, Others
<1> QED
  BY <1>2, <1>5, RowsUnchanged, BaseKeeps

LEMMA IssuePairingCodeBase ==
    ASSUME BaseInv, NEW c \in Codes, IssuePairingCode(c)
    PROVE  BaseInv'
<1> USE DEF BaseInv
<1>1. /\ code[c] = NoRow /\ code' = [code EXCEPT ![c] = NewCode(now)]
      /\ UNCHANGED <<now, credential, attempts, handler, connected, socket, key, handedOut,
                     redemptions, stranded, faults>>
  BY DEF IssuePairingCode, history
<1>2. NewCode(now) \in CodeRow /\ NewCode(now).pendingSecret = None
  BY CodeRows DEF Types
<1>3. Types'
  BY <1>1, <1>2 DEF Types
<1>4. RowsStay
  <2>1. \A d \in Codes : Secret(d)' = Secret(d)
    BY <1>1, <1>2 DEF Secret, Types
  <2>2. Stored' = Stored
    BY <1>1 DEF Stored
  <2> QED
    BY <1>1, <2>1, <2>2 DEF RowsStay, Types
<1> QED
  BY <1>1, <1>3, <1>4, NoHandlerBase

LEMMA SocketBase ==
    ASSUME BaseInv, NEW s \in Sockets, Connect(s) \/ HandleDisconnect(s)
    PROVE  BaseInv'
<1>1. /\ UNCHANGED <<now, code, credential, attempts, handler, key, handedOut, redemptions,
                     stranded, faults>>
      /\ connected' \in SUBSET Sockets /\ socket' \in connected' \union {None}
  BY DEF Connect, HandleDisconnect, BaseInv, Types, tables, history
<1>2. Types'
  BY <1>1 DEF BaseInv, Types
<1> QED
  BY <1>1, <1>2, RowsUnchanged, NoHandlerBase

\* Time passes while nobody is between two statements.
LEMMA TickBase ==
    ASSUME BaseInv, Tick
    PROVE  BaseInv'
<1> USE DEF BaseInv
<1>1. /\ now < MaxTime /\ now' = now + 1
      /\ UNCHANGED <<code, credential, attempts, handler, connected, socket, key, handedOut,
                     redemptions, stranded, faults>>
      /\ \A h \in Handlers : handler[h].pc \in Polling \union {"idle"}
  BY DEF Tick, tables, history
<1>2. Types'
  BY <1>1, Bounds DEF Types, Time
<1>3. ASSUME NEW h \in Handlers, handler'[h] # Idle
      PROVE  HandlerOK(handler[h])'
  <2>1. handler'[h] = handler[h] /\ HandlerOK(handler[h]) /\ handler[h] \in Handler
    BY <1>1, <1>3 DEF Types
  <2>2. handler[h].pc \in Polling
    BY <1>1, <2>1 DEF Handler
  <2> QED
    BY <1>1, <2>1, <2>2 DEF HandlerOK, Stored, Polling
<1> QED
  BY <1>1, <1>2, <1>3 DEF Secret, Stored

-----------------------------------------------------------------------------
(* Where keys are: steps that move none *)

\* While credentials stay, keys stay usable; a rotation that ends has to say whose
\* key it leaves behind.
LEMMA CredentialsStay ==
    ASSUME BaseInv, NEW h \in Handlers, UNCHANGED <<now, credential>>, Others(h),
           stranded \subseteq stranded',
           handler[h].pc \in {"insert", "emit"} => handler[h].old \in stranded' \union {None}
    PROVE  /\ \A k \in Stored : Excused(k) => Excused(k)'
           /\ \A k : Usable(k) => Usable(k)'
<1>1. \A k : Excused(k) => Excused(k)'
  BY DEF Excused
<1>2. ASSUME NEW k, Usable(k)
      PROVE  Usable(k)'
  <2>1. k \in Stored' /\ k \in Stored /\ k # None
    BY <1>2, Names DEF Usable, Stored
  <2>2. CASE BeingReplaced(k)
    <3>1. PICK g \in Handlers : handler[g].pc \in {"insert", "emit"} /\ handler[g].old = k
      BY <2>2 DEF BeingReplaced
    <3>2. CASE g = h
      BY <2>1, <3>1, <3>2 DEF Usable, Excused
    <3>3. CASE g # h
      <4>1. BeingReplaced(k)'
        BY <2>2, <3>1, <3>3 DEF BeingReplaced, Others
      <4> QED
        BY <2>1, <4>1 DEF Usable
    <3> QED
      BY <3>2, <3>3
  <2> QED
    BY <1>1, <1>2, <2>1, <2>2 DEF Usable
<1> QED
  BY <1>1, <1>2

\* A step that gives its handler no key and leaves those of the agent and the codes.
LEMMA QuietKeeps ==
    ASSUME PairingInv, BaseInv', NEW h \in Handlers, Others(h), UNCHANGED <<socket, key>>,
           handler'[h].pc \notin {"wipe", "answer", "emit"},
           handler'[h].pc \in Polling => socket = None,
           \A c \in Codes : Secret(c)' = Secret(c),
           \A k \in Stored : k # key /\ Excused(k) => Excused(k)',
           \A k : Usable(k) => Usable(k)'
    PROVE  PairingInv'
<1> USE DEF PairingInv
<1>1. \A c \in Codes : Secret(c) # None => Secret(c) \in Stored
  BY DEF BaseInv
<1>2. SecretInv'
  BY <1>1 DEF SecretInv
<1>3. ASSUME NEW g \in Handlers, handler'[g].pc = "emit"
      PROVE  /\ handler'[g].new # key' /\ Excused(handler[g].new)'
             /\ \A c \in Codes : Secret(c)' # handler'[g].new
             /\ \A f \in Handlers \ {g} :
                   handler'[f].pc \in {"wipe", "answer", "emit"} => handler'[f].new # handler'[g].new
  <2>1. g # h /\ handler'[g] = handler[g]
    BY <1>3 DEF Others
  <2>2. handler[g].new \in Stored
    BY <1>3, <2>1, AtWork DEF HandlerOK
  <2> QED
    BY <1>3, <2>1, <2>2 DEF EmitInv, Others, Excused
<1>4. ASSUME NEW g \in Handlers, handler'[g].pc \in {"wipe", "answer"}
      PROVE  /\ Usable(handler[g].new)'
             /\ \A c \in Codes : Secret(c)' = handler'[g].new =>
                   (handler'[g].pc = "wipe" /\ handler'[g].code = c)
  <2>1. g # h /\ handler'[g] = handler[g]
    BY <1>4 DEF Others
  <2>2. Usable(handler[g].new)
    BY <1>4, <2>1 DEF PollInv
  <2>3. Usable(handler[g].new)'
    BY <2>1, <2>2 DEF Usable, Excused, BeingReplaced
  <2> QED
    BY <1>4, <2>1, <2>3 DEF PollInv
<1>5. KeyInv'
  <2>1. key # None => Usable(key)'
    BY DEF KeyInv, Usable, Excused, BeingReplaced
  <2>2. socket # None => \A g \in Handlers : handler'[g].pc \notin Polling
    BY DEF KeyInv, Others
  <2> QED
    BY <2>1, <2>2 DEF KeyInv
<1> QED
  BY <1>2, <1>3, <1>4, <1>5 DEF EmitInv, PollInv

LEMMA SecretsStay ==
    ASSUME UNCHANGED code
    PROVE  \A c \in Codes : Secret(c)' = Secret(c)
  BY DEF Secret

LEMMA NewHandlerKeeps ==
    ASSUME PairingInv, NEW h \in Handlers,
           \/ \E c \in Codes : Redeem(h, c) \/ Poll(h, c)
           \/ Unpair(h)
           \/ \E s \in Sockets : MaybeRotate(h, s)
    PROVE  PairingInv'
<1> USE DEF PairingInv
<1>1. BaseInv'
  BY PairBase, UnpairBase, MaybeRotateBase
<1>2. /\ UNCHANGED <<now, code, credential, socket, key, stranded>> /\ handler[h] = Idle
      /\ \E pc \in {"findByCode", "capture", "revoke", "findActive"} :
            \E w : /\ handler' = [handler EXCEPT ![h] = w] /\ w.pc = pc
                   /\ pc = "capture" => socket = None
  <2>1. CASE \E c \in Codes : Redeem(h, c)
    BY <2>1 DEF Redeem, Work, tables, history
  <2>2. CASE \E c \in Codes : Poll(h, c)
    BY <2>2 DEF Poll, Work, tables, history
  <2>3. CASE Unpair(h)
    BY <2>3 DEF Unpair, Work, tables, history
  <2>4. CASE \E s \in Sockets : MaybeRotate(h, s)
    BY <2>4 DEF MaybeRotate, Work, tables, history
  <2> QED
    BY <2>1, <2>2, <2>3, <2>4
<1>3. /\ Others(h) /\ handler'[h].pc \in {"findByCode", "capture", "revoke", "findActive"}
      /\ handler'[h].pc = "capture" => socket = None
  BY <1>2 DEF Others, BaseInv, Types
<1>4. handler[h].pc \notin {"insert", "emit"}
  BY <1>2, IdleFacts
<1> QED
  BY <1>1, <1>2, <1>3, <1>4, SecretsStay, CredentialsStay, QuietKeeps DEF Polling

LEMMA FindKeeps ==
    ASSUME PairingInv, NEW h \in Handlers, FindByCode(h) \/ FindActive(h)
    PROVE  PairingInv'
<1> USE DEF PairingInv
<1>1. BaseInv'
  BY FindByCodeBase, FindActiveBase
<1>2. /\ UNCHANGED <<now, code, credential, socket, key, stranded>>
      /\ handler[h].pc \notin {"insert", "emit"}
  BY DEF FindByCode, FindActive, tables, history
<1>3. Others(h) /\ handler'[h].pc \in {"idle", "findActive", "commit", "insert", "supersede"}
  <2>1. CASE FindByCode(h)
    <3>1. handler[h] \in Handler
      BY <2>1, AtWork DEF FindByCode
    <3> QED
      BY <2>1, <3>1, IdleFacts DEF FindByCode, Others, BaseInv, Types, Handler
  <2>2. CASE FindActive(h)
    <3>1. handler[h] \in Handler
      BY <2>2, AtWork DEF FindActive
    <3> QED
      BY <2>2, <3>1, ZenonT(60) DEF FindActive, Others, BaseInv, Types, Handler
  <2> QED
    BY <2>1, <2>2
<1> QED
  BY <1>1, <1>2, <1>3, SecretsStay, CredentialsStay, QuietKeeps DEF Polling

LEMMA AbortKeeps ==
    ASSUME PairingInv, NEW h \in Handlers, Abort(h)
    PROVE  PairingInv'
<1> USE DEF PairingInv
<1>1. BaseInv'
  BY AbortBase
<1>2. /\ UNCHANGED <<now, code, credential, socket, key>>
      /\ handler' = [handler EXCEPT ![h] = Idle] /\ stranded \subseteq stranded'
      /\ handler[h].pc \in {"insert", "emit"} => handler[h].old \in stranded' \union {None}
  BY DEF Abort, tables
<1>3. Others(h) /\ handler'[h].pc = "idle"
  BY <1>2, IdleFacts DEF Others, BaseInv, Types
<1> QED
  BY <1>1, <1>2, <1>3, SecretsStay, CredentialsStay, QuietKeeps DEF Polling

\* A key that is revoked is nobody's worry.
LEMMA SaveRevokedKeeps ==
    ASSUME PairingInv, NEW h \in Handlers, SaveRevoked(h)
    PROVE  PairingInv'
<1> USE DEF PairingInv
<1>1. BaseInv'
  BY SaveRevokedBase
<1>2. HandlerOK(handler[h]) /\ handler[h].pc = "revoke" /\ handler[h] \in Handler
  BY AtWork DEF SaveRevoked
<1>3. PICK k \in Credentials : handler[h].old = k /\ k \in Stored
  BY <1>2 DEF HandlerOK, Handler
<1>4. /\ UNCHANGED <<now, code, socket, key, stranded>>
      /\ credential' = [credential EXCEPT ![k] = revoke(credential[k])]
      /\ handler' = [handler EXCEPT ![h] = Idle]
  BY <1>3 DEF SaveRevoked, history
<1>5. Others(h) /\ handler'[h].pc = "idle"
  BY <1>4, IdleFacts DEF Others, BaseInv, Types
<1>6. /\ credential'[k].status = "revoked" /\ Excused(k)'
      /\ \A j : j # k /\ j \in Credentials => credential'[j] = credential[j]
  <2>1. credential[k] \in CredentialRow
    BY <1>3 DEF BaseInv, Types, Stored
  <2>2. revoke(credential[k]).status = "revoked"
    BY <2>1, CredentialRows
  <2> QED
    BY <1>3, <1>4, <2>2 DEF BaseInv, Types, Excused
<1>7. \A j \in Stored : Excused(j) => Excused(j)'
  BY <1>4, <1>6 DEF Excused, Stored
<1>8. ASSUME NEW j, Usable(j)
      PROVE  Usable(j)'
  <2>1. j \in Stored /\ j \in Credentials
    BY <1>8 DEF Usable, Stored
  <2>2. Stored \subseteq Stored'
    <3>1. \A i \in Stored : credential'[i] # NoRow
      BY <1>3, <1>4, <1>6, CredentialRows DEF Stored, BaseInv, Types
    <3> QED
      BY <3>1 DEF Stored
  <2>3. CASE j = k
    BY <1>6, <2>1, <2>2, <2>3 DEF Usable
  <2>4. CASE j # k
    <3>1. credential'[j] = credential[j]
      BY <1>6, <2>1, <2>4
    <3>2. BeingReplaced(j) => BeingReplaced(j)'
      BY <1>2, <1>4, <1>5, <3>1 DEF BeingReplaced, Others
    <3> QED
      BY <1>7, <1>8, <2>1, <2>2, <3>2 DEF Usable
  <2> QED
    BY <2>3, <2>4
<1> QED
  BY <1>1, <1>4, <1>5, <1>7, <1>8, SecretsStay, QuietKeeps DEF Polling

\* A rotation begins: the agent's key is being replaced, any other is left behind.
LEMMA SupersedeOldKeeps ==
    ASSUME PairingInv, NEW h \in Handlers, SupersedeOld(h)
    PROVE  PairingInv'
<1> USE DEF PairingInv
<1>1. BaseInv'
  BY SupersedeOldBase
<1>2. HandlerOK(handler[h]) /\ handler[h].pc = "supersede" /\ handler[h] \in Handler
  BY AtWork DEF SupersedeOld
<1>3. PICK k \in Credentials : handler[h].old = k /\ k \in Stored /\ handler[h].at = now
  BY <1>2 DEF HandlerOK, Handler, Polling
<1>4. /\ UNCHANGED <<now, code, socket, key>>
      /\ credential' = [credential EXCEPT ![k] = supersede(credential[k], now)]
      /\ handler' = [handler EXCEPT ![h] = [handler[h] EXCEPT !.pc = "insert"]]
      /\ stranded' = IF key = k THEN stranded ELSE stranded \union {k}
  BY <1>3 DEF SupersedeOld
<1>5. Others(h) /\ handler'[h].pc = "insert" /\ handler'[h].old = k
  BY <1>2, <1>3, <1>4 DEF Others, BaseInv, Types, Handler
<1>6. /\ credential'[k] # NoRow /\ credential'[k].gracePeriodEndsAt > now
      /\ \A j \in Credentials : j # k => credential'[j] = credential[j]
  <2>1. credential[k] \in CredentialRow /\ now \in Time
    BY <1>3 DEF BaseInv, Types, Stored
  <2>2. supersede(credential[k], now) # NoRow
        /\ supersede(credential[k], now).gracePeriodEndsAt = now + GracePeriod
    BY <2>1, CredentialRows
  <2>3. now + GracePeriod > now
    BY <2>1, Bounds DEF Time
  <2> QED
    BY <1>3, <1>4, <2>2, <2>3 DEF BaseInv, Types
<1>7. \A j \in Stored : j # key /\ Excused(j) => Excused(j)'
  BY <1>4, <1>6 DEF Excused, Stored
<1>8. BeingReplaced(k)'
  BY <1>4, <1>5, <1>6 DEF BeingReplaced
<1>9. ASSUME NEW j, Usable(j)
      PROVE  Usable(j)'
  <2>1. j \in Stored /\ j \in Credentials
    BY <1>9 DEF Usable, Stored
  <2>2. j \in Stored'
    BY <1>6, <2>1 DEF Stored
  <2>3. CASE j = k
    BY <1>8, <2>2, <2>3 DEF Usable
  <2>4. CASE j # k
    <3>1. credential'[j] = credential[j]
      BY <1>6, <2>1, <2>4
    <3>2. BeingReplaced(j) => BeingReplaced(j)'
      BY <1>2, <1>4, <1>5, <3>1 DEF BeingReplaced, Others
    <3>3. Excused(j) => Excused(j)'
      BY <1>4, <3>1 DEF Excused
    <3> QED
      BY <1>9, <2>2, <3>2, <3>3 DEF Usable
  <2> QED
    BY <2>3, <2>4
<1> QED
  BY <1>1, <1>4, <1>5, <1>7, <1>9, SecretsStay, QuietKeeps DEF Polling

-----------------------------------------------------------------------------
(* Where keys are: steps that move one *)

\* A poll reads the secret of a row.
LEMMA CaptureSecretKeeps ==
    ASSUME PairingInv, NEW h \in Handlers, CaptureSecret(h)
    PROVE  PairingInv'
<1> USE DEF PairingInv
<1>1. BaseInv'
  BY CaptureSecretBase
<1>2. handler[h] \in Handler /\ HandlerOK(handler[h]) /\ handler[h].pc = "capture"
  BY AtWork DEF CaptureSecret
<1>3. UNCHANGED <<now, code, credential, socket, key, stranded>>
  BY DEF CaptureSecret, tables, history
<1>4. /\ \A k \in Stored : Excused(k) => Excused(k)'
      /\ (Others(h) => \A k : Usable(k) => Usable(k)')
  BY <1>2, <1>3, CredentialsStay DEF Excused
<1>5. CASE handler' = [handler EXCEPT ![h] = Idle]
  <2>1. Others(h) /\ handler'[h].pc = "idle"
    BY <1>5, IdleFacts DEF Others, BaseInv, Types
  <2> QED
    BY <1>1, <1>3, <1>4, <2>1, SecretsStay, QuietKeeps DEF Polling
<1>6. CASE code[handler[h].code].pendingSecret # None /\ handler' # [handler EXCEPT ![h] = Idle]
  <2>1. PICK c \in Codes : handler[h].code = c /\ code[c] # NoRow
    BY <1>2, Names DEF HandlerOK, Handler, Polling
  <2>2. /\ handler'[h].pc = "wipe" /\ handler'[h].new = Secret(c) /\ handler'[h].code = c
        /\ Others(h) /\ Secret(c) # None
    BY <1>2, <1>6, <2>1 DEF CaptureSecret, Secret, BaseInv, Types, Handler, Others
  <2>3. /\ Secret(c) \in Stored /\ Secret(c) # key /\ Excused(Secret(c))
        /\ \A d \in Codes : Secret(d) = Secret(c) => d = c
    BY <2>2 DEF SecretInv, BaseInv
  <2>4. SecretInv'
    BY <1>3, <1>4 DEF SecretInv, Secret, Excused
  <2>5. EmitInv'
    BY <1>3, <2>2, <2>3 DEF EmitInv, Others, Secret, Excused
  <2>6. PollInv'
    <3>1. ASSUME NEW g \in Handlers, handler'[g].pc \in {"wipe", "answer"}
          PROVE  /\ Usable(handler[g].new)'
                 /\ \A d \in Codes : Secret(d)' = handler'[g].new =>
                       (handler'[g].pc = "wipe" /\ handler'[g].code = d)
      <4>1. CASE g = h
        <5>1. Usable(Secret(c))
          BY <2>3 DEF Usable
        <5>2. Usable(handler[h].new)'
          BY <1>3, <1>4, <2>2, <5>1 DEF Usable, Excused, BeingReplaced, Stored
        <5> QED
          BY <1>3, <2>2, <2>3, <4>1, <5>2, SecretsStay
      <4>2. CASE g # h
        <5>1. handler'[g] = handler[g] /\ Usable(handler[g].new)
          BY <2>2, <3>1, <4>2 DEF Others, PollInv
        <5>2. Usable(handler[g].new)'
          BY <1>4, <2>2, <5>1 DEF Usable, Excused, BeingReplaced
        <5> QED
          BY <1>3, <3>1, <5>1, <5>2, SecretsStay DEF PollInv
      <4> QED
        BY <4>1, <4>2
    <3> QED
      BY <3>1 DEF PollInv
  <2>7. KeyInv'
    <3>1. key # None => Usable(key)'
      BY <1>3, <1>4, <2>2 DEF KeyInv, Usable, Excused, BeingReplaced
    <3> QED
      BY <1>2, <1>3, <2>2, <3>1 DEF KeyInv, Others, Polling
  <2> QED
    BY <1>1, <2>4, <2>5, <2>6, <2>7
<1>7. handler' = [handler EXCEPT ![h] = Idle] \/ code[handler[h].code].pendingSecret # None
  BY DEF CaptureSecret
<1> QED
  BY <1>5, <1>6, <1>7

\* ... and takes it off the row.
LEMMA WipeSecretKeeps ==
    ASSUME PairingInv, NEW h \in Handlers, WipeSecret(h)
    PROVE  PairingInv'
<1> USE DEF PairingInv
<1>1. BaseInv'
  BY WipeSecretBase
<1>2. /\ handler[h] \in Handler /\ HandlerOK(handler[h]) /\ handler[h].pc = "wipe"
      /\ UNCHANGED <<now, credential, socket, key, stranded>>
  BY WipeFacts, AtWork
<1>3. CASE UNCHANGED code /\ handler' = [handler EXCEPT ![h] = Idle]
  <2>1. Others(h) /\ handler'[h].pc = "idle"
    BY <1>3, IdleFacts DEF Others, BaseInv, Types
  <2> QED
    BY <1>1, <1>2, <1>3, <2>1, SecretsStay, CredentialsStay, QuietKeeps DEF Polling
<1>4. ASSUME NEW c \in Codes, handler[h].code = c, Secret(c) # None, code[c] \in CodeRow,
             code' = [code EXCEPT ![c] = [code[c] EXCEPT !.pendingSecret = None, !.delivered = TRUE]],
             handler' = [handler EXCEPT ![h] = [handler[h] EXCEPT !.pc = "answer"]]
      PROVE  PairingInv'
  <2>1. Secret(c)' = None /\ \A d \in Codes \ {c} : Secret(d)' = Secret(d)
    BY <1>4 DEF Secret, BaseInv, Types, CodeRow
  <2>2. /\ handler'[h].pc = "answer" /\ handler'[h].new = handler[h].new /\ Others(h)
    BY <1>2, <1>4 DEF BaseInv, Types, Handler, Others
  <2>3. /\ \A k \in Stored : Excused(k) => Excused(k)'
        /\ \A k : Usable(k) => Usable(k)'
    BY <1>2, <2>2, CredentialsStay
  <2>4. SecretInv'
    BY <1>2, <2>1, <2>3 DEF SecretInv, BaseInv, Excused
  <2>5. EmitInv'
    <3>1. ASSUME NEW g \in Handlers, handler'[g].pc = "emit"
          PROVE  /\ handler'[g].new # key' /\ Excused(handler[g].new)'
                 /\ \A d \in Codes : Secret(d)' # handler'[g].new
                 /\ \A f \in Handlers \ {g} :
                       handler'[f].pc \in {"wipe", "answer", "emit"} => handler'[f].new # handler'[g].new
      <4>1. g # h /\ handler'[g] = handler[g]
        BY <2>2, <3>1 DEF Others
      <4>2. handler[g].new \in Stored
        BY <3>1, <4>1, AtWork DEF HandlerOK
      <4>3. handler[g].new # None
        BY <4>2, Names DEF Stored
      <4>4. \A f \in Handlers \ {g} :
                handler'[f].pc \in {"wipe", "answer", "emit"} =>
                    handler[f].pc \in {"wipe", "answer", "emit"} /\ handler'[f].new = handler[f].new
        BY <1>2, <2>2 DEF Others
      <4> QED
        BY <1>2, <2>1, <3>1, <4>1, <4>3, <4>4 DEF EmitInv, Excused
    <3> QED
      BY <3>1 DEF EmitInv
  <2>6. PollInv'
    <3>1. ASSUME NEW g \in Handlers, handler'[g].pc \in {"wipe", "answer"}
          PROVE  /\ Usable(handler[g].new)'
                 /\ \A d \in Codes : Secret(d)' = handler'[g].new =>
                       (handler'[g].pc = "wipe" /\ handler'[g].code = d)
      <4>1. handler[g].pc \in {"wipe", "answer"} /\ handler'[g].new = handler[g].new
        BY <1>2, <2>2, <3>1 DEF Others
      <4>2. Usable(handler[g].new)'
        BY <2>3, <4>1 DEF PollInv, Usable, Excused, BeingReplaced
      <4>3. handler[g].new # None
        BY <4>1, Names DEF PollInv, Usable, Stored
      <4> QED
        BY <1>4, <2>1, <2>2, <3>1, <4>1, <4>2, <4>3 DEF PollInv, Others
    <3> QED
      BY <3>1 DEF PollInv
  <2>7. KeyInv'
    <3>1. key # None => Usable(key)'
      BY <1>2, <2>3 DEF KeyInv, Usable, Excused, BeingReplaced
    <3> QED
      BY <1>2, <2>2, <3>1 DEF KeyInv, Others, Polling
  <2> QED
    BY <1>1, <2>4, <2>5, <2>6, <2>7
<1> QED
  BY <1>3, <1>4, WipeFacts

\* The agent has the key that a poll wiped.
LEMMA AnswerPollKeeps ==
    ASSUME PairingInv, NEW h \in Handlers, AnswerPoll(h)
    PROVE  PairingInv'
<1> USE DEF PairingInv
<1>1. BaseInv'
  BY AnswerPollBase
<1>2. /\ UNCHANGED <<now, code, credential, socket, stranded>>
      /\ handler' = [handler EXCEPT ![h] = Idle] /\ handler[h].pc = "answer"
      /\ key' \in {key, handler[h].new}
  BY DEF AnswerPoll, tables
<1>3. Others(h) /\ handler'[h].pc = "idle"
  BY <1>2, IdleFacts DEF Others, BaseInv, Types
<1>4. CASE key' = key
  BY <1>1, <1>2, <1>3, <1>4, SecretsStay, CredentialsStay, QuietKeeps DEF Polling
<1>5. CASE key' = handler[h].new
  <2>1. /\ \A k \in Stored : Excused(k) => Excused(k)'
        /\ \A k : Usable(k) => Usable(k)'
    BY <1>2, <1>3, CredentialsStay
  <2>2. \A c \in Codes : Secret(c)' = Secret(c) /\ Secret(c) # key'
    BY <1>2, <1>5, SecretsStay DEF PollInv
  <2>3. SecretInv'
    BY <2>1, <2>2 DEF SecretInv, BaseInv, Excused
  <2>4. EmitInv'
    <3>1. ASSUME NEW g \in Handlers, handler'[g].pc = "emit"
          PROVE  /\ handler'[g].new # key' /\ Excused(handler[g].new)'
                 /\ \A c \in Codes : Secret(c)' # handler'[g].new
                 /\ \A f \in Handlers \ {g} :
                       handler'[f].pc \in {"wipe", "answer", "emit"} => handler'[f].new # handler'[g].new
      <4>1. g # h /\ handler'[g] = handler[g]
        BY <1>3, <3>1 DEF Others
      <4> QED
        BY <1>2, <1>3, <1>5, <2>2, <3>1, <4>1 DEF EmitInv, Others, Excused
    <3> QED
      BY <3>1 DEF EmitInv
  <2>5. PollInv'
    <3>1. ASSUME NEW g \in Handlers, handler'[g].pc \in {"wipe", "answer"}
          PROVE  /\ Usable(handler[g].new)'
                 /\ \A d \in Codes : Secret(d)' = handler'[g].new =>
                       (handler'[g].pc = "wipe" /\ handler'[g].code = d)
      <4>1. handler'[g] = handler[g]
        BY <1>3, <3>1 DEF Others
      <4>2. Usable(handler[g].new)'
        BY <2>1, <3>1, <4>1 DEF PollInv, Usable, Excused, BeingReplaced
      <4> QED
        BY <2>2, <3>1, <4>1, <4>2 DEF PollInv
    <3> QED
      BY <3>1 DEF PollInv
  <2>6. KeyInv'
    <3>1. Usable(key)'
      BY <1>2, <1>5, <2>1 DEF PollInv, Usable, Excused, BeingReplaced
    <3> QED
      BY <1>2, <1>3, <3>1 DEF KeyInv, Others, Polling
  <2> QED
    BY <1>1, <2>3, <2>4, <2>5, <2>6
<1> QED
  BY <1>2, <1>4, <1>5

LEMMA RedemptionSecret ==
    ASSUME BaseInv, NEW h \in Handlers, NEW k \in Credentials, NEW c \in Codes,
           NEW old \in Credentials \union {None}, RedemptionEffect(h, k, c, old)
    PROVE  Secret(c)' = k /\ \A d \in Codes \ {c} : Secret(d)' = Secret(d)
<1> USE DEF BaseInv, Types
<1>1. PICK d \in BOOLEAN :
          code' = [code EXCEPT ![c] = [Consumed(code[c], k, now) EXCEPT !.delivered = d]]
  BY DEF RedemptionEffect
<1>2. code[c] \in CodeRow /\ now \in Time
  BY DEF RedemptionEffect
<1>3. PICK row \in CodeRow :
          row = [Consumed(code[c], k, now) EXCEPT !.delivered = d] /\ row.pendingSecret = k
  <2>1. \A r \in CodeRow, at \in Time :
            /\ [Consumed(r, k, at) EXCEPT !.delivered = d] \in CodeRow
            /\ [Consumed(r, k, at) EXCEPT !.delivered = d].pendingSecret = k
    BY CodeRows
  <2> QED
    BY <1>2, <2>1
<1>4. row # NoRow /\ code' = [code EXCEPT ![c] = row]
  BY <1>1, <1>3, CodeRows
<1> QED
  BY <1>3, <1>4 DEF Secret

\* A redemption puts a new key on the row; the one it supersedes is left behind.
LEMMA CommitRedemptionKeeps ==
    ASSUME PairingInv, NEW h \in Handlers, CommitRedemption(h)
    PROVE  PairingInv'
<1> USE DEF PairingInv
<1>1. BaseInv'
  BY CommitRedemptionBase
<1>2. PICK k \in Credentials, c \in Codes, old \in Credentials \union {None} :
          RedemptionEffect(h, k, c, old)
  BY RedemptionFacts
<1>3. Others(h) /\ handler'[h].pc = "idle" /\ handler[h].pc = "commit" /\ UNCHANGED <<now, socket, key>>
  BY <1>2, IdleFacts DEF RedemptionEffect, Others, BaseInv, Types
<1>4. Secret(c)' = k /\ \A d \in Codes \ {c} : Secret(d)' = Secret(d)
  BY <1>2, RedemptionSecret
<1>5. /\ \A j \in Stored : j # old => credential'[j] = credential[j]
      /\ credential'[k].status = "active" /\ k \notin Stored
      /\ stranded' = stranded \union ({old} \ {None})
  <2>1. now \in Time
    BY DEF BaseInv, Types
  <2> QED
    BY <1>2, <2>1, CredentialRows DEF RedemptionEffect, Stored
<1>6. \A j \in Stored \union {k} : (Excused(j) \/ j = k) => Excused(j)'
  <2>1. Excused(k)'
    BY <1>5 DEF Excused
  <2>2. ASSUME NEW j \in Stored, Excused(j)
        PROVE  Excused(j)'
    <3>1. j # None
      BY Names DEF Stored
    <3> QED
      BY <1>5, <2>2, <3>1 DEF Excused
  <2> QED
    BY <2>1, <2>2
<1>7. ASSUME NEW j, Usable(j)
      PROVE  Usable(j)'
  <2>1. j \in Stored /\ j # None
    BY <1>7, Names DEF Usable, Stored
  <2>2. j \in Stored'
    <3>1. Stored \subseteq Stored'
      <4>1. \A i \in Stored : credential'[i] # NoRow
        <5>1. \A i \in Stored : credential[i] \in CredentialRow
          BY DEF Stored, BaseInv, Types
        <5>2. now \in Time
          BY DEF BaseInv, Types
        <5> QED
          BY <1>2, <5>1, <5>2, CredentialRows DEF RedemptionEffect, Stored
      <4> QED
        BY <4>1 DEF Stored
    <3> QED
      BY <2>1, <3>1
  <2>3. CASE j = old
    BY <1>5, <2>1, <2>2, <2>3 DEF Usable, Excused
  <2>4. CASE j # old
    <3>1. credential'[j] = credential[j]
      BY <1>5, <2>1, <2>4
    <3>2. BeingReplaced(j) => BeingReplaced(j)'
      BY <1>3, <3>1 DEF BeingReplaced, Others
    <3> QED
      BY <1>6, <1>7, <2>1, <2>2, <3>2 DEF Usable
  <2> QED
    BY <2>3, <2>4
<1>8. key # k /\ \A d \in Codes : Secret(d) # k
  <2>1. k # None /\ k \notin Stored
    BY <1>5, Names
  <2>2. key # None => key \in Stored
    BY DEF KeyInv, Usable
  <2>3. \A d \in Codes : Secret(d) # None => Secret(d) \in Stored
    BY DEF BaseInv
  <2> QED
    BY <2>1, <2>2, <2>3
<1>9. ASSUME NEW g \in Handlers, handler'[g].pc \in {"wipe", "answer", "emit"}
      PROVE  handler'[g] = handler[g] /\ handler[g].new \in Stored /\ handler[g].new # k
  <2>1. g # h /\ handler'[g] = handler[g]
    BY <1>3, <1>9 DEF Others
  <2>2. HandlerOK(handler[g])
    BY <1>9, <2>1, AtWork
  <2> QED
    BY <1>5, <1>9, <2>1, <2>2 DEF HandlerOK
<1>10. SecretInv'
  <2>1. ASSUME NEW d \in Codes, Secret(d)' # None
        PROVE  /\ Secret(d)' # key' /\ Excused(Secret(d))'
               /\ \A e \in Codes : Secret(e)' = Secret(d)' => e = d
    <3>1. CASE d = c
      <4>1. Excused(Secret(d))'
        BY <1>4, <1>5, <3>1 DEF Excused
      <4> QED
        BY <1>3, <1>4, <1>8, <3>1, <4>1
    <3>2. CASE d # c
      <4>1. Secret(d)' = Secret(d) /\ Secret(d) \in Stored /\ Excused(Secret(d))
        BY <1>4, <2>1, <3>2 DEF BaseInv, SecretInv
      <4>2. Excused(Secret(d))'
        BY <1>6, <4>1 DEF Excused
      <4> QED
        BY <1>3, <1>4, <1>8, <2>1, <4>1, <4>2 DEF SecretInv
    <3> QED
      BY <3>1, <3>2
  <2> QED
    BY <2>1 DEF SecretInv
<1>11. EmitInv'
  <2>1. ASSUME NEW g \in Handlers, handler'[g].pc = "emit"
        PROVE  /\ handler'[g].new # key' /\ Excused(handler[g].new)'
               /\ \A d \in Codes : Secret(d)' # handler'[g].new
               /\ \A f \in Handlers \ {g} :
                     handler'[f].pc \in {"wipe", "answer", "emit"} => handler'[f].new # handler'[g].new
    <3>1. Excused(handler[g].new)'
      BY <1>6, <1>9, <2>1 DEF EmitInv, Excused
    <3> QED
      BY <1>3, <1>4, <1>9, <2>1, <3>1 DEF EmitInv
  <2> QED
    BY <2>1 DEF EmitInv
<1>12. PollInv'
  <2>1. ASSUME NEW g \in Handlers, handler'[g].pc \in {"wipe", "answer"}
        PROVE  /\ Usable(handler[g].new)'
               /\ \A d \in Codes : Secret(d)' = handler'[g].new =>
                     (handler'[g].pc = "wipe" /\ handler'[g].code = d)
    <3>1. Usable(handler[g].new)'
      BY <1>7, <1>9, <2>1 DEF PollInv, Usable, Excused, BeingReplaced
    <3> QED
      BY <1>4, <1>9, <2>1, <3>1 DEF PollInv
  <2> QED
    BY <2>1 DEF PollInv
<1>13. KeyInv'
  <2>1. key # None => Usable(key)'
    BY <1>3, <1>7 DEF KeyInv, Usable, Excused, BeingReplaced
  <2> QED
    BY <1>3, <2>1 DEF KeyInv, Others, Polling
<1> QED
  BY <1>1, <1>10, <1>11, <1>12, <1>13

\* A rotation issues the successor: nobody has it yet.
LEMMA InsertNewKeeps ==
    ASSUME PairingInv, NEW h \in Handlers, InsertNew(h)
    PROVE  PairingInv'
<1> USE DEF PairingInv
<1>1. BaseInv'
  BY InsertNewBase
<1>2. PICK k \in Credentials :
          /\ k \notin Stored /\ handler[h].pc = "insert"
          /\ credential' = [credential EXCEPT ![k] = issue(now)]
          /\ handler' = [handler EXCEPT ![h] = [handler[h] EXCEPT !.pc = "emit", !.new = k]]
          /\ UNCHANGED <<now, code, attempts, connected, socket, key, handedOut, redemptions,
                         stranded, faults>>
  BY InsertFacts
<1>3. handler[h] \in Handler
  BY <1>2, AtWork
<1>4. /\ Others(h) /\ handler'[h].pc = "emit" /\ handler'[h].new = k
      /\ handler'[h].old = handler[h].old
  BY <1>2, <1>3 DEF Others, BaseInv, Types, Handler
<1>5. /\ \A j \in Stored : credential'[j] = credential[j] /\ j \in Stored'
      /\ Excused(k)'
  <2>1. issue(now).status = "active"
    BY CredentialRows DEF BaseInv, Types
  <2> QED
    BY <1>2, <2>1 DEF Stored, Excused, BaseInv, Types
<1>6. \A j \in Stored : Excused(j) => Excused(j)'
  BY <1>2, <1>5 DEF Excused
<1>7. ASSUME NEW j, Usable(j)
      PROVE  Usable(j)'
  <2>1. j \in Stored /\ credential'[j] = credential[j] /\ j \in Stored'
    BY <1>5, <1>7 DEF Usable
  <2>2. BeingReplaced(j) => BeingReplaced(j)'
    BY <1>2, <1>4, <2>1 DEF BeingReplaced, Others
  <2> QED
    BY <1>6, <1>7, <2>1, <2>2 DEF Usable
<1>8. key # k /\ \A d \in Codes : Secret(d) # k
  BY <1>2, Names DEF KeyInv, Usable, BaseInv
<1>9. ASSUME NEW g \in Handlers \ {h}, handler'[g].pc \in {"wipe", "answer", "emit"}
      PROVE  handler'[g] = handler[g] /\ handler[g].new \in Stored /\ handler[g].new # k
  <2>1. handler'[g] = handler[g]
    BY <1>4 DEF Others
  <2>2. HandlerOK(handler[g])
    BY <1>9, <2>1, AtWork
  <2> QED
    BY <1>2, <1>9, <2>1, <2>2 DEF HandlerOK
<1>10. SecretInv'
  BY <1>2, <1>6, SecretsStay DEF SecretInv, BaseInv, Excused
<1>11. EmitInv'
  <2>1. ASSUME NEW g \in Handlers, handler'[g].pc = "emit"
        PROVE  /\ handler'[g].new # key' /\ Excused(handler[g].new)'
               /\ \A d \in Codes : Secret(d)' # handler'[g].new
               /\ \A f \in Handlers \ {g} :
                     handler'[f].pc \in {"wipe", "answer", "emit"} => handler'[f].new # handler'[g].new
    <3>1. CASE g = h
      <4>1. Excused(handler[h].new)'
        BY <1>4, <1>5 DEF Excused
      <4> QED
        BY <1>2, <1>4, <1>8, <1>9, <3>1, <4>1, SecretsStay
    <3>2. CASE g # h
      <4>1. handler'[g] = handler[g] /\ handler[g].new \in Stored /\ handler[g].new # k
        BY <1>9, <2>1, <3>2
      <4>2. Excused(handler[g].new)'
        BY <1>6, <2>1, <4>1 DEF EmitInv, Excused
      <4>3. \A d \in Codes : Secret(d)' # handler[g].new
        BY <1>2, <2>1, <4>1, SecretsStay DEF EmitInv
      <4>4. \A f \in Handlers \ {g} :
                handler'[f].pc \in {"wipe", "answer", "emit"} => handler'[f].new # handler[g].new
        BY <1>4, <1>9, <2>1, <4>1 DEF EmitInv
      <4> QED
        BY <1>2, <2>1, <4>1, <4>2, <4>3, <4>4 DEF EmitInv
    <3> QED
      BY <3>1, <3>2
  <2> QED
    BY <2>1 DEF EmitInv
<1>12. PollInv'
  <2>1. ASSUME NEW g \in Handlers, handler'[g].pc \in {"wipe", "answer"}
        PROVE  /\ Usable(handler[g].new)'
               /\ \A d \in Codes : Secret(d)' = handler'[g].new =>
                     (handler'[g].pc = "wipe" /\ handler'[g].code = d)
    <3>1. g # h /\ handler'[g] = handler[g]
      BY <1>4, <2>1 DEF Others
    <3>2. Usable(handler[g].new)'
      BY <1>7, <2>1, <3>1 DEF PollInv, Usable, Excused, BeingReplaced
    <3> QED
      BY <1>2, <2>1, <3>1, <3>2, SecretsStay DEF PollInv
  <2> QED
    BY <2>1 DEF PollInv
<1>13. KeyInv'
  <2>1. key # None => Usable(key)'
    BY <1>2, <1>7 DEF KeyInv, Usable, Excused, BeingReplaced
  <2> QED
    BY <1>2, <1>4, <2>1 DEF KeyInv, Others, Polling
<1> QED
  BY <1>1, <1>10, <1>11, <1>12, <1>13

\* The agent hears of the successor, and no poll is left that could bring it another
\* key; or the successor is lost, and the key it had is left behind.
LEMMA EmitRotatedKeeps ==
    ASSUME PairingInv, NEW h \in Handlers, EmitRotated(h)
    PROVE  PairingInv'
<1> USE DEF PairingInv
<1>1. BaseInv'
  BY EmitRotatedBase
<1>2. /\ UNCHANGED <<now, code, credential, socket>> /\ stranded \subseteq stranded'
      /\ handler' = [handler EXCEPT ![h] = Idle] /\ handler[h].pc = "emit"
      /\ \/ key' = handler[h].new /\ socket = handler[h].socket
         \/ key' = key /\ handler[h].old \in stranded' \union {None}
  BY DEF EmitRotated, tables
<1>3. Others(h) /\ handler'[h].pc = "idle"
  BY <1>2, IdleFacts DEF Others, BaseInv, Types
<1>4. CASE key' = key /\ handler[h].old \in stranded' \union {None}
  BY <1>1, <1>2, <1>3, <1>4, SecretsStay, CredentialsStay, QuietKeeps DEF Polling
<1>5. CASE key' = handler[h].new /\ socket = handler[h].socket
  <2>1. HandlerOK(handler[h]) /\ handler[h].new \in Stored
    BY <1>2, AtWork DEF HandlerOK
  <2>2. \A g \in Handlers : handler[g].pc \notin Polling
    BY <1>2, <1>5, <2>1 DEF KeyInv, HandlerOK
  <2>3. \A j : Excused(j) => Excused(j)'
    BY <1>2 DEF Excused
  <2>4. Stored' = Stored
    BY <1>2 DEF Stored
  <2>5. SecretInv'
    BY <1>2, <1>5, <2>3, SecretsStay DEF SecretInv, EmitInv, Excused
  <2>6. EmitInv'
    <3>1. ASSUME NEW g \in Handlers, handler'[g].pc = "emit"
          PROVE  /\ handler'[g].new # key' /\ Excused(handler[g].new)'
                 /\ \A c \in Codes : Secret(c)' # handler'[g].new
                 /\ \A f \in Handlers \ {g} :
                       handler'[f].pc \in {"wipe", "answer", "emit"} => handler'[f].new # handler'[g].new
      <4>1. g # h /\ handler'[g] = handler[g]
        BY <1>3, <3>1 DEF Others
      <4> QED
        BY <1>2, <1>3, <1>5, <2>3, <3>1, <4>1, SecretsStay DEF EmitInv, Others, Excused
    <3> QED
      BY <3>1 DEF EmitInv
  <2>7. \A g \in Handlers : handler'[g].pc \notin Polling
    BY <1>3, <2>2 DEF Others, Polling
  <2>8. PollInv'
    BY <2>7 DEF PollInv, Polling
  <2>9. KeyInv'
    <3>1. Excused(handler[h].new)
      BY <1>2 DEF EmitInv
    <3>2. Usable(key)'
      BY <1>5, <2>1, <2>3, <2>4, <3>1 DEF Usable, Excused
    <3> QED
      BY <2>7, <3>2 DEF KeyInv
  <2> QED
    BY <1>1, <2>5, <2>6, <2>8, <2>9
<1> QED
  BY <1>2, <1>4, <1>5

\* Codes, sockets and time, whose steps leave the handlers alone.
LEMMA StillKeeps ==
    ASSUME PairingInv, BaseInv', UNCHANGED <<credential, handler, key, stranded>>,
           \A c \in Codes : Secret(c)' = Secret(c),
           now' # now => \A h \in Handlers : handler[h].pc \notin {"insert", "emit"},
           socket' # None => \A h \in Handlers : handler[h].pc \notin Polling
    PROVE  PairingInv'
<1> USE DEF PairingInv
<1>1. Stored' = Stored /\ \A k : Excused(k) => Excused(k)'
  BY DEF Stored, Excused
<1>2. \A k : Usable(k) => Usable(k)'
  BY <1>1 DEF Usable, BeingReplaced
<1>3. SecretInv'
  BY <1>1 DEF SecretInv, Excused
<1>4. EmitInv'
  BY <1>1 DEF EmitInv, Excused
<1>5. PollInv'
  BY <1>1, <1>2 DEF PollInv, Usable, BeingReplaced, Excused
<1>6. KeyInv'
  BY <1>1, <1>2 DEF KeyInv, Usable, BeingReplaced, Excused
<1> QED
  BY <1>3, <1>4, <1>5, <1>6

LEMMA SurroundingsKeep ==
    ASSUME PairingInv,
           \/ \E c \in Codes : IssuePairingCode(c)
           \/ \E s \in Sockets : Connect(s) \/ HandleDisconnect(s)
           \/ Tick
    PROVE  PairingInv'
<1> USE DEF PairingInv
<1>1. BaseInv'
  BY IssuePairingCodeBase, SocketBase, TickBase
<1>2. CASE \E c \in Codes : IssuePairingCode(c)
  <2>1. PICK c \in Codes : IssuePairingCode(c)
    BY <1>2
  <2>2. \A d \in Codes : Secret(d)' = Secret(d)
    BY <2>1, CodeRows DEF IssuePairingCode, Secret, BaseInv, Types
  <2> QED
    BY <1>1, <2>1, <2>2, StillKeeps DEF IssuePairingCode, KeyInv, history
<1>3. CASE \E s \in Sockets : Connect(s) \/ HandleDisconnect(s)
  <2>1. /\ UNCHANGED <<now, code, credential, handler, key, stranded>>
        /\ socket' # None => \A h \in Handlers : handler[h].pc \notin Polling
    BY <1>3 DEF Connect, HandleDisconnect, KeyInv, tables, history
  <2> QED
    BY <1>1, <2>1, SecretsStay, StillKeeps
<1>4. CASE Tick
  BY <1>1, <1>4, SecretsStay, StillKeeps DEF Tick, KeyInv, Polling, tables, history
<1> QED
  BY <1>2, <1>3, <1>4

LEMMA PairingStep ==
    ASSUME PairingInv, [Next]_vars
    PROVE  PairingInv'
<1>1. CASE Next
  BY <1>1, NewHandlerKeeps, FindKeeps, CommitRedemptionKeeps, CaptureSecretKeeps, WipeSecretKeeps,
     AnswerPollKeeps, SupersedeOldKeeps, InsertNewKeeps, EmitRotatedKeeps, SaveRevokedKeeps,
     AbortKeeps, SurroundingsKeep DEF Next
<1>2. CASE UNCHANGED vars
  <2>1. UNCHANGED <<now, code, credential, attempts, handler, connected, socket, key, handedOut,
                    redemptions, stranded, faults>>
    BY <1>2 DEF vars, tables, history
  <2>2. Types'
    BY <2>1 DEF PairingInv, BaseInv, Types
  <2>3. BaseInv'
    BY <2>1, <2>2, RowsUnchanged, NoHandlerBase DEF PairingInv
  <2> QED
    BY <2>1, <2>3, SecretsStay, StillKeeps DEF PairingInv, KeyInv
<1> QED
  BY <1>1, <1>2

-----------------------------------------------------------------------------
(* What a step does to the handlers *)

LEMMA HandlerSteps ==
    ASSUME BaseInv, NEW h \in Handlers,
           \/ FindByCode(h) \/ FindActive(h) \/ CommitRedemption(h) \/ AnswerPoll(h)
           \/ SupersedeOld(h) \/ InsertNew(h) \/ EmitRotated(h) \/ SaveRevoked(h) \/ Abort(h)
           \/ Unpair(h) \/ \E s \in Sockets : MaybeRotate(h, s)
    PROVE  Others(h) /\ handler'[h].pc \notin Polling \union {"findByCode"}
<1> USE DEF BaseInv, Types
<1>1. ASSUME handler' = [handler EXCEPT ![h] = Idle]
      PROVE  Others(h) /\ handler'[h].pc \notin Polling \union {"findByCode"}
  BY <1>1, IdleFacts DEF Others, Polling
<1>2. ASSUME NEW w \in Handler, NEW pc \in {"findActive", "commit", "supersede", "insert", "emit", "revoke"},
             handler' = [handler EXCEPT ![h] = w], w.pc = pc
      PROVE  Others(h) /\ handler'[h].pc \notin Polling \union {"findByCode"}
  BY <1>2 DEF Others, Polling
<1>3. CASE FindByCode(h)
  <2>1. handler[h] \in Handler
    BY <1>3, AtWork DEF FindByCode
  <2>2. \/ handler' = [handler EXCEPT ![h] = Idle]
        \/ handler' = [handler EXCEPT ![h] = [handler[h] EXCEPT !.pc = "findActive"]]
    BY <1>3 DEF FindByCode
  <2>3. [handler[h] EXCEPT !.pc = "findActive"] \in Handler
    BY <2>1 DEF Handler
  <2>4. [handler[h] EXCEPT !.pc = "findActive"].pc = "findActive"
    BY <2>1 DEF Handler
  <2> QED
    BY <1>1, <1>2, <2>2, <2>3, <2>4
<1>4. CASE FindActive(h)
  <2>1. handler[h] \in Handler
    BY <1>4, AtWork DEF FindActive
  <2>2. PICK k \in Credentials \union {None}, pc \in {"commit", "insert", "supersede"} :
            handler' = [handler EXCEPT ![h] = [handler[h] EXCEPT !.old = k, !.pc = pc]]
    BY <1>4 DEF FindActive
  <2>3. /\ [handler[h] EXCEPT !.old = k, !.pc = pc] \in Handler
        /\ [handler[h] EXCEPT !.old = k, !.pc = pc].pc = pc
    <3>1. PICK x \in Handler : x = handler[h]
      BY <2>1
    <3>2. [x EXCEPT !.old = k, !.pc = pc] \in Handler
      BY DEF Handler
    <3>3. [x EXCEPT !.old = k, !.pc = pc].pc = pc
      BY DEF Handler
    <3> QED
      BY <3>1, <3>2, <3>3
  <2> QED
    BY <1>2, <2>2, <2>3
<1>5. CASE CommitRedemption(h) \/ AnswerPoll(h) \/ EmitRotated(h) \/ SaveRevoked(h) \/ Abort(h)
  BY <1>1, <1>5 DEF CommitRedemption, AnswerPoll, EmitRotated, SaveRevoked, Abort
<1>6. CASE SupersedeOld(h)
  <2>1. handler[h] \in Handler
    BY <1>6, AtWork DEF SupersedeOld
  <2>2. handler' = [handler EXCEPT ![h] = [handler[h] EXCEPT !.pc = "insert"]]
    BY <1>6 DEF SupersedeOld
  <2>3. /\ [handler[h] EXCEPT !.pc = "insert"] \in Handler
        /\ [handler[h] EXCEPT !.pc = "insert"].pc = "insert"
    BY <2>1 DEF Handler
  <2> QED
    BY <1>2, <2>2, <2>3
<1>7. CASE InsertNew(h)
  <2>1. handler[h] \in Handler
    BY <1>7, AtWork DEF InsertNew
  <2>2. PICK k \in Credentials :
            handler' = [handler EXCEPT ![h] = [handler[h] EXCEPT !.pc = "emit", !.new = k]]
    BY <1>7, InsertFacts
  <2>3. /\ [handler[h] EXCEPT !.pc = "emit", !.new = k] \in Handler
        /\ [handler[h] EXCEPT !.pc = "emit", !.new = k].pc = "emit"
    BY <2>1 DEF Handler
  <2> QED
    BY <1>2, <2>2, <2>3
<1>8. CASE Unpair(h)
  <2>1. PICK k \in Active : handler' = [handler EXCEPT ![h] = [Work("revoke") EXCEPT !.old = k]]
    BY <1>8 DEF Unpair
  <2>2. k \in Credentials
    BY <2>1 DEF Active, Stored
  <2>3. /\ [Work("revoke") EXCEPT !.old = k] \in Handler
        /\ [Work("revoke") EXCEPT !.old = k].pc = "revoke"
    BY <2>2, Bounds DEF Work, Handler, Deadline, Time
  <2> QED
    BY <1>2, <2>1, <2>3
<1>9. CASE \E s \in Sockets : MaybeRotate(h, s)
  <2>1. PICK s \in Sockets :
            handler' = [handler EXCEPT ![h] = [Work("findActive") EXCEPT !.socket = s]]
    BY <1>9 DEF MaybeRotate
  <2>2. /\ [Work("findActive") EXCEPT !.socket = s] \in Handler
        /\ [Work("findActive") EXCEPT !.socket = s].pc = "findActive"
    BY Bounds DEF Work, Handler, Deadline, Time
  <2> QED
    BY <1>2, <2>1, <2>2
<1> QED
  BY <1>3, <1>4, <1>5, <1>6, <1>7, <1>8, <1>9

LEMMA PairSteps ==
    ASSUME BaseInv, NEW h \in Handlers, NEW c \in Codes, Redeem(h, c) \/ Poll(h, c)
    PROVE  /\ Others(h) /\ handler'[h].code = c
           /\ handler'[h].pc = IF Redeem(h, c) THEN "findByCode" ELSE "capture"
<1> USE DEF BaseInv, Types
<1>1. /\ [Work("findByCode") EXCEPT !.code = c].pc = "findByCode"
      /\ [Work("findByCode") EXCEPT !.code = c].code = c
      /\ [Work("capture") EXCEPT !.code = c].pc = "capture"
      /\ [Work("capture") EXCEPT !.code = c].code = c
  BY DEF Work
<1>2. CASE Redeem(h, c)
  <2>1. handler' = [handler EXCEPT ![h] = [Work("findByCode") EXCEPT !.code = c]]
    BY <1>2 DEF Redeem
  <2> QED
    BY <1>1, <1>2, <2>1 DEF Others
<1>3. CASE Poll(h, c) /\ ~Redeem(h, c)
  <2>1. handler' = [handler EXCEPT ![h] = [Work("capture") EXCEPT !.code = c]]
    BY <1>3 DEF Poll
  <2> QED
    BY <1>1, <1>3, <2>1 DEF Others
<1> QED
  BY <1>2, <1>3

LEMMA CaptureFacts ==
    ASSUME BaseInv, NEW h \in Handlers, CaptureSecret(h)
    PROVE  /\ Others(h) /\ handler[h].pc = "capture"
           /\ UNCHANGED <<code, credential, attempts, handedOut, redemptions>>
           /\ \/ handler'[h].pc = "idle"
              \/ /\ handler'[h].pc = "wipe" /\ handler'[h].code = handler[h].code
                 /\ handler'[h].new = Secret(handler[h].code)
<1>1. handler[h] \in Handler /\ HandlerOK(handler[h]) /\ handler[h].pc = "capture"
  BY AtWork DEF CaptureSecret
<1>2. PICK c \in Codes : handler[h].code = c /\ code[c] # NoRow
  BY <1>1, Names DEF HandlerOK, Handler, Polling
<1>3. UNCHANGED <<code, credential, attempts, handedOut, redemptions>>
  BY DEF CaptureSecret, tables, history
<1>4. CASE handler' = [handler EXCEPT ![h] = Idle]
  BY <1>1, <1>3, <1>4, IdleFacts DEF Others, BaseInv, Types
<1>5. CASE handler' = [handler EXCEPT ![h] = [handler[h] EXCEPT
                          !.pc = "wipe", !.new = code[c].pendingSecret,
                          !.expiresAt = code[c].pendingSecretExpiresAt]]
  <2>1. handler'[h] = [handler[h] EXCEPT !.pc = "wipe", !.new = code[c].pendingSecret,
                                         !.expiresAt = code[c].pendingSecretExpiresAt]
    BY <1>5 DEF BaseInv, Types
  <2>2. /\ handler'[h].pc = "wipe" /\ handler'[h].code = c
        /\ handler'[h].new = code[c].pendingSecret
    BY <1>1, <1>2, <2>1 DEF Handler
  <2>3. Others(h)
    BY <1>5 DEF Others, BaseInv, Types
  <2> QED
    BY <1>1, <1>2, <1>3, <2>2, <2>3 DEF Secret
<1>6. \/ handler' = [handler EXCEPT ![h] = Idle]
      \/ handler' = [handler EXCEPT ![h] = [handler[h] EXCEPT
                        !.pc = "wipe", !.new = code[c].pendingSecret,
                        !.expiresAt = code[c].pendingSecretExpiresAt]]
  BY <1>2 DEF CaptureSecret
<1> QED
  BY <1>4, <1>5, <1>6

\* Wipes and the other steps of polls, for what follows.
LEMMA WipeSteps ==
    ASSUME BaseInv, NEW h \in Handlers, WipeSecret(h)
    PROVE  /\ Others(h) /\ handler[h].pc = "wipe"
           /\ UNCHANGED <<credential, attempts, handedOut, redemptions>>
           /\ \/ UNCHANGED code /\ handler'[h].pc = "idle"
              \/ \E c \in Codes :
                    /\ handler[h].code = c /\ Secret(c) # None /\ Secret(c)' = None
                    /\ \A d \in Codes \ {c} : code'[d] = code[d]
                    /\ code'[c].status = code[c].status /\ code'[c].pendingSecret = None
                    /\ code[c] # NoRow
                    /\ handler'[h].pc = "answer" /\ handler'[h].code = c
                    /\ handler'[h].new = handler[h].new
<1>1. handler[h] \in Handler
  BY WipeFacts, AtWork
<1>2. /\ handler[h].pc = "wipe" /\ UNCHANGED <<credential, attempts, handedOut, redemptions>>
  BY WipeFacts
<1>3. CASE UNCHANGED code /\ handler' = [handler EXCEPT ![h] = Idle]
  BY <1>2, <1>3, IdleFacts DEF Others, BaseInv, Types
<1>4. ASSUME NEW c \in Codes, handler[h].code = c, Secret(c) # None, code[c] \in CodeRow,
             code' = [code EXCEPT ![c] = [code[c] EXCEPT !.pendingSecret = None, !.delivered = TRUE]],
             handler' = [handler EXCEPT ![h] = [handler[h] EXCEPT !.pc = "answer"]]
      PROVE  /\ Others(h) /\ Secret(c)' = None /\ code[c] # NoRow
             /\ \A d \in Codes \ {c} : code'[d] = code[d]
             /\ code'[c].status = code[c].status /\ code'[c].pendingSecret = None
             /\ handler'[h].pc = "answer" /\ handler'[h].code = c
             /\ handler'[h].new = handler[h].new
  <2>1. /\ code'[c] = [code[c] EXCEPT !.pendingSecret = None, !.delivered = TRUE]
        /\ \A d \in Codes \ {c} : code'[d] = code[d]
    BY <1>4 DEF BaseInv, Types
  <2>2. code'[c].status = code[c].status /\ code'[c].pendingSecret = None
    <3>1. ASSUME NEW r \in CodeRow
          PROVE  /\ [r EXCEPT !.pendingSecret = None, !.delivered = TRUE].status = r.status
                 /\ [r EXCEPT !.pendingSecret = None, !.delivered = TRUE].pendingSecret = None
      BY DEF CodeRow
    <3> QED
      BY <1>4, <2>1, <3>1
  <2>3. handler'[h] = [handler[h] EXCEPT !.pc = "answer"] /\ Others(h)
    BY <1>4 DEF Others, BaseInv, Types
  <2>4. handler'[h].pc = "answer" /\ handler'[h].code = c /\ handler'[h].new = handler[h].new
    BY <1>1, <1>4, <2>3 DEF Handler
  <2> QED
    BY <1>4, <2>1, <2>2, <2>3, <2>4, CodeRows DEF Secret
<1> QED
  BY <1>2, <1>3, <1>4, WipeFacts

-----------------------------------------------------------------------------
(* Refused codes are counted, and never beyond the limit by more than one for  *)
(* each handler                                                                *)

LEMMA AttemptsFacts ==
    ASSUME BaseInv, Next
    PROVE  \/ attempts < MaxInvalidAttempts /\ attempts' = attempts
           \/ \E h \in Handlers :
                 /\ handler[h].pc = "findByCode" /\ attempts' <= attempts + 1
                 /\ Redeeming' \subseteq Redeeming \ {h}
           \/ attempts' \in {attempts, 0} /\ Redeeming' \subseteq Redeeming
<1>1. CASE \E h \in Handlers, c \in Codes : Redeem(h, c) \/ Poll(h, c)
  <2>1. PICK h \in Handlers, c \in Codes : Redeem(h, c) \/ Poll(h, c)
    BY <1>1
  <2>2. CASE Redeem(h, c)
    BY <2>2 DEF Redeem
  <2>3. CASE ~Redeem(h, c)
    BY <2>1, <2>3, PairSteps DEF Poll, Redeeming, Others
  <2> QED
    BY <2>2, <2>3
<1>2. CASE \E h \in Handlers : FindByCode(h)
  <2>1. PICK h \in Handlers : FindByCode(h)
    BY <1>2
  <2>2. Others(h) /\ handler'[h].pc # "findByCode"
    BY <2>1, HandlerSteps
  <2>3. handler[h].pc = "findByCode" /\ attempts' <= attempts + 1
    BY <2>1 DEF FindByCode, BaseInv, Types
  <2> QED
    BY <2>2, <2>3 DEF Redeeming, Others
<1>3. CASE \E h \in Handlers :
              \/ FindActive(h) \/ CommitRedemption(h) \/ AnswerPoll(h) \/ SupersedeOld(h)
              \/ InsertNew(h) \/ EmitRotated(h) \/ SaveRevoked(h) \/ Abort(h) \/ Unpair(h)
              \/ \E s \in Sockets : MaybeRotate(h, s)
  <2>1. PICK h \in Handlers :
              \/ FindActive(h) \/ CommitRedemption(h) \/ AnswerPoll(h) \/ SupersedeOld(h)
              \/ InsertNew(h) \/ EmitRotated(h) \/ SaveRevoked(h) \/ Abort(h) \/ Unpair(h)
              \/ \E s \in Sockets : MaybeRotate(h, s)
    BY <1>3
  <2>2. Others(h) /\ handler'[h].pc # "findByCode"
    BY <2>1, HandlerSteps
  <2>3. attempts' \in {attempts, 0}
    BY <2>1 DEF FindActive, CommitRedemption, AnswerPoll, SupersedeOld, InsertNew, EmitRotated,
                SaveRevoked, Abort, Unpair, MaybeRotate
  <2> QED
    BY <2>2, <2>3 DEF Redeeming, Others
<1>4. CASE \E h \in Handlers : CaptureSecret(h) \/ WipeSecret(h)
  BY <1>4, CaptureFacts, WipeSteps DEF Redeeming, Others
<1>5. CASE \/ \E c \in Codes : IssuePairingCode(c)
           \/ \E s \in Sockets : Connect(s) \/ HandleDisconnect(s)
           \/ Tick
  BY <1>5 DEF IssuePairingCode, Connect, HandleDisconnect, Tick, Redeeming
<1> QED
  BY <1>1, <1>2, <1>3, <1>4, <1>5 DEF Next

LEMMA AttemptsStep ==
    ASSUME BaseInv, BaseInv', AttemptsInv, [Next]_vars
    PROVE  AttemptsInv'
<1> USE DEF AttemptsInv
<1>1. /\ IsFiniteSet(Handlers) /\ Cardinality(Handlers) \in Nat
      /\ attempts \in Nat /\ attempts' \in Nat /\ MaxInvalidAttempts \in Nat
  BY FS_CardinalityType, Bounds, AgentPairingAssumption DEF BaseInv, Types
<1>2. /\ IsFiniteSet(Redeeming) /\ Cardinality(Redeeming) \in Nat
      /\ IsFiniteSet(Redeeming') /\ Cardinality(Redeeming') \in Nat
      /\ Cardinality(Redeeming') <= Cardinality(Handlers)
  <2>1. Redeeming \in SUBSET Handlers /\ Redeeming' \in SUBSET Handlers
    BY DEF Redeeming
  <2> QED
    BY <1>1, <2>1, FS_Subset, FS_CardinalityType
<1>3. CASE attempts < MaxInvalidAttempts /\ attempts' = attempts
  BY <1>1, <1>2, <1>3
<1>4. CASE \E h \in Handlers :
              /\ handler[h].pc = "findByCode" /\ attempts' <= attempts + 1
              /\ Redeeming' \subseteq Redeeming \ {h}
  <2>1. PICK h \in Handlers :
              /\ handler[h].pc = "findByCode" /\ attempts' <= attempts + 1
              /\ Redeeming' \in SUBSET (Redeeming \ {h})
    BY <1>4
  <2>2. h \in Redeeming
    BY <2>1 DEF Redeeming
  <2>3. IsFiniteSet(Redeeming \ {h}) /\ Cardinality(Redeeming \ {h}) = Cardinality(Redeeming) - 1
    BY <1>2, <2>2, FS_RemoveElement
  <2>4. Cardinality(Redeeming') <= Cardinality(Redeeming) - 1
    BY <2>1, <2>3, FS_Subset
  <2> QED
    BY <1>1, <1>2, <2>1, <2>4
<1>5. CASE attempts' \in {attempts, 0} /\ Redeeming' \subseteq Redeeming
  <2>1. Cardinality(Redeeming') <= Cardinality(Redeeming)
    BY <1>2, <1>5, FS_Subset
  <2> QED
    BY <1>1, <1>2, <1>5, <2>1
<1>6. CASE UNCHANGED vars
  BY <1>6, <1>1, <1>2 DEF vars, Redeeming
<1> QED
  BY <1>3, <1>4, <1>5, <1>6, AttemptsFacts

-----------------------------------------------------------------------------
(* How often keys are handed out *)

\* Steps that hand out nothing and put nothing on a row.
LEMMA NothingHandedOut ==
    ASSUME RedeemedInv, OnceInv, UNCHANGED <<code, handedOut, redemptions>>,
           Stored \subseteq Stored',
           \A g \in Handlers : handler'[g] = handler[g] \/ handler'[g].pc \notin Polling
    PROVE  RedeemedInv' /\ OnceInv'
<1>1. RedeemedInv'
  BY DEF RedeemedInv
<1>2. \A c : Secret(c)' = Secret(c)
  BY DEF Secret
<1>3. OnceInv'
  BY <1>2 DEF OnceInv, Polling
<1> QED
  BY <1>1, <1>3

LEMMA CommitRedemptionOnce ==
    ASSUME PairingInv, RedeemedInv, OnceInv, BaseInv', NEW h \in Handlers, CommitRedemption(h)
    PROVE  RedeemedInv' /\ OnceInv'
<1> USE DEF PairingInv
<1>1. PICK k \in Credentials, c \in Codes, old \in Credentials \union {None} :
          RedemptionEffect(h, k, c, old)
  BY RedemptionFacts
<1>2. /\ redemptions \in [Codes -> Nat] /\ code \in [Codes -> CodeRow \union {NoRow}]
      /\ credential \in [Credentials -> CredentialRow \union {NoRow}] /\ now \in Time
      /\ handedOut \in [Credentials -> Nat]
  BY DEF BaseInv, Types
<1>3. Others(h) /\ handler'[h].pc = "idle"
  BY <1>1, HandlerSteps, IdleFacts DEF RedemptionEffect, BaseInv, Types
<1>4. /\ redemptions'[c] = redemptions[c] + 1
      /\ \A d \in Codes \ {c} : redemptions'[d] = redemptions[d] /\ code'[d] = code[d]
      /\ handedOut' = handedOut
  BY <1>1, <1>2 DEF RedemptionEffect
<1>5. \A d \in Codes : redemptions[d] <= redemptions'[d]
  BY <1>2, <1>4
<1>6. Stored \subseteq Stored'
  <2>1. ASSUME NEW j \in Stored
        PROVE  credential'[j] # NoRow
    <3>1. credential[j] \in CredentialRow
      BY <1>2 DEF Stored
    <3> QED
      BY <1>1, <1>2, <3>1, CredentialRows DEF RedemptionEffect, Stored
  <2> QED
    BY <2>1 DEF Stored
<1>7. Secret(c)' = k
  BY <1>1, RedemptionSecret
<1>8. RedeemedInv'
  <2>1. ASSUME NEW d \in Codes, code'[d] # NoRow,
               code'[d].status = "consumed" \/ code'[d].pendingSecret # None
        PROVE  redemptions'[d] > 0
    BY <1>2, <1>4, <2>1 DEF RedeemedInv
  <2>2. ASSUME NEW g \in Handlers, handler'[g].pc \in Polling
        PROVE  redemptions'[handler'[g].code] > 0
    <3>1. g # h /\ handler'[g] = handler[g]
      BY <1>3, <2>2 DEF Others, Polling
    <3>2. handler[g] \in Handler /\ HandlerOK(handler[g])
      BY <2>2, <3>1, AtWork DEF Polling
    <3>3. handler[g].code \in Codes
      BY <2>2, <3>1, <3>2, Names DEF HandlerOK, Handler
    <3>4. redemptions[handler[g].code] > 0
      BY <2>2, <3>1 DEF RedeemedInv
    <3> QED
      BY <1>2, <1>4, <1>5, <3>1, <3>3, <3>4
  <2>3. \A j \in Credentials : handedOut'[j] > 0 => j \in Stored'
    BY <1>4, <1>6 DEF RedeemedInv
  <2> QED
    BY <2>1, <2>2, <2>3 DEF RedeemedInv
<1>9. ASSUME \A d \in Codes : redemptions'[d] <= 1
      PROVE  /\ \A d \in Codes : redemptions[d] <= 1
             /\ redemptions[c] = 0
  BY <1>2, <1>4, <1>5, <1>9
<1>10. handedOut[k] = 0
  BY <1>1, <1>2 DEF RedeemedInv, RedemptionEffect
<1>11. ASSUME \A d \in Codes : redemptions'[d] <= 1
       PROVE  /\ \A d \in Codes : Secret(d)' # None => handedOut'[Secret(d)'] = 0
              /\ \A g \in Handlers : handler'[g].pc = "wipe" =>
                    Secret(handler[g].code)' \in {None, handler'[g].new}
              /\ \A g \in Handlers : handler'[g].pc = "answer" =>
                    /\ handedOut'[handler'[g].new] = 0
                    /\ \A f \in Handlers \ {g} :
                          handler'[f].pc = "answer" => handler'[f].new # handler'[g].new
              /\ \A j \in Credentials : handedOut'[j] <= 1
  <2>1. \A d \in Codes \ {c} : Secret(d)' = Secret(d)
    BY <1>4 DEF Secret
  <2>2. \A d \in Codes : Secret(d)' # None => handedOut'[Secret(d)'] = 0
    BY <1>4, <1>7, <1>9, <1>10, <1>11, <2>1 DEF OnceInv
  <2>3. ASSUME NEW g \in Handlers, handler'[g].pc = "wipe"
        PROVE  Secret(handler[g].code)' \in {None, handler'[g].new}
    <3>1. g # h /\ handler'[g] = handler[g]
      BY <1>3, <2>3 DEF Others
    <3>2. handler[g] \in Handler /\ HandlerOK(handler[g])
      BY <2>3, <3>1, AtWork
    <3>3. handler[g].code \in Codes /\ handler[g].code # c
      BY <1>9, <1>11, <2>3, <3>1, <3>2, Names DEF HandlerOK, Handler, Polling, RedeemedInv
    <3> QED
      BY <1>9, <1>11, <2>1, <2>3, <3>1, <3>3 DEF OnceInv
  <2>4. \A g \in Handlers : handler'[g].pc = "answer" => g # h /\ handler'[g] = handler[g]
    BY <1>3 DEF Others
  <2> QED
    BY <1>4, <1>9, <1>11, <2>2, <2>3, <2>4 DEF OnceInv
<1>12. OnceInv'
  BY <1>11 DEF OnceInv
<1> QED
  BY <1>8, <1>12

\* The UPDATE of a poll finds the secret that its SELECT read, or none.
LEMMA WipeSecretOnce ==
    ASSUME PairingInv, RedeemedInv, OnceInv, NEW h \in Handlers, WipeSecret(h)
    PROVE  RedeemedInv' /\ OnceInv'
<1> USE DEF PairingInv
<1>1. /\ Others(h) /\ handler[h].pc = "wipe"
      /\ UNCHANGED <<credential, handedOut, redemptions>>
  BY WipeSteps
<1>2. Stored' = Stored
  BY <1>1 DEF Stored
<1>3. CASE UNCHANGED code /\ handler'[h].pc = "idle"
  BY <1>1, <1>2, <1>3, NothingHandedOut DEF Others, Polling
<1>4. ASSUME NEW c \in Codes,
             handler[h].code = c, Secret(c) # None, Secret(c)' = None,
             \A d \in Codes \ {c} : code'[d] = code[d],
             code'[c].status = code[c].status, code'[c].pendingSecret = None, code[c] # NoRow,
             handler'[h].pc = "answer", handler'[h].code = c, handler'[h].new = handler[h].new
      PROVE  RedeemedInv' /\ OnceInv'
  <2>1. RedeemedInv'
    BY <1>1, <1>2, <1>4 DEF RedeemedInv, Others, Polling
  <2>2. \A d \in Codes \ {c} : Secret(d)' = Secret(d)
    BY <1>4 DEF Secret
  <2>3. ASSUME \A d \in Codes : redemptions[d] <= 1
        PROVE  /\ \A d \in Codes : Secret(d)' # None => handedOut[Secret(d)'] = 0
               /\ \A g \in Handlers : handler'[g].pc = "wipe" =>
                     Secret(handler[g].code)' \in {None, handler'[g].new}
               /\ \A g \in Handlers : handler'[g].pc = "answer" =>
                     /\ handedOut[handler'[g].new] = 0
                     /\ \A f \in Handlers \ {g} :
                           handler'[f].pc = "answer" => handler'[f].new # handler'[g].new
               /\ \A j \in Credentials : handedOut[j] <= 1
    <3>1. Secret(c) = handler[h].new /\ handedOut[handler[h].new] = 0
      BY <1>1, <1>4, <2>3 DEF OnceInv
    <3>2. ASSUME NEW g \in Handlers, handler'[g].pc = "wipe"
          PROVE  Secret(handler[g].code)' \in {None, handler'[g].new}
      <4>1. g # h /\ handler'[g] = handler[g]
        BY <1>1, <1>4, <3>2 DEF Others
      <4>2. handler[g] \in Handler /\ HandlerOK(handler[g])
        BY <3>2, <4>1, AtWork
      <4>3. handler[g].code \in Codes
        BY <3>2, <4>1, <4>2, Names DEF HandlerOK, Handler, Polling
      <4> QED
        BY <1>4, <2>2, <2>3, <3>2, <4>1, <4>3 DEF OnceInv
    <3>3. ASSUME NEW g \in Handlers \ {h}, handler'[g].pc = "answer"
          PROVE  /\ handler'[g] = handler[g] /\ handler[g].new # handler[h].new
                 /\ handedOut[handler[g].new] = 0
      <4>1. handler'[g] = handler[g]
        BY <1>1 DEF Others
      <4> QED
        BY <1>4, <2>3, <3>1, <3>3, <4>1 DEF PollInv, OnceInv
    <3>4. \A g \in Handlers : handler'[g].pc = "answer" =>
              /\ handedOut[handler'[g].new] = 0
              /\ \A f \in Handlers \ {g} :
                    handler'[f].pc = "answer" => handler'[f].new # handler'[g].new
      <4>1. ASSUME NEW g \in Handlers, NEW f \in Handlers \ {g},
                   handler'[g].pc = "answer", handler'[f].pc = "answer"
            PROVE  handler'[f].new # handler'[g].new
        <5>1. CASE g = h \/ f = h
          BY <1>4, <3>3, <4>1, <5>1
        <5>2. CASE g # h /\ f # h
          BY <2>3, <3>3, <4>1, <5>2 DEF OnceInv
        <5> QED
          BY <5>1, <5>2
      <4> QED
        BY <1>4, <3>1, <3>3, <4>1
    <3> QED
      BY <1>4, <2>2, <2>3, <3>2, <3>4 DEF OnceInv
  <2> QED
    BY <1>1, <2>1, <2>3 DEF OnceInv
<1> QED
  BY <1>3, <1>4, WipeSteps

LEMMA AnswerPollOnce ==
    ASSUME PairingInv, RedeemedInv, OnceInv, NEW h \in Handlers, AnswerPoll(h)
    PROVE  RedeemedInv' /\ OnceInv'
<1> USE DEF PairingInv
<1>1. /\ Others(h) /\ handler[h].pc = "answer" /\ handler'[h].pc \notin Polling
      /\ UNCHANGED <<code, credential, redemptions>>
  BY HandlerSteps DEF AnswerPoll, tables
<1>2. Stored' = Stored /\ \A d : Secret(d)' = Secret(d)
  BY <1>1 DEF Stored, Secret
<1>3. handler[h].new \in Stored
  BY <1>1, AtWork DEF HandlerOK
<1>4. CASE handedOut' = handedOut
  BY <1>1, <1>2, <1>4, NothingHandedOut DEF Others
<1>5. CASE handedOut' = [handedOut EXCEPT ![handler[h].new] = @ + 1]
  <2>1. /\ handedOut'[handler[h].new] = handedOut[handler[h].new] + 1
        /\ \A j \in Credentials : j # handler[h].new => handedOut'[j] = handedOut[j]
    BY <1>3, <1>5 DEF BaseInv, Types, Stored
  <2>2. RedeemedInv'
    BY <1>1, <1>2, <1>3, <2>1 DEF RedeemedInv, Others
  <2>3. ASSUME \A d \in Codes : redemptions[d] <= 1
        PROVE  /\ \A d \in Codes : Secret(d) # None => handedOut'[Secret(d)] = 0
               /\ \A g \in Handlers : handler'[g].pc = "wipe" =>
                     Secret(handler'[g].code) \in {None, handler'[g].new}
               /\ \A g \in Handlers : handler'[g].pc = "answer" =>
                     /\ handedOut'[handler'[g].new] = 0
                     /\ \A f \in Handlers \ {g} :
                           handler'[f].pc = "answer" => handler'[f].new # handler'[g].new
               /\ \A j \in Credentials : handedOut'[j] <= 1
    <3>1. \A d \in Codes : Secret(d) # None => handedOut'[Secret(d)] = 0
      BY <1>1, <2>1, <2>3 DEF OnceInv, PollInv, BaseInv, Stored
    <3>2. ASSUME NEW g \in Handlers, handler'[g].pc \in {"wipe", "answer"}
          PROVE  g # h /\ handler'[g] = handler[g]
      BY <1>1, <3>2 DEF Others, Polling
    <3>3. ASSUME NEW g \in Handlers, handler'[g].pc = "answer"
          PROVE  /\ handedOut'[handler[g].new] = 0
      <4>1. g # h /\ handler[g].pc = "answer"
        BY <3>2, <3>3
      <4>2. handler[g].new \in Stored
        BY <4>1, AtWork DEF HandlerOK
      <4> QED
        BY <1>1, <2>1, <2>3, <4>1, <4>2 DEF OnceInv, Stored
    <3>4. handedOut[handler[h].new] = 0
      BY <1>1, <2>3 DEF OnceInv
    <3>5. \A j \in Credentials : handedOut'[j] <= 1
      BY <1>3, <2>1, <2>3, <3>4 DEF OnceInv
    <3> QED
      BY <2>3, <3>1, <3>2, <3>3, <3>5 DEF OnceInv
  <2>4. OnceInv'
    BY <1>1, <1>2, <2>3 DEF OnceInv
  <2> QED
    BY <2>2, <2>4
<1> QED
  BY <1>4, <1>5 DEF AnswerPoll

LEMMA StartPollOnce ==
    ASSUME BaseInv, RedeemedInv, OnceInv, NEW h \in Handlers, NEW c \in Codes,
           Poll(h, c) \/ Redeem(h, c)
    PROVE  RedeemedInv' /\ OnceInv'
<1>1. /\ Others(h) /\ handler'[h].code = c
      /\ handler'[h].pc = IF Redeem(h, c) THEN "findByCode" ELSE "capture"
  BY PairSteps
<1>2. UNCHANGED <<code, credential, handedOut, redemptions>>
  BY DEF Redeem, Poll, tables, history
<1>3. Stored' = Stored /\ \A d : Secret(d)' = Secret(d)
  BY <1>2 DEF Stored, Secret
<1>4. CASE Redeem(h, c)
  BY <1>1, <1>2, <1>3, <1>4, NothingHandedOut DEF Others, Polling
<1>5. CASE Poll(h, c) /\ ~Redeem(h, c)
  <2>1. redemptions[c] > 0
    BY <1>5 DEF Poll, RedeemedInv
  <2>2. RedeemedInv'
    BY <1>1, <1>2, <1>3, <2>1 DEF RedeemedInv, Others
  <2>3. OnceInv'
    BY <1>1, <1>2, <1>3, <1>5 DEF OnceInv, Others
  <2> QED
    BY <2>2, <2>3
<1> QED
  BY <1>4, <1>5

LEMMA CaptureSecretOnce ==
    ASSUME BaseInv, RedeemedInv, OnceInv, NEW h \in Handlers, CaptureSecret(h)
    PROVE  RedeemedInv' /\ OnceInv'
<1>1. /\ Others(h) /\ handler[h].pc = "capture"
      /\ UNCHANGED <<code, credential, handedOut, redemptions>>
  BY CaptureFacts
<1>2. Stored' = Stored /\ \A d : Secret(d)' = Secret(d)
  BY <1>1 DEF Stored, Secret
<1>3. CASE handler'[h].pc = "idle"
  BY <1>1, <1>2, <1>3, NothingHandedOut DEF Others, Polling
<1>4. CASE /\ handler'[h].pc = "wipe" /\ handler'[h].code = handler[h].code
           /\ handler'[h].new = Secret(handler[h].code)
  <2>1. RedeemedInv'
    BY <1>1, <1>2, <1>4 DEF RedeemedInv, Others, Polling
  <2>2. OnceInv'
    BY <1>1, <1>2, <1>4 DEF OnceInv, Others
  <2> QED
    BY <2>1, <2>2
<1> QED
  BY <1>3, <1>4, CaptureFacts

LEMMA IssuePairingCodeOnce ==
    ASSUME BaseInv, RedeemedInv, OnceInv, NEW c \in Codes, IssuePairingCode(c)
    PROVE  RedeemedInv' /\ OnceInv'
<1>1. /\ code[c] = NoRow /\ code' = [code EXCEPT ![c] = NewCode(now)]
      /\ UNCHANGED <<credential, handler, handedOut, redemptions>>
  BY DEF IssuePairingCode, history
<1>2. /\ code'[c].pendingSecret = None /\ code'[c].status = "issued" /\ code'[c] # NoRow
      /\ \A d \in Codes \ {c} : code'[d] = code[d]
  BY <1>1, CodeRows DEF BaseInv, Types
<1>3. Stored' = Stored
  BY <1>1 DEF Stored
<1>4. \A d \in Codes : Secret(d)' = Secret(d)
  BY <1>1, <1>2 DEF Secret
<1>5. RedeemedInv'
  BY <1>1, <1>2, <1>3 DEF RedeemedInv
<1>6. OnceInv'
  <2>1. ASSUME NEW g \in Handlers, handler[g].pc = "wipe"
        PROVE  handler[g].code \in Codes
    BY <2>1, AtWork, Names DEF HandlerOK, Handler, Polling
  <2> QED
    BY <1>1, <1>4, <2>1 DEF OnceInv
<1> QED
  BY <1>5, <1>6

LEMMA OnceStep ==
    ASSUME PairingInv, PairingInv', RedeemedInv, OnceInv, [Next]_vars
    PROVE  RedeemedInv' /\ OnceInv'
<1> USE DEF PairingInv
<1>1. CASE \E c \in Codes : IssuePairingCode(c)
  BY <1>1, IssuePairingCodeOnce
<1>2. CASE \E h \in Handlers, c \in Codes : Redeem(h, c) \/ Poll(h, c)
  BY <1>2, StartPollOnce
<1>3. CASE \E h \in Handlers : \/ CommitRedemption(h) \/ CaptureSecret(h) \/ WipeSecret(h)
                               \/ AnswerPoll(h)
  BY <1>3, CommitRedemptionOnce, CaptureSecretOnce, WipeSecretOnce, AnswerPollOnce
<1>4. CASE \E h \in Handlers :
              \/ FindByCode(h) \/ FindActive(h) \/ SupersedeOld(h) \/ InsertNew(h)
              \/ EmitRotated(h) \/ SaveRevoked(h) \/ Abort(h) \/ Unpair(h)
              \/ \E s \in Sockets : MaybeRotate(h, s)
  <2>1. PICK h \in Handlers :
              \/ FindByCode(h) \/ FindActive(h) \/ SupersedeOld(h) \/ InsertNew(h)
              \/ EmitRotated(h) \/ SaveRevoked(h) \/ Abort(h) \/ Unpair(h)
              \/ \E s \in Sockets : MaybeRotate(h, s)
    BY <1>4
  <2>2. Others(h) /\ handler'[h].pc \notin Polling
    BY <2>1, HandlerSteps
  <2>3. UNCHANGED <<code, handedOut, redemptions>>
    BY <2>1 DEF FindByCode, FindActive, SupersedeOld, InsertNew, EmitRotated, SaveRevoked, Abort,
                Unpair, MaybeRotate, tables, history
  <2>4. Stored \subseteq Stored'
    <3>1. CASE SupersedeOld(h)
      <4>1. PICK k \in Stored :
                credential' = [credential EXCEPT ![k] = supersede(credential[k], handler[h].at)]
        <5>1. handler[h].old \in Stored
          BY <3>1, AtWork DEF SupersedeOld, HandlerOK
        <5> QED
          BY <3>1, <5>1 DEF SupersedeOld
      <4>2. handler[h].at \in Time
        BY <3>1, AtWork DEF SupersedeOld, Handler
      <4>3. supersede(credential[k], handler[h].at) # NoRow
        BY <4>1, <4>2, CredentialRows DEF Stored, BaseInv, Types
      <4> QED
        BY <4>1, <4>3 DEF Stored, BaseInv, Types
    <3>2. CASE InsertNew(h)
      <4>1. PICK k \in Credentials : credential' = [credential EXCEPT ![k] = issue(now)]
        BY <3>2, InsertFacts
      <4>2. issue(now) # NoRow
        BY CredentialRows DEF BaseInv, Types
      <4> QED
        BY <4>1, <4>2 DEF Stored, BaseInv, Types
    <3>3. CASE SaveRevoked(h)
      <4>1. PICK k \in Stored : credential' = [credential EXCEPT ![k] = revoke(credential[k])]
        <5>1. handler[h].old \in Stored
          BY <3>3, AtWork DEF SaveRevoked, HandlerOK
        <5> QED
          BY <3>3, <5>1 DEF SaveRevoked
      <4>2. revoke(credential[k]) # NoRow
        BY <4>1, CredentialRows DEF Stored, BaseInv, Types
      <4> QED
        BY <4>1, <4>2 DEF Stored, BaseInv, Types
    <3>4. CASE ~(SupersedeOld(h) \/ InsertNew(h) \/ SaveRevoked(h))
      <4>1. UNCHANGED credential
        BY <2>1, <3>4 DEF FindByCode, FindActive, EmitRotated, Abort, Unpair, MaybeRotate, tables
      <4> QED
        BY <4>1 DEF Stored
    <3> QED
      BY <3>1, <3>2, <3>3, <3>4
  <2> QED
    BY <2>2, <2>3, <2>4, NothingHandedOut DEF Others
<1>5. CASE \/ \E s \in Sockets : Connect(s) \/ HandleDisconnect(s)
           \/ Tick
           \/ UNCHANGED vars
  <2>1. UNCHANGED <<code, credential, handler, handedOut, redemptions>>
    BY <1>5 DEF Connect, HandleDisconnect, Tick, vars, tables, history
  <2> QED
    BY <2>1, NothingHandedOut DEF Stored
<1> QED
  BY <1>1, <1>2, <1>3, <1>4, <1>5 DEF Next

-----------------------------------------------------------------------------
(* The theorems *)

LEMMA InvariantInit == Init => IInv
<1> SUFFICES ASSUME Init
             PROVE  IInv
  OBVIOUS
<1> USE DEF Init
<1>1. Types
  BY Bounds DEF Types, Time, Deadline
<1>2. Stored = {} /\ \A c \in Codes : Secret(c) = None
  BY DEF Stored, Secret
<1>3. \A h \in Handlers : handler[h] = Idle /\ handler[h].pc = "idle"
  BY IdleFacts
<1>4. PairingInv
  BY <1>1, <1>2, <1>3 DEF PairingInv, BaseInv, SecretInv, EmitInv, PollInv, KeyInv
<1>5. AttemptsInv
  <2>1. Redeeming = {}
    BY <1>3 DEF Redeeming
  <2> QED
    BY <2>1, FS_EmptySet, FS_CardinalityType, Bounds, AgentPairingAssumption DEF AttemptsInv
<1>6. RedeemedInv /\ OnceInv
  BY <1>2, <1>3 DEF RedeemedInv, OnceInv, Polling
<1> QED
  BY <1>4, <1>5, <1>6 DEF IInv

LEMMA InvariantStep == IInv /\ [Next]_vars => IInv'
<1> SUFFICES ASSUME IInv, [Next]_vars
             PROVE  IInv'
  OBVIOUS
<1>1. PairingInv'
  BY PairingStep DEF IInv
<1>2. AttemptsInv'
  BY <1>1, AttemptsStep DEF IInv, PairingInv
<1>3. RedeemedInv' /\ OnceInv'
  BY <1>1, OnceStep DEF IInv
<1> QED
  BY <1>1, <1>2, <1>3 DEF IInv

\* Every state has the types of the tables and the gateway, and refused codes count
\* to the limit and at most one more for each request that was under way
\* (AgentPairingController.redeem).
THEOREM PairingTypesCorrect == Spec => []TypeOK
<1>1. IInv => TypeOK
  <2> SUFFICES ASSUME IInv
               PROVE  TypeOK
    OBVIOUS
  <2>1. Redeeming \in SUBSET Handlers
    BY DEF Redeeming
  <2>2. /\ Cardinality(Redeeming) \in Nat /\ Cardinality(Handlers) \in Nat
    BY <2>1, FS_Subset, FS_CardinalityType, AgentPairingAssumption
  <2>3. attempts \in Nat /\ attempts < MaxInvalidAttempts + Cardinality(Handlers)
    BY <2>2, Bounds DEF IInv, PairingInv, BaseInv, Types, AttemptsInv
  <2> QED
    BY <2>3 DEF IInv, PairingInv, BaseInv, Types, TypeOK
<1> QED
  BY <1>1, InvariantInit, InvariantStep, PTL DEF Spec

\* However polls of one code overlap, its key is in the hands of one agent: a key is
\* handed out a second time only when overlapping redemptions of one code put
\* another in its place (compareAndWipePendingSecret).
THEOREM KeysAreHandedOutOnce == Spec => []KeyIsHandedOutOnce
<1>1. IInv => KeyIsHandedOutOnce
  <2> SUFFICES ASSUME IInv, ~KeyIsHandedOutOnce
               PROVE  FALSE
    OBVIOUS
  <2>1. \A c \in Codes : redemptions[c] <= 1
    BY DEF IInv, PairingInv, BaseInv, Types, KeyIsHandedOutOnce
  <2> QED
    BY <2>1 DEF IInv, OnceInv, KeyIsHandedOutOnce
<1> QED
  BY <1>1, InvariantInit, InvariantStep, PTL DEF Spec

\* For any number of handlers and sockets, the key that the agent holds stops
\* authenticating only when it was revoked, or when a successor exists that did not
\* reach it: the grace period covers every rotation (IssueAgentCredential,
\* AgentCredential.supersede).
THEOREM AgentNeverLosesItsKey == Spec => []AgentKeepsAWorkingKey
<1>1. IInv => AgentKeepsAWorkingKey
  <2> SUFFICES ASSUME IInv, key # None, ~Authenticates(key)
               PROVE  credential[key].status = "revoked" \/ key \in stranded
    BY DEF AgentKeepsAWorkingKey
  <2>1. key \in Stored /\ (Excused(key) \/ BeingReplaced(key))
    BY DEF IInv, PairingInv, KeyInv, Usable
  <2>2. credential[key].status \in {"active", "superseded", "revoked"}
    BY <2>1 DEF IInv, PairingInv, BaseInv, Types, Stored, CredentialRow
  <2> QED
    BY <2>1, <2>2 DEF Authenticates, Excused, BeingReplaced
<1> QED
  BY <1>1, InvariantInit, InvariantStep, PTL DEF Spec
=============================================================================
