--------------------------- MODULE PipelineProofs ---------------------------
(***************************************************************************)
(* Theorems about the services joined by their topics, for any requests,   *)
(* accounts, replicas and faults: the stages of a payment come in order, a *)
(* client that knows what became of a request is charged once, and the     *)
(* ledger stays within the holds.                                          *)
(*                                                                         *)
(* Each component is described by what a step of it may do to what the     *)
(* others see (FraudMoves, AuthMoves, LedgerMoves, GatewayMoves); the      *)
(* theorems follow from these alone.                                       *)
(***************************************************************************)
EXTENDS Pipeline, TLAPS, SequenceTheorems, FiniteSetTheorems, WellFoundedInduction

\* A message about t is on the topic.
On(log, t) == \E i \in 1 .. Len(log) : log[i] = t

\* The fraud service has approved t.
Approved(t) == sent[t]["APPROVE"] > 0

\* What the topics between the services hold; only the first can hold a
\* message that cannot be read.
TopicsOK ==
    /\ pending \in Seq(Tx \cup {Malformed})
    /\ authorized \in Seq(Tx) /\ settledLog \in Seq(Tx)

\* The marks a transaction leaves behind are counts.
MarksOK ==
    /\ sent \in [Tx -> [F!Recommendations -> Nat]]
    /\ debits \in [Tx -> Nat] /\ settled \in [Tx -> Nat] /\ debit \in [Tx -> Nat]

\* A replica of the fraud service that is to publish has a transaction in hand.
FraudHands ==
    /\ fCommitted \in Nat
    /\ fPos \in [FraudPod -> Nat] /\ fCur \in [FraudPod -> Nat]
    /\ fPc \in [FraudPod -> {"fetch", "produce", "commit"}]
    /\ decision \in [FraudPod -> F!Recommendations]
    /\ \A r \in FraudPod : fPc[r] = "produce" =>
          fCur[r] \in 1 .. Len(pending) /\ pending[fCur[r]] \in Tx

\* One of the authorization service that has not published its verdict has
\* one too, and has taken the amount of what it approves.
AuthHands ==
    /\ aCommitted \in Nat
    /\ aPos \in [AuthPod -> Nat] /\ aCur \in [AuthPod -> Nat]
    /\ aPc \in [AuthPod -> A!Steps]
    /\ verdict \in [AuthPod -> A!Reasons \cup {A!Approved}]
    /\ \A r \in AuthPod : aPc[r] \notin {"fetch", "commit"} => aCur[r] \in 1 .. Len(authorized)
    /\ \A r \in AuthPod :
          aPc[r] = "markProcessed" \/ (aPc[r] = "produce" /\ verdict[r] = A!Approved)
             => debits[authorized[aCur[r]]] > 0

\* What a replica of the ledger processor holds has been fetched.
LedgerHands ==
    /\ lCommitted \in Nat
    /\ lPos \in [LedgerPod -> Nat]
    /\ msgCh \in [LedgerPod -> Seq(1 .. Len(settledLog))]
    /\ batch \in [LedgerPod -> Seq(1 .. Len(settledLog))]
    /\ lPc \in [LedgerPod -> {"select", "write", "commit"}]
    /\ next \in [LedgerPod -> Nat \ {0}]
    /\ done \in [LedgerPod -> SUBSET Nat]
    /\ \A r \in LedgerPod : lPc[r] = "write" => next[r] <= Len(batch[r])

\* Each stage rests on the one before it, the topics between them included.
Chain ==
    /\ \A t \in Tx : Approved(t) => On(pending, t)
    /\ \A i \in 1 .. Len(authorized) : Approved(authorized[i])
    /\ \A t \in Tx : debits[t] > 0 => Approved(t)
    /\ \A t \in Tx : settled[t] > 0 => debits[t] > 0
    /\ \A i \in 1 .. Len(settledLog) : settled[settledLog[i]] > 0
    /\ \A t \in Tx : debit[t] > 0 => settled[t] > 0

\* The invariant all the theorems rest on.
PipeInv == TopicsOK /\ MarksOK /\ FraudHands /\ AuthHands /\ LedgerHands /\ Chain

-----------------------------------------------------------------------------
\* Topics.

\* Messages stay where they are when others are appended.
LEMMA AppendKeeps ==
    ASSUME NEW S, NEW log \in Seq(S), NEW more \in Seq(S)
    PROVE  /\ log \o more \in Seq(S)
           /\ Len(log) \in Nat /\ Len(log \o more) \in Nat
           /\ 1 .. Len(log) \subseteq 1 .. Len(log \o more)
           /\ \A i \in 1 .. Len(log) : (log \o more)[i] = log[i]
  BY ConcatProperties, LenProperties

\* n messages about one transaction.
LEMMA CopiesType ==
    ASSUME NEW S, NEW m \in S, NEW n \in Nat
    PROVE  /\ [i \in 1 .. n |-> m] \in Seq(S)
           /\ Len([i \in 1 .. n |-> m]) = n
  OBVIOUS

\* What is produced is about transactions whose count grew.
LEMMA ProducedGrew ==
    ASSUME NEW before \in [Tx -> Nat], NEW after \in [Tx -> Nat]
    PROVE  Produced(before, after) \in Seq({t \in Tx : after[t] > before[t]})
<1> DEFINE grown == {t \in Tx : after[t] > before[t]}
<1>1. CASE grown = {}
  BY <1>1, EmptySeq DEF Produced
<1>2. CASE grown # {}
  <2> DEFINE t == CHOOSE u \in grown : TRUE
             n == after[t] - before[t]
  <2>1. t \in grown
    BY <1>2
  <2>2. n \in Nat
    BY <2>1
  <2>3. Produced(before, after) = [i \in 1 .. n |-> t]
    BY <1>2 DEF Produced
  <2> HIDE DEF grown, t, n
  <2>4. [i \in 1 .. n |-> t] \in Seq(grown)
    BY <2>1, <2>2, CopiesType
  <2> QED
    BY <2>3, <2>4 DEF grown
<1> QED
  BY <1>1, <1>2
-----------------------------------------------------------------------------
\* What a step of each component does.

\* The fraud service adds decisions about a transaction it has read.
FraudAdds ==
    \/ sent' = sent
    \/ \E t \in Tx : /\ On(pending, t)
                     /\ \A u \in Tx \ {t} : sent'[u] = sent[u]
                     /\ sent'[t]["APPROVE"] >= sent[t]["APPROVE"]

\* A message is published about the transaction in hand.
LEMMA SendAdds ==
    ASSUME MarksOK, FraudHands, NEW r \in FraudPod, fPc[r] = "produce",
           NEW n \in Nat, F!Send(r, n)
    PROVE  sent' \in [Tx -> [F!Recommendations -> Nat]] /\ FraudAdds
<1> DEFINE t == pending[fCur[r]]
           d == decision[r]
<1>1. t \in Tx /\ d \in F!Recommendations /\ On(pending, t)
  BY DEF FraudHands, On
<1>2. sent' = [sent EXCEPT ![t] = [sent[t] EXCEPT ![d] = sent[t][d] + n]]
  BY DEF F!Send
<1>3. sent[t] \in [F!Recommendations -> Nat] /\ sent[t][d] + n \in Nat
  BY <1>1 DEF MarksOK
<1> HIDE DEF t, d
<1> DEFINE f == [sent[t] EXCEPT ![d] = sent[t][d] + n]
<1>4. f \in [F!Recommendations -> Nat]
  BY <1>1, <1>3
<1>5. "APPROVE" \in F!Recommendations
  BY DEF F!Recommendations
<1>6. f["APPROVE"] = IF d = "APPROVE" THEN sent[t]["APPROVE"] + n ELSE sent[t]["APPROVE"]
  BY <1>1, <1>3, <1>5
<1>7. f["APPROVE"] >= sent[t]["APPROVE"]
  BY <1>3, <1>5, <1>6
<1> HIDE DEF f
<1>8. sent' = [sent EXCEPT ![t] = f]
  BY <1>2 DEF f
<1>9. sent'[t] = f /\ \A u \in Tx \ {t} : sent'[u] = sent[u]
  BY <1>1, <1>8 DEF MarksOK
<1> QED
  BY <1>1, <1>4, <1>7, <1>8, <1>9 DEF MarksOK, FraudAdds

\* A step of the fraud service publishes at most about one transaction, which
\* it has read.
LEMMA FraudMoves ==
    ASSUME TopicsOK, MarksOK, FraudHands, FraudStep
    PROVE  /\ pending' = pending
           /\ FraudHands'
           /\ sent' \in [Tx -> [F!Recommendations -> Nat]]
           /\ FraudAdds
<1>1. ASSUME NEW r \in FraudPod, F!Rebalance(r)
      PROVE  UNCHANGED <<pending, sent>> /\ FraudHands'
  BY <1>1 DEF F!Rebalance, F!loopVars, FraudHands
<1>2. ASSUME NEW r \in FraudPod, F!Crash(r) \/ F!Exit(r)
      PROVE  UNCHANGED <<pending, sent>> /\ FraudHands'
  <2>1. /\ fPc' = [fPc EXCEPT ![r] = "fetch"] /\ fCur' = [fCur EXCEPT ![r] = 0]
        /\ UNCHANGED <<pending, fCommitted, fPos, decision, sent>>
    BY <1>2 DEF F!Crash, F!Exit, F!Restart, F!GoTo
  <2> QED
    BY <2>1 DEF FraudHands
<1>3. ASSUME NEW r \in FraudPod, F!Cancel(r)
      PROVE  UNCHANGED <<pending, sent>> /\ FraudHands'
  BY <1>3 DEF F!Cancel, F!kafkaVars, FraudHands
<1>4. ASSUME NEW r \in FraudPod, F!Fetch(r)
      PROVE  UNCHANGED <<pending, sent>> /\ FraudHands'
  <2>1. Len(pending) \in Nat /\ fPos[r] \in Nat /\ fPos[r] < Len(pending)
    BY <1>4, LenProperties DEF F!Fetch, TopicsOK, FraudHands
  <2>2. fPos[r] + 1 \in 1 .. Len(pending)
    BY <2>1
  <2>3. pending[fPos[r] + 1] \in Tx \cup {Malformed}
    BY <2>2, ElementOfSeq DEF TopicsOK
  <2>4. decision' \in [FraudPod -> F!Recommendations]
    <3>1. \A score : F!Recommendation(score) \in F!Recommendations
      BY DEF F!Recommendation, F!Recommendations
    <3>2. decision' = decision
          \/ \E score : decision' = [decision EXCEPT ![r] = F!Recommendation(score)]
      BY <1>4 DEF F!Fetch
    <3> QED
      BY <3>1, <3>2 DEF FraudHands
  <2>5. \/ pending[fPos[r] + 1] = Malformed /\ fPc' = [fPc EXCEPT ![r] = "commit"]
        \/ pending[fPos[r] + 1] \in Tx /\ fPc' = [fPc EXCEPT ![r] = "produce"]
    BY <1>4, <2>3 DEF F!Fetch, F!GoTo
  <2>6. /\ fPos' = [fPos EXCEPT ![r] = fPos[r] + 1]
        /\ fCur' = [fCur EXCEPT ![r] = fPos[r] + 1]
        /\ UNCHANGED <<pending, fCommitted, sent>>
    BY <1>4 DEF F!Fetch
  <2>7. /\ fPos' \in [FraudPod -> Nat] /\ fCur' \in [FraudPod -> Nat]
        /\ fPc' \in [FraudPod -> {"fetch", "produce", "commit"}]
    <3>1. fPos[r] + 1 \in Nat
      BY <2>1
    <3>2. fPc' = [fPc EXCEPT ![r] = "commit"] \/ fPc' = [fPc EXCEPT ![r] = "produce"]
      BY <2>5
    <3> QED
      BY <2>6, <3>1, <3>2 DEF FraudHands
  <2>8. \A q \in FraudPod : fPc'[q] = "produce" =>
           fCur'[q] \in 1 .. Len(pending) /\ pending[fCur'[q]] \in Tx
    BY <2>2, <2>5, <2>6 DEF FraudHands
  <2> QED
    BY <2>4, <2>6, <2>7, <2>8 DEF FraudHands
<1>5. ASSUME NEW r \in FraudPod, F!Produce(r)
      PROVE  /\ pending' = pending /\ FraudHands'
             /\ sent' \in [Tx -> [F!Recommendations -> Nat]] /\ FraudAdds
  <2>1. pending' = pending /\ FraudHands' /\ fPc[r] = "produce"
    BY <1>5 DEF F!Produce, F!kafkaVars, F!GoTo, FraudHands
  <2>2. sent' = sent \/ F!Send(r, 1) \/ F!Send(r, 2)
    BY <1>5 DEF F!Produce
  <2> QED
    BY <2>1, <2>2, SendAdds DEF FraudAdds, MarksOK
<1>6. ASSUME NEW r \in FraudPod, F!Commit(r)
      PROVE  UNCHANGED <<pending, sent>> /\ FraudHands'
  BY <1>6 DEF F!Commit, F!GoTo, FraudHands
<1>7. \E r \in FraudPod :
         \/ F!Rebalance(r) \/ F!Crash(r) \/ F!Cancel(r)
         \/ F!Fetch(r) \/ F!Exit(r) \/ F!Produce(r) \/ F!Commit(r)
  BY DEF FraudStep, F!Loop
<1> QED
  BY <1>1, <1>2, <1>3, <1>4, <1>5, <1>6, <1>7 DEF FraudAdds, MarksOK

\* The authorization service takes the amount of a transaction, or settles one
\* whose amount it has taken.
AuthTakes ==
    \E t \in Tx : On(authorized, t) /\ debits' = [debits EXCEPT ![t] = @ + 1] /\ settled' = settled

\* It settles a transaction whose amount it has taken, once or, by a retry of
\* its writer, twice.
AuthSettles ==
    \E t \in Tx : /\ debits[t] > 0
                  /\ \E n \in {1, 2} : settled' = [settled EXCEPT ![t] = @ + n]
                  /\ debits' = debits

\* What a step of it may do to the others.
AuthMakes == UNCHANGED <<debits, settled>> \/ AuthTakes \/ AuthSettles

\* The transaction in the hand of a handler that is deciding.
LEMMA InHandIsOn ==
    ASSUME TopicsOK, AuthHands, NEW r \in AuthPod, aPc[r] \notin {"fetch", "commit"}
    PROVE  /\ aCur[r] \in 1 .. Len(authorized)
           /\ A!InHand(r) \in Tx /\ A!InHand(r) = authorized[aCur[r]]
           /\ On(authorized, A!InHand(r))
<1>1. aCur[r] \in 1 .. Len(authorized)
  BY DEF AuthHands
<1>2. authorized[aCur[r]] \in Tx
  BY <1>1, ElementOfSeq DEF TopicsOK
<1> QED
  BY <1>1, <1>2 DEF A!InHand, On

\* Steps of the handler that take nothing and bring nothing nearer to approval.
LEMMA AuthFrame ==
    ASSUME AuthHands, NEW r \in AuthPod, authorized' = authorized,
           UNCHANGED <<debits, settled>>,
           aCommitted' \in Nat, aPos' \in [AuthPod -> Nat],
           aCur' \in [AuthPod -> Nat], aPc' \in [AuthPod -> A!Steps],
           verdict' \in [AuthPod -> A!Reasons \cup {A!Approved}],
           \A q \in AuthPod \ {r} :
              aPc'[q] = aPc[q] /\ aCur'[q] = aCur[q] /\ verdict'[q] = verdict[q],
           aPc'[r] \notin {"fetch", "commit"} => aCur'[r] \in 1 .. Len(authorized),
           aPc'[r] # "markProcessed",
           aPc'[r] = "produce" => verdict'[r] # A!Approved
    PROVE  AuthHands' /\ AuthMakes
  BY DEF AuthHands, AuthMakes

\* No reason for a refusal reads as an approval.
LEMMA ReasonsAreNot == A!Approved \notin A!Reasons /\ A!Approved = "APPROVED"
  BY DEF A!Approved, A!Reasons

\* A step of the authorization service takes the amount of a transaction it has
\* read, or settles one, or does neither.
LEMMA AuthMoves ==
    ASSUME TopicsOK, MarksOK, AuthHands, AuthStep
    PROVE  authorized' = authorized /\ AuthHands' /\ AuthMakes
<1> USE DEF A!Steps
<1>1. ASSUME NEW r \in AuthPod, A!Rebalance(r) PROVE AuthHands' /\ AuthMakes
  BY <1>1 DEF A!Rebalance, A!handlerVars, A!redisVars, A!topicVars, AuthHands, AuthMakes
<1>2. ASSUME NEW r \in AuthPod, A!Crash(r) PROVE AuthHands' /\ AuthMakes
  <2>1. /\ aPc' = [aPc EXCEPT ![r] = "fetch"] /\ aCur' = [aCur EXCEPT ![r] = 0]
        /\ UNCHANGED <<authorized, aCommitted, aPos, verdict, debits, settled>>
    BY <1>2 DEF A!Crash, A!GoTo, A!redisVars, A!topicVars
  <2> QED
    BY <2>1, AuthFrame DEF AuthHands
<1>3. ASSUME NEW r \in AuthPod, A!Fetch(r) PROVE AuthHands' /\ AuthMakes
  <2>1. Len(authorized) \in Nat /\ aPos[r] \in Nat /\ aPos[r] < Len(authorized)
    BY <1>3, LenProperties DEF A!Fetch, TopicsOK, AuthHands
  <2>2. aPos[r] + 1 \in 1 .. Len(authorized) /\ aPos[r] + 1 \in Nat
    BY <2>1
  <2>3. authorized[aPos[r] + 1] # Malformed
    BY <2>2, ElementOfSeq, ConstantsAssumption DEF TopicsOK
  <2>4. /\ aPos' = [aPos EXCEPT ![r] = aPos[r] + 1]
        /\ aCur' = [aCur EXCEPT ![r] = aPos[r] + 1]
        /\ aPc' = [aPc EXCEPT ![r] = "isProcessed"]
        /\ UNCHANGED <<authorized, aCommitted, verdict, debits, settled>>
    BY <1>3, <2>3 DEF A!Fetch, A!GoTo, A!redisVars, A!topicVars
  <2> QED
    BY <2>2, <2>4, AuthFrame DEF AuthHands
<1>4. ASSUME NEW r \in AuthPod, A!IsProcessed(r) \/ A!GetAccountBalance(r)
      PROVE  AuthHands' /\ AuthMakes
  <2>1. /\ aPc[r] \in {"isProcessed", "getBalance"}
        /\ UNCHANGED <<authorized, aCommitted, aPos, aCur, debits, settled>>
        /\ \/ \E reason \in A!Reasons :
                 /\ verdict' = [verdict EXCEPT ![r] = reason]
                 /\ aPc' = [aPc EXCEPT ![r] = "produce"]
           \/ /\ verdict' = verdict
              /\ \E step \in {"getBalance", "placeHold"} : aPc' = [aPc EXCEPT ![r] = step]
    BY <1>4 DEF A!IsProcessed, A!GetAccountBalance, A!Return, A!GoTo, A!Reasons,
                A!kafkaVars, A!redisVars, A!topicVars
  <2>2. aCur[r] \in 1 .. Len(authorized)
    BY <2>1, InHandIsOn
  <2>3. CASE \E reason \in A!Reasons :
                /\ verdict' = [verdict EXCEPT ![r] = reason]
                /\ aPc' = [aPc EXCEPT ![r] = "produce"]
    <3>1. PICK reason \in A!Reasons : /\ verdict' = [verdict EXCEPT ![r] = reason]
                                      /\ aPc' = [aPc EXCEPT ![r] = "produce"]
      BY <2>3
    <3>2. /\ aPc' \in [AuthPod -> A!Steps] /\ aPc'[r] = "produce"
          /\ verdict' \in [AuthPod -> A!Reasons \cup {A!Approved}] /\ verdict'[r] = reason
          /\ \A q \in AuthPod \ {r} : aPc'[q] = aPc[q] /\ verdict'[q] = verdict[q]
      BY <3>1 DEF AuthHands
    <3>3. verdict'[r] # A!Approved
      BY <3>2, ReasonsAreNot
    <3> QED
      BY <2>1, <2>2, <3>2, <3>3, AuthFrame DEF AuthHands
  <2>4. CASE /\ verdict' = verdict
             /\ \E step \in {"getBalance", "placeHold"} : aPc' = [aPc EXCEPT ![r] = step]
    BY <2>1, <2>2, <2>4, AuthFrame DEF AuthHands
  <2> QED
    BY <2>1, <2>3, <2>4
<1>5. ASSUME NEW r \in AuthPod, A!PlaceHold(r) \/ A!PlaceHoldNetworkError(r)
      PROVE  AuthHands' /\ AuthMakes
  <2> DEFINE t == A!InHand(r)
  <2>1. /\ aPc[r] = "placeHold"
        /\ UNCHANGED <<authorized, aCommitted, aPos, aCur, settled>>
    BY <1>5 DEF A!PlaceHold, A!PlaceHoldNetworkError, A!kafkaVars, A!topicVars
  <2>2. /\ t \in Tx /\ On(authorized, t) /\ t = authorized[aCur[r]]
        /\ aCur[r] \in 1 .. Len(authorized)
    BY <2>1, InHandIsOn
  <2>3. \/ debits' = [debits EXCEPT ![t] = @ + 1]
        \/ debits' = debits /\ ~(aPc' = [aPc EXCEPT ![r] = "markProcessed"])
    BY <1>5, <2>1 DEF A!PlaceHold, A!PlaceHoldNetworkError, A!ScriptEffect, A!Return,
                      A!GoTo, AuthHands
  <2>4. \/ /\ \E reason \in A!Reasons : verdict' = [verdict EXCEPT ![r] = reason]
           /\ aPc' = [aPc EXCEPT ![r] = "produce"]
        \/ /\ verdict' = verdict /\ aPc' = aPc
        \/ /\ verdict' = verdict /\ aPc' = [aPc EXCEPT ![r] = "markProcessed"]
           /\ debits' = [debits EXCEPT ![t] = @ + 1]
    <3>1. "INSUFFICIENT_FUNDS" \in A!Reasons /\ "HOLD_ERROR" \in A!Reasons
      BY DEF A!Reasons
    <3>2. CASE A!PlaceHold(r)
      BY <3>1, <3>2 DEF A!PlaceHold, A!ScriptEffect, A!Return, A!GoTo
    <3>3. CASE A!PlaceHoldNetworkError(r)
      BY <3>1, <3>3 DEF A!PlaceHoldNetworkError, A!Return, A!GoTo
    <3> QED
      BY <1>5, <3>2, <3>3
  <2>5. AuthMakes
    BY <2>1, <2>2, <2>3 DEF AuthMakes, AuthTakes
  <2>6. /\ debits' \in [Tx -> Nat] /\ \A u \in Tx : debits'[u] >= debits[u]
        /\ debits' = [debits EXCEPT ![t] = @ + 1] => debits'[t] > 0
    <3>1. \A u \in Tx : debits[u] \in Nat
      BY DEF MarksOK
    <3> HIDE DEF t
    <3>2. CASE debits' = debits
      BY <2>2, <3>1, <3>2 DEF MarksOK
    <3>3. CASE debits' = [debits EXCEPT ![t] = @ + 1]
      <4>1. debits[t] + 1 \in Nat /\ debits[t] + 1 > 0 /\ debits[t] + 1 >= debits[t]
        BY <2>2, <3>1
      <4>2. \A u \in Tx : debits'[u] = IF u = t THEN debits[t] + 1 ELSE debits[u]
        BY <2>2, <3>3 DEF MarksOK
      <4>3. debits' \in [Tx -> Nat]
        BY <2>2, <3>3, <4>1 DEF MarksOK
      <4> QED
        BY <2>2, <3>1, <4>1, <4>2, <4>3
    <3> QED
      BY <2>3, <3>2, <3>3
  <2>7. AuthHands'
    <3> HIDE DEF t
    <3>1. /\ aPc' \in [AuthPod -> A!Steps]
          /\ verdict' \in [AuthPod -> A!Reasons \cup {A!Approved}]
      BY <2>4 DEF AuthHands
    <3>2. ASSUME NEW q \in AuthPod, aPc'[q] \notin {"fetch", "commit"}
          PROVE  aCur[q] \in 1 .. Len(authorized)
      BY <2>1, <2>2, <2>4, <3>2 DEF AuthHands
    <3>3. ASSUME NEW q \in AuthPod,
                 aPc'[q] = "markProcessed" \/ (aPc'[q] = "produce" /\ verdict'[q] = A!Approved)
          PROVE  debits'[authorized[aCur[q]]] > 0
      <4>1. CASE aPc'[q] = aPc[q] /\ verdict'[q] = verdict[q]
        <5>1. aCur[q] \in 1 .. Len(authorized) /\ debits[authorized[aCur[q]]] > 0
          BY <3>3, <4>1 DEF AuthHands
        <5>2. authorized[aCur[q]] \in Tx
          BY <5>1, ElementOfSeq DEF TopicsOK
        <5> QED
          BY <2>6, <5>1, <5>2 DEF MarksOK
      <4>2. CASE q = r /\ aPc'[r] = "markProcessed"
        BY <2>1, <2>2, <2>4, <2>6, <4>2 DEF AuthHands
      <4> QED
        BY <2>4, <3>3, <4>1, <4>2, ReasonsAreNot DEF AuthHands
    <3> QED
      BY <2>1, <3>1, <3>2, <3>3 DEF AuthHands
  <2> QED
    BY <2>5, <2>7
<1>6. ASSUME NEW r \in AuthPod, A!MarkProcessed(r) PROVE AuthHands' /\ AuthMakes
  <2>1. /\ aPc[r] = "markProcessed" /\ aPc' = [aPc EXCEPT ![r] = "produce"]
        /\ verdict' = [verdict EXCEPT ![r] = A!Approved]
        /\ UNCHANGED <<authorized, aCommitted, aPos, aCur, debits, settled>>
    BY <1>6 DEF A!MarkProcessed, A!Return, A!GoTo, A!kafkaVars, A!topicVars
  <2>2. aCur[r] \in 1 .. Len(authorized) /\ debits[authorized[aCur[r]]] > 0
    BY <2>1 DEF AuthHands
  <2> QED
    BY <2>1, <2>2 DEF AuthHands, AuthMakes
<1>7. ASSUME NEW r \in AuthPod, A!Produce(r) \/ A!ProduceError(r)
      PROVE  AuthHands' /\ AuthMakes
  <2> DEFINE t == A!InHand(r)
  <2>1. /\ aPc[r] = "produce"
        /\ \E step \in {"fetch", "commit"} : aPc' = [aPc EXCEPT ![r] = step]
        /\ aCur' = aCur \/ aCur' = [aCur EXCEPT ![r] = 0]
        /\ UNCHANGED <<authorized, aCommitted, aPos, verdict, debits>>
    BY <1>7 DEF A!Produce, A!ProduceError, A!GoTo, A!kafkaVars, A!redisVars
  <2>2. t \in Tx /\ t = authorized[aCur[r]]
    BY <2>1, InHandIsOn
  <2>3. \/ settled' = settled
        \/ /\ verdict[r] = A!Approved
           /\ \E n \in {1, 2} : settled' = [settled EXCEPT ![t] = @ + n]
    BY <1>7 DEF A!Produce, A!ProduceError, A!Report, A!topicVars
  <2>4. verdict[r] = A!Approved => debits[t] > 0
    BY <2>1, <2>2 DEF AuthHands
  <2>5. AuthMakes
    <3> HIDE DEF t
    <3> QED
      BY <2>1, <2>2, <2>3, <2>4 DEF AuthMakes, AuthSettles
  <2>6. /\ aPc' \in [AuthPod -> A!Steps] /\ aCur' \in [AuthPod -> Nat]
        /\ aPc'[r] \in {"fetch", "commit"}
        /\ \A q \in AuthPod \ {r} : aPc'[q] = aPc[q] /\ aCur'[q] = aCur[q]
    BY <2>1 DEF AuthHands
  <2>7. AuthHands'
    BY <2>1, <2>6 DEF AuthHands
  <2> QED
    BY <2>5, <2>7
<1>8. ASSUME NEW r \in AuthPod, A!Commit(r) PROVE AuthHands' /\ AuthMakes
  <2>1. /\ aPc' = [aPc EXCEPT ![r] = "fetch"] /\ aCur' = [aCur EXCEPT ![r] = 0]
        /\ aCommitted' = aCur[r] \/ aCommitted' = aCommitted
        /\ UNCHANGED <<authorized, aPos, verdict, debits, settled>>
    BY <1>8 DEF A!Commit, A!GoTo, A!redisVars, A!topicVars
  <2> QED
    BY <2>1, AuthFrame DEF AuthHands
<1>9. ASSUME NEW t \in Tx, A!ExpireMarker(t) \/ A!ExpireHold(t) PROVE AuthHands' /\ AuthMakes
  BY <1>9 DEF A!ExpireMarker, A!ExpireHold, A!kafkaVars, A!handlerVars, A!topicVars,
              AuthHands, AuthMakes
<1>10. /\ \/ \E r \in AuthPod :
                \/ A!Rebalance(r) \/ A!Crash(r) \/ A!Fetch(r) \/ A!IsProcessed(r)
                \/ A!GetAccountBalance(r) \/ A!PlaceHold(r) \/ A!PlaceHoldNetworkError(r)
                \/ A!MarkProcessed(r) \/ A!Produce(r) \/ A!ProduceError(r) \/ A!Commit(r)
          \/ \E t \in Tx : A!ExpireMarker(t) \/ A!ExpireHold(t)
       /\ authorized' = authorized
  BY DEF AuthStep, AuthSends, A!Handle
<1> QED
  BY <1>1, <1>2, <1>3, <1>4, <1>5, <1>6, <1>7, <1>8, <1>9, <1>10

\* The ledger processor writes a debit row for a transaction on its topic.
LedgerPosts ==
    \/ debit' = debit
    \/ \E t \in Tx : On(settledLog, t) /\ debit' = [debit EXCEPT ![t] = @ + 1]

\* A replica that is to write has a transaction in its batch.
LEMMA WriteIsOn ==
    ASSUME TopicsOK, LedgerHands, NEW r \in LedgerPod, lPc[r] = "write"
    PROVE  /\ next[r] \in 1 .. Len(batch[r]) /\ Len(batch[r]) \in Nat
           /\ batch[r][next[r]] \in Nat
           /\ settledLog[batch[r][next[r]]] \in Tx
           /\ On(settledLog, settledLog[batch[r][next[r]]])
<1>1. batch[r] \in Seq(1 .. Len(settledLog)) /\ next[r] \in Nat \ {0} /\ next[r] <= Len(batch[r])
  BY DEF LedgerHands
<1>2. Len(batch[r]) \in Nat
  BY <1>1, LenProperties
<1>3. next[r] \in 1 .. Len(batch[r])
  BY <1>1, <1>2
<1>4. batch[r][next[r]] \in 1 .. Len(settledLog)
  BY <1>1, <1>3, ElementOfSeq
<1>5. Len(settledLog) \in Nat
  BY LenProperties DEF TopicsOK
<1>6. settledLog[batch[r][next[r]]] \in Tx
  BY <1>4, ElementOfSeq DEF TopicsOK
<1> QED
  BY <1>2, <1>3, <1>4, <1>5, <1>6 DEF On

\* What a flush of b leaves behind.
LEMMA FlushKeeps ==
    ASSUME LedgerHands, NEW r \in LedgerPod,
           NEW b \in Seq(1 .. Len(settledLog)), L!Flush(r, b),
           settledLog' = settledLog, lCommitted' \in Nat, lPos' \in [LedgerPod -> Nat],
           msgCh' \in [LedgerPod -> Seq(1 .. Len(settledLog))]
    PROVE  LedgerHands'
<1>1. /\ batch' \in [LedgerPod -> Seq(1 .. Len(settledLog))] /\ batch'[r] = b
      /\ lPc' \in [LedgerPod -> {"select", "write", "commit"}]
      /\ lPc'[r] = IF b = <<>> THEN "select" ELSE "write"
      /\ next' \in [LedgerPod -> Nat \ {0}] /\ next'[r] = 1
      /\ done' \in [LedgerPod -> SUBSET Nat]
      /\ \A q \in LedgerPod \ {r} :
            batch'[q] = batch[q] /\ lPc'[q] = lPc[q] /\ next'[q] = next[q]
  BY DEF L!Flush, LedgerHands
<1>2. Len(b) \in Nat /\ (b # <<>> => Len(b) >= 1)
  BY LenProperties, EmptySeq
<1>3. \A q \in LedgerPod : lPc'[q] = "write" => next'[q] <= Len(batch'[q])
  BY <1>1, <1>2 DEF LedgerHands
<1> QED
  BY <1>1, <1>3 DEF LedgerHands

\* What passing over a transaction of the batch leaves behind.
LEMMA PassKeeps ==
    ASSUME TopicsOK, LedgerHands, NEW r \in LedgerPod, lPc[r] = "write",
           NEW ok, L!Pass(r, ok),
           UNCHANGED <<settledLog, lCommitted, lPos, msgCh>>
    PROVE  LedgerHands'
<1> DEFINE n == Len(batch[r])
<1>1. n \in Nat /\ next[r] \in 1 .. n /\ batch[r][next[r]] \in Nat
  BY WriteIsOn
<1>2. /\ next' \in [LedgerPod -> Nat \ {0}]
      /\ next'[r] = IF next[r] = n THEN 1 ELSE next[r] + 1
  BY <1>1 DEF L!Pass, LedgerHands
<1>3. done' \in [LedgerPod -> SUBSET Nat]
  BY <1>1 DEF L!Pass, LedgerHands
<1>4. /\ lPc' \in [LedgerPod -> {"select", "write", "commit"}]
      /\ lPc'[r] = "write" => next[r] # n
  BY DEF L!Pass, LedgerHands
<1>5. /\ batch' \in [LedgerPod -> Seq(1 .. Len(settledLog))]
      /\ next[r] # n => batch'[r] = batch[r]
  <2>1. <<>> \in Seq(1 .. Len(settledLog))
    BY EmptySeq
  <2> QED
    BY <2>1 DEF L!Pass, LedgerHands
<1>6. \A q \in LedgerPod \ {r} :
         batch'[q] = batch[q] /\ lPc'[q] = lPc[q] /\ next'[q] = next[q]
  BY DEF L!Pass, LedgerHands
<1>7. \A q \in LedgerPod : lPc'[q] = "write" => next'[q] <= Len(batch'[q])
  <2>1. ASSUME lPc'[r] = "write" PROVE next'[r] <= Len(batch'[r])
    <3>1. next[r] # n /\ next'[r] = next[r] + 1 /\ Len(batch'[r]) = n
      BY <1>2, <1>4, <1>5, <2>1
    <3> HIDE DEF n
    <3> QED
      BY <1>1, <3>1
  <2>2. ASSUME NEW q \in LedgerPod \ {r}, lPc'[q] = "write"
        PROVE  next'[q] <= Len(batch'[q])
    BY <1>6, <2>2 DEF LedgerHands
  <2> QED
    BY <2>1, <2>2
<1> QED
  BY <1>2, <1>3, <1>4, <1>5, <1>7 DEF LedgerHands

\* A step of the ledger processor writes at most one debit row, and that for a
\* transaction it has read.
LEMMA LedgerMoves ==
    ASSUME TopicsOK, LedgerHands, LedgerStep
    PROVE  settledLog' = settledLog /\ LedgerHands' /\ LedgerPosts
<1>0. settledLog' = settledLog
  BY DEF LedgerStep, LedgerEnds
<1>1. ASSUME NEW r \in LedgerPod, L!Rebalance(r) \/ L!Cancel(r)
      PROVE  LedgerHands' /\ LedgerPosts
  <2>1. /\ lPos' = [lPos EXCEPT ![r] = lCommitted] \/ lPos' = lPos
        /\ UNCHANGED <<lCommitted, msgCh, batch, lPc, next, done, debit>>
    BY <1>1 DEF L!Rebalance, L!Cancel, L!loopVars, L!kafkaVars
  <2> QED
    BY <1>0, <2>1 DEF LedgerHands, LedgerPosts
<1>2. ASSUME NEW r \in LedgerPod, L!Restart(r)
      PROVE  LedgerHands' /\ LedgerPosts
  <2>1. <<>> \in Seq(1 .. Len(settledLog))
    BY EmptySeq
  <2>2. /\ msgCh' \in [LedgerPod -> Seq(1 .. Len(settledLog))]
        /\ batch' \in [LedgerPod -> Seq(1 .. Len(settledLog))]
        /\ lPc' \in [LedgerPod -> {"select", "write", "commit"}] /\ lPc'[r] = "select"
        /\ next' \in [LedgerPod -> Nat \ {0}]
        /\ done' \in [LedgerPod -> SUBSET Nat]
        /\ \A q \in LedgerPod \ {r} :
              batch'[q] = batch[q] /\ lPc'[q] = lPc[q] /\ next'[q] = next[q]
        /\ UNCHANGED <<lCommitted, lPos, debit>>
    BY <1>2, <2>1 DEF L!Restart, LedgerHands
  <2>3. \A q \in LedgerPod : lPc'[q] = "write" => next'[q] <= Len(batch'[q])
    BY <2>2 DEF LedgerHands
  <2> QED
    BY <1>0, <2>2, <2>3 DEF LedgerHands, LedgerPosts
<1>3. ASSUME NEW r \in LedgerPod, L!Fetch(r)
      PROVE  LedgerHands' /\ LedgerPosts
  <2>1. UNCHANGED <<lCommitted, batch, lPc, next, done, debit>>
    BY <1>3 DEF L!Fetch, L!kafkaVars, L!loopVars
  <2>2. /\ Len(settledLog) \in Nat /\ lPos[r] \in Nat /\ lPos[r] < Len(settledLog)
        /\ msgCh[r] \in Seq(1 .. Len(settledLog))
    BY <1>3, LenProperties DEF L!Fetch, TopicsOK, LedgerHands
  <2>3. lPos[r] + 1 \in 1 .. Len(settledLog) /\ lPos[r] + 1 \in Nat
    BY <2>2
  <2> DEFINE c == Append(msgCh[r], lPos[r] + 1)
  <2>4. c \in Seq(1 .. Len(settledLog))
    BY <2>2, <2>3, AppendProperties
  <2>5. msgCh' = [msgCh EXCEPT ![r] = c] /\ lPos' = [lPos EXCEPT ![r] = lPos[r] + 1]
    BY <1>3 DEF L!Fetch
  <2>6. /\ msgCh' \in [LedgerPod -> Seq(1 .. Len(settledLog))]
        /\ lPos' \in [LedgerPod -> Nat]
    BY <2>3, <2>4, <2>5 DEF LedgerHands
  <2> QED
    BY <1>0, <2>1, <2>6 DEF LedgerHands, LedgerPosts
<1>4. ASSUME NEW r \in LedgerPod, L!Timer(r)
      PROVE  LedgerHands' /\ LedgerPosts
  <2>1. UNCHANGED <<lCommitted, lPos, msgCh, debit>> /\ L!Flush(r, batch[r])
    BY <1>4 DEF L!Timer, L!kafkaVars
  <2> QED
    BY <1>0, <2>1, FlushKeeps DEF LedgerHands, LedgerPosts
<1>5. ASSUME NEW r \in LedgerPod, L!Receive(r)
      PROVE  LedgerHands' /\ LedgerPosts
  <2> DEFINE o == Head(msgCh[r])
             b == Append(batch[r], o)
  <2>1. UNCHANGED <<lPos, debit>> /\ msgCh[r] # <<>> /\ lPc[r] = "select"
        /\ msgCh' = [msgCh EXCEPT ![r] = Tail(msgCh[r])]
    BY <1>5 DEF L!Receive
  <2>2. /\ msgCh[r] \in Seq(1 .. Len(settledLog)) /\ batch[r] \in Seq(1 .. Len(settledLog))
        /\ Len(settledLog) \in Nat
    BY LenProperties DEF LedgerHands, TopicsOK
  <2>3. o \in 1 .. Len(settledLog) /\ Tail(msgCh[r]) \in Seq(1 .. Len(settledLog))
    BY <2>1, <2>2, HeadTailProperties
  <2>4. msgCh' \in [LedgerPod -> Seq(1 .. Len(settledLog))]
    BY <2>1, <2>3 DEF LedgerHands
  <2>5. b \in Seq(1 .. Len(settledLog)) /\ o \in Nat
    BY <2>2, <2>3, AppendProperties
  <2>6. settledLog[o] \in Tx
    BY <2>3, ElementOfSeq DEF TopicsOK
  <2>7. settledLog[o] # Malformed
    BY <2>6, ConstantsAssumption
  <2>8. lCommitted' = lCommitted
        /\ \/ L!Flush(r, b)
           \/ batch' = [batch EXCEPT ![r] = b] /\ UNCHANGED <<lPc, next, done>>
    BY <1>5, <2>7 DEF L!Receive
  <2> HIDE DEF o, b
  <2>9. lCommitted' \in Nat /\ lPos' \in [LedgerPod -> Nat]
    BY <2>1, <2>8 DEF LedgerHands
  <2>10. CASE L!Flush(r, b)
    BY <1>0, <2>1, <2>4, <2>5, <2>9, <2>10, FlushKeeps DEF LedgerPosts
  <2>11. CASE batch' = [batch EXCEPT ![r] = b] /\ UNCHANGED <<lPc, next, done>>
    <3>1. /\ batch' \in [LedgerPod -> Seq(1 .. Len(settledLog))]
          /\ \A q \in LedgerPod \ {r} : batch'[q] = batch[q]
      BY <2>5, <2>11 DEF LedgerHands
    <3>2. \A q \in LedgerPod : lPc'[q] = "write" => next'[q] <= Len(batch'[q])
      BY <2>1, <2>11, <3>1 DEF LedgerHands
    <3> QED
      BY <1>0, <2>1, <2>4, <2>8, <2>9, <2>11, <3>1, <3>2 DEF LedgerHands, LedgerPosts
  <2> QED
    BY <2>8, <2>10, <2>11
<1>6. ASSUME NEW r \in LedgerPod, L!Write(r)
      PROVE  LedgerHands' /\ LedgerPosts
  <2> DEFINE t == settledLog[batch[r][next[r]]]
  <2>1. /\ lPc[r] = "write" /\ UNCHANGED <<settledLog, lCommitted, lPos, msgCh>>
        /\ debit' = debit \/ debit' = [debit EXCEPT ![t] = @ + 1]
        /\ \E ok \in {TRUE, FALSE, L!FirstInsertSucceeds(t)} : L!Pass(r, ok)
    BY <1>0, <1>6 DEF L!Write, L!InsertBoth, L!InsertNone, L!kafkaVars
  <2>2. t \in Tx /\ On(settledLog, t)
    BY <2>1, WriteIsOn
  <2>3. LedgerHands'
    BY <2>1, PassKeeps
  <2> HIDE DEF t
  <2> QED
    BY <2>1, <2>2, <2>3 DEF LedgerPosts
<1>7. ASSUME NEW r \in LedgerPod, L!Commit(r)
      PROVE  LedgerHands' /\ LedgerPosts
  <2>1. /\ UNCHANGED <<lPos, msgCh, debit>> /\ L!Flush(r, <<>>)
        /\ lCommitted' \in done[r] \/ lCommitted' = lCommitted
    BY <1>7 DEF L!Commit
  <2>2. lCommitted' \in Nat
    BY <2>1 DEF LedgerHands
  <2>3. <<>> \in Seq(1 .. Len(settledLog))
    BY EmptySeq
  <2> QED
    BY <1>0, <2>1, <2>2, <2>3, FlushKeeps DEF LedgerHands, LedgerPosts
<1>8. \E r \in LedgerPod :
         \/ L!Rebalance(r) \/ L!Cancel(r) \/ L!Restart(r) \/ L!Fetch(r)
         \/ L!Timer(r) \/ L!Receive(r) \/ L!Write(r) \/ L!Commit(r)
  BY DEF LedgerStep, L!MainLoop, L!Crash, L!Exit
<1> QED
  BY <1>0, <1>1, <1>2, <1>3, <1>4, <1>5, <1>6, <1>7, <1>8

\* The gateway puts messages about one transaction on its topic, or one that
\* cannot be read.
GatewayAdds ==
    \/ pending' = pending
    \/ \E t \in Tx, n \in Nat : pending' = pending \o [i \in 1 .. n |-> Payload(t)]

\* A step of the gateway is about one transaction.
LEMMA GatewayMoves ==
    ASSUME GatewayStep
    PROVE  GatewayAdds
<1>1. ASSUME NEW t \in Tx, NEW n \in Nat, Deliver(t, n) PROVE GatewayAdds
  BY <1>1 DEF Deliver, GatewayAdds
<1>2. ASSUME NEW t \in Tx, Handle(t) PROVE GatewayAdds
  <2>1. pending' = pending \/ \E n \in {0, 1, 2} : Deliver(t, n)
    BY <1>2 DEF Handle, Write, WriteError, WriteLate, Reply
  <2> QED
    BY <1>1, <2>1 DEF GatewayAdds
<1>3. pending' = pending \/ \E t \in Tx : Handle(t)
  BY DEF GatewayStep, Post, Crash
<1> QED
  BY <1>2, <1>3 DEF GatewayAdds
-----------------------------------------------------------------------------
\* What a longer topic leaves alone.

\* What is on a topic stays there.
LEMMA OnGrows ==
    ASSUME NEW S, NEW log \in Seq(S), NEW more \in Seq(S), NEW t, On(log, t)
    PROVE  On(log \o more, t)
  BY AppendKeeps DEF On

\* The hands of the fraud service, when the gateway writes.
LEMMA FraudFrame ==
    ASSUME TopicsOK, FraudHands, NEW more \in Seq(Tx \cup {Malformed}),
           pending' = pending \o more, UNCHANGED fraudVars
    PROVE  FraudHands'
<1>1. /\ 1 .. Len(pending) \subseteq 1 .. Len(pending')
      /\ \A i \in 1 .. Len(pending) : pending'[i] = pending[i]
  BY AppendKeeps DEF TopicsOK
<1> QED
  BY <1>1 DEF FraudHands, fraudVars

\* Those of the authorization service, when the fraud service does.
LEMMA AuthorizedFrame ==
    ASSUME TopicsOK, AuthHands, NEW more \in Seq(Tx),
           authorized' = authorized \o more, UNCHANGED authVars
    PROVE  AuthHands'
<1>1. /\ 1 .. Len(authorized) \subseteq 1 .. Len(authorized')
      /\ \A i \in 1 .. Len(authorized) : authorized'[i] = authorized[i]
  BY AppendKeeps DEF TopicsOK
<1>2. UNCHANGED <<aCommitted, aPos, aCur, aPc, verdict, debits>>
  BY DEF authVars
<1>3. \A r \in AuthPod : aPc[r] \notin {"fetch", "commit"} =>
         aCur[r] \in 1 .. Len(authorized') /\ authorized'[aCur[r]] = authorized[aCur[r]]
  BY <1>1 DEF AuthHands
<1> QED
  BY <1>2, <1>3 DEF AuthHands

\* Those of the ledger processor, when the authorization service does.
LEMMA LedgerFrame ==
    ASSUME TopicsOK, LedgerHands, NEW more \in Seq(Tx),
           settledLog' = settledLog \o more, UNCHANGED ledgerVars
    PROVE  LedgerHands'
<1>1. 1 .. Len(settledLog) \subseteq 1 .. Len(settledLog')
  BY AppendKeeps DEF TopicsOK
<1>2. \A s \in Seq(1 .. Len(settledLog)) : s \in Seq(1 .. Len(settledLog'))
  BY <1>1, SeqMonotonic
<1>3. UNCHANGED <<lCommitted, lPos, msgCh, batch, lPc, next, done>>
  BY DEF ledgerVars
<1>4. /\ msgCh \in [LedgerPod -> Seq(1 .. Len(settledLog'))]
      /\ batch \in [LedgerPod -> Seq(1 .. Len(settledLog'))]
  BY <1>2 DEF LedgerHands
<1> QED
  BY <1>3, <1>4 DEF LedgerHands

-----------------------------------------------------------------------------
\* The invariant.

\* A topic that was extended by messages about transactions that have a mark
\* holds only such.
LEMMA AllMarked ==
    ASSUME NEW log \in Seq(Tx), NEW M \in SUBSET Tx, NEW more \in Seq(M),
           \A i \in 1 .. Len(log) : log[i] \in M
    PROVE  /\ log \o more \in Seq(Tx)
           /\ \A i \in 1 .. Len(log \o more) : (log \o more)[i] \in M
<1>1. log \in Seq(M)
  <2>1. \A i \in 1 .. Len(log) : log[i] \in M
    OBVIOUS
  <2>2. log = [i \in 1 .. Len(log) |-> log[i]] /\ Len(log) \in Nat
    BY SeqDef, LenProperties
  <2> QED
    BY <2>1, <2>2
<1>2. log \o more \in Seq(M)
  BY <1>1, ConcatProperties
<1>3. log \o more \in Seq(Tx)
  BY <1>2, SeqMonotonic
<1> QED
  BY <1>2, <1>3, ElementOfSeq

\* The gateway only makes its topic longer.
LEMMA GatewayKeeps ==
    ASSUME PipeInv, GatewayStep
    PROVE  PipeInv'
<1>1. UNCHANGED <<fraudVars, authorized, authVars, settledLog, ledgerVars>>
  BY DEF GatewayStep, GatewaySends
<1>2. PICK more \in Seq(Tx \cup {Malformed}) : pending' = pending \o more
  <2>1. pending = pending \o <<>> /\ <<>> \in Seq(Tx \cup {Malformed})
    BY EmptySeq, ConcatEmptySeq DEF PipeInv, TopicsOK
  <2>2. ASSUME NEW t \in Tx, NEW n \in Nat
        PROVE  [i \in 1 .. n |-> Payload(t)] \in Seq(Tx \cup {Malformed})
    BY CopiesType DEF Payload
  <2> QED
    BY <2>1, <2>2, GatewayMoves DEF GatewayAdds
<1>3. FraudHands'
  BY <1>1, <1>2, FraudFrame DEF PipeInv
<1>4. pending' \in Seq(Tx \cup {Malformed}) /\ \A t \in Tx : On(pending, t) => On(pending', t)
  BY <1>2, AppendKeeps, OnGrows DEF PipeInv, TopicsOK
<1>5. UNCHANGED <<sent, debits, settled, debit>>
  BY <1>1 DEF fraudVars, authVars, ledgerVars
<1>6. AuthHands' /\ LedgerHands'
  BY <1>1 DEF PipeInv, AuthHands, LedgerHands, authVars, ledgerVars
<1>7. Chain'
  BY <1>1, <1>4, <1>5 DEF PipeInv, Chain, Approved
<1> QED
  BY <1>1, <1>3, <1>4, <1>5, <1>6, <1>7 DEF PipeInv, TopicsOK, MarksOK

\* What the fraud service publishes it has approved.
LEMMA FraudKeeps ==
    ASSUME PipeInv, FraudStep
    PROVE  PipeInv'
<1> DEFINE M == {t \in Tx : sent'[t]["APPROVE"] > 0}
<1>1. /\ authorized' = authorized \o Produced(Approvals, Approvals')
      /\ UNCHANGED <<gatewayVars, authVars, settledLog, ledgerVars>>
  BY DEF FraudStep, FraudSends
<1>2. /\ pending' = pending /\ FraudHands'
      /\ sent' \in [Tx -> [F!Recommendations -> Nat]] /\ FraudAdds
  BY FraudMoves DEF PipeInv
<1>3. \A t \in Tx : /\ sent[t]["APPROVE"] \in Nat /\ sent'[t]["APPROVE"] \in Nat
                    /\ sent'[t]["APPROVE"] >= sent[t]["APPROVE"]
                    /\ sent'[t]["APPROVE"] > sent[t]["APPROVE"] => On(pending, t)
  <2>1. "APPROVE" \in F!Recommendations
    BY DEF F!Recommendations
  <2>2. \A t \in Tx : sent[t]["APPROVE"] \in Nat /\ sent'[t]["APPROVE"] \in Nat
    BY <1>2, <2>1 DEF PipeInv, MarksOK
  <2> QED
    BY <1>2, <2>2 DEF FraudAdds
<1>4. Produced(Approvals, Approvals') \in Seq(M)
  <2>1. Approvals \in [Tx -> Nat] /\ Approvals' \in [Tx -> Nat]
    BY <1>3 DEF Approvals
  <2>2. {t \in Tx : Approvals'[t] > Approvals[t]} \subseteq M
    BY <1>3 DEF Approvals
  <2> QED
    BY <2>1, <2>2, ProducedGrew, SeqMonotonic
<1>5. \A i \in 1 .. Len(authorized) : authorized[i] \in M
  <2>1. \A i \in 1 .. Len(authorized) : authorized[i] \in Tx
    BY ElementOfSeq DEF PipeInv, TopicsOK
  <2> QED
    BY <1>3, <2>1 DEF PipeInv, Chain, Approved
<1>6. /\ authorized' \in Seq(Tx)
      /\ \A i \in 1 .. Len(authorized') : authorized'[i] \in M
  BY <1>1, <1>4, <1>5, AllMarked DEF PipeInv, TopicsOK
<1>7. AuthHands'
  <2>1. Produced(Approvals, Approvals') \in Seq(Tx)
    BY <1>4, SeqMonotonic
  <2> QED
    BY <1>1, <2>1, AuthorizedFrame DEF PipeInv
<1>8. UNCHANGED <<debits, settled, debit>>
  BY <1>1 DEF authVars, ledgerVars
<1>9. LedgerHands'
  BY <1>1 DEF PipeInv, LedgerHands, ledgerVars
<1>10. Chain'
  <2>1. \A t \in Tx : sent'[t]["APPROVE"] > 0 => On(pending', t)
    BY <1>2, <1>3 DEF PipeInv, Chain, Approved
  <2>2. \A i \in 1 .. Len(authorized') : sent'[authorized'[i]]["APPROVE"] > 0
    BY <1>6
  <2>3. \A t \in Tx : debits'[t] > 0 => sent'[t]["APPROVE"] > 0
    BY <1>3, <1>8 DEF PipeInv, Chain, Approved
  <2>4. /\ \A t \in Tx : settled'[t] > 0 => debits'[t] > 0
        /\ \A i \in 1 .. Len(settledLog') : settled'[settledLog'[i]] > 0
        /\ \A t \in Tx : debit'[t] > 0 => settled'[t] > 0
    BY <1>1, <1>8 DEF PipeInv, Chain
  <2> QED
    BY <2>1, <2>2, <2>3, <2>4 DEF Chain, Approved
<1> QED
  BY <1>1, <1>2, <1>6, <1>7, <1>8, <1>9, <1>10 DEF PipeInv, TopicsOK, MarksOK

\* What the authorization service publishes as settled it has taken.
LEMMA AuthKeeps ==
    ASSUME PipeInv, AuthStep
    PROVE  PipeInv'
<1> DEFINE M == {t \in Tx : settled'[t] > 0}
<1>1. /\ settledLog' = settledLog \o Produced(settled, settled')
      /\ UNCHANGED <<pending, gatewayVars, fraudVars, authorized, ledgerVars>>
  BY DEF AuthStep, AuthSends
<1>2. AuthHands' /\ AuthMakes
  BY AuthMoves DEF PipeInv
<1>3. \A t \in Tx : debits[t] \in Nat /\ settled[t] \in Nat
  BY DEF PipeInv, MarksOK
<1>4. /\ debits' \in [Tx -> Nat] /\ settled' \in [Tx -> Nat]
      /\ \A t \in Tx : /\ debits'[t] >= debits[t] /\ settled'[t] >= settled[t]
                       /\ debits'[t] > debits[t] => On(authorized, t)
                       /\ settled'[t] > settled[t] => debits[t] > 0
  <2>1. CASE UNCHANGED <<debits, settled>>
    BY <1>3, <2>1 DEF PipeInv, MarksOK
  <2>2. CASE AuthTakes
    <3>1. PICK t \in Tx : /\ On(authorized, t) /\ debits' = [debits EXCEPT ![t] = debits[t] + 1]
                          /\ settled' = settled
      BY <2>2 DEF AuthTakes
    <3>2. debits' \in [Tx -> Nat]
          /\ \A u \in Tx : debits'[u] = IF u = t THEN debits[t] + 1 ELSE debits[u]
      BY <1>3, <3>1 DEF PipeInv, MarksOK
    <3> QED
      BY <1>3, <3>1, <3>2 DEF PipeInv, MarksOK
  <2>3. CASE AuthSettles
    <3>1. PICK t \in Tx, n \in {1, 2} :
             /\ debits[t] > 0 /\ debits' = debits
             /\ settled' = [settled EXCEPT ![t] = settled[t] + n]
      BY <2>3 DEF AuthSettles
    <3>2. settled' \in [Tx -> Nat]
          /\ \A u \in Tx : settled'[u] = IF u = t THEN settled[t] + n ELSE settled[u]
      BY <1>3, <3>1 DEF PipeInv, MarksOK
    <3> QED
      BY <1>3, <3>1, <3>2 DEF PipeInv, MarksOK
  <2> QED
    BY <1>2, <2>1, <2>2, <2>3 DEF AuthMakes
<1>5. Produced(settled, settled') \in Seq(M)
  <2>1. {t \in Tx : settled'[t] > settled[t]} \subseteq M
    BY <1>3, <1>4
  <2> QED
    BY <1>4, <2>1, ProducedGrew, SeqMonotonic DEF PipeInv, MarksOK
<1>6. \A i \in 1 .. Len(settledLog) : settledLog[i] \in M
  <2>1. \A i \in 1 .. Len(settledLog) : settledLog[i] \in Tx
    BY ElementOfSeq DEF PipeInv, TopicsOK
  <2> QED
    BY <1>3, <1>4, <2>1 DEF PipeInv, Chain
<1>7. /\ settledLog' \in Seq(Tx)
      /\ \A i \in 1 .. Len(settledLog') : settledLog'[i] \in M
  BY <1>1, <1>5, <1>6, AllMarked DEF PipeInv, TopicsOK
<1>8. LedgerHands'
  <2>1. Produced(settled, settled') \in Seq(Tx)
    BY <1>5, SeqMonotonic
  <2> QED
    BY <1>1, <2>1, LedgerFrame DEF PipeInv
<1>9. UNCHANGED <<sent, debit>> /\ FraudHands'
  BY <1>1 DEF PipeInv, FraudHands, fraudVars, ledgerVars
<1>10. \A t \in Tx : On(authorized, t) => Approved(t)
  BY DEF PipeInv, Chain, On
<1>11. Chain'
  <2>1. \A t \in Tx : debits'[t] > 0 => Approved(t)
    BY <1>3, <1>4, <1>10 DEF PipeInv, Chain
  <2>2. \A t \in Tx : settled'[t] > 0 => debits'[t] > 0
    BY <1>3, <1>4 DEF PipeInv, Chain
  <2>3. \A t \in Tx : debit[t] > 0 => settled'[t] > 0
    BY <1>3, <1>4 DEF PipeInv, Chain
  <2> QED
    BY <1>1, <1>7, <1>9, <2>1, <2>2, <2>3 DEF PipeInv, Chain, Approved
<1> QED
  BY <1>1, <1>2, <1>4, <1>7, <1>8, <1>9, <1>11 DEF PipeInv, TopicsOK, MarksOK

\* What the ledger processor posts has been settled.
LEMMA LedgerKeeps ==
    ASSUME PipeInv, LedgerStep
    PROVE  PipeInv'
<1>1. UNCHANGED <<pending, gatewayVars, fraudVars, authorized, authVars, settledLog>>
  BY DEF LedgerStep, LedgerEnds
<1>2. LedgerHands' /\ LedgerPosts
  BY LedgerMoves DEF PipeInv
<1>3. UNCHANGED <<sent, debits, settled>> /\ FraudHands' /\ AuthHands'
  BY <1>1 DEF PipeInv, FraudHands, AuthHands, fraudVars, authVars
<1>4. debit' \in [Tx -> Nat] /\ \A t \in Tx : debit'[t] > 0 => settled[t] > 0
  <2>1. \A t \in Tx : debit[t] \in Nat
    BY DEF PipeInv, MarksOK
  <2>2. \A t \in Tx : On(settledLog, t) => settled[t] > 0
    BY DEF PipeInv, Chain, On
  <2>3. CASE debit' = debit
    BY <2>3 DEF PipeInv, MarksOK, Chain
  <2>4. ASSUME NEW t \in Tx, On(settledLog, t), debit' = [debit EXCEPT ![t] = @ + 1]
        PROVE  debit' \in [Tx -> Nat] /\ \A u \in Tx : debit'[u] > 0 => settled[u] > 0
    BY <2>1, <2>2, <2>4 DEF PipeInv, MarksOK, Chain
  <2> QED
    BY <1>2, <2>3, <2>4 DEF LedgerPosts
<1>5. Chain'
  BY <1>1, <1>3, <1>4 DEF PipeInv, Chain, Approved
<1> QED
  BY <1>1, <1>2, <1>3, <1>4, <1>5 DEF PipeInv, TopicsOK, MarksOK

\* The invariant holds at the start.
LEMMA PipeInvInit == PipeInit => PipeInv
<1> SUFFICES ASSUME PipeInit PROVE PipeInv
  OBVIOUS
<1>1. /\ pending = <<>> /\ authorized = <<>> /\ settledLog = <<>>
      /\ <<>> \in Seq(Tx) /\ <<>> \in Seq(Tx \cup {Malformed}) /\ Len(<<>>) = 0
  BY EmptySeq DEF PipeInit, Init, A!Init, L!Init
<1>2. "APPROVE" \in F!Recommendations
  BY DEF F!Recommendations
<1>3. MarksOK
  BY DEF PipeInit, F!Init, A!Init, L!Init, MarksOK
<1>4. FraudHands
  BY <1>2 DEF PipeInit, F!Init, FraudHands
<1>5. AuthHands
  BY DEF PipeInit, A!Init, AuthHands, A!Steps, A!Reasons, A!Approved
<1>6. LedgerHands
  <2>1. <<>> \in Seq(1 .. Len(settledLog))
    BY EmptySeq
  <2> QED
    BY <2>1 DEF PipeInit, L!Init, LedgerHands
<1>7. Chain
  <2>1. \A t \in Tx : sent[t]["APPROVE"] = 0 /\ debits[t] = 0 /\ settled[t] = 0 /\ debit[t] = 0
    BY <1>2 DEF PipeInit, F!Init, A!Init, L!Init
  <2> QED
    BY <1>1, <2>1 DEF Chain, Approved
<1> QED
  BY <1>1, <1>3, <1>4, <1>5, <1>6, <1>7 DEF PipeInv, TopicsOK

\* Every step of every component keeps it.
LEMMA PipeInvStep == PipeInv /\ [PipeNext]_pipeVars => PipeInv'
<1>1. ASSUME PipeInv, UNCHANGED pipeVars PROVE PipeInv'
  <2>1. /\ UNCHANGED <<pending, authorized, settledLog, sent, debits, settled, debit>>
        /\ UNCHANGED <<fCommitted, fPos, fCur, fPc, decision>>
        /\ UNCHANGED <<aCommitted, aPos, aCur, aPc, verdict>>
        /\ UNCHANGED <<lCommitted, lPos, msgCh, batch, lPc, next, done>>
    BY <1>1 DEF pipeVars, fraudVars, authVars, ledgerVars
  <2> QED
    BY <1>1, <2>1 DEF PipeInv, TopicsOK, MarksOK, FraudHands, AuthHands, LedgerHands,
                      Chain, Approved
<1> QED
  BY <1>1, GatewayKeeps, FraudKeeps, AuthKeeps, LedgerKeeps DEF PipeNext
-----------------------------------------------------------------------------
\* The life of a transaction.

\* The stage, by the furthest of the marks left behind.
Furthest(posted, paid, held, approved, queued) ==
    IF posted THEN "posted"
    ELSE IF paid THEN "settled"
    ELSE IF held THEN "held"
    ELSE IF approved THEN "approved"
    ELSE IF queued THEN "queued" ELSE "new"

\* Stage now.
LEMMA StageIs ==
    ASSUME MarksOK, NEW t \in Tx
    PROVE  Stage(t) = Furthest(debit[t] > 0, settled[t] > 0, debits[t] > 0,
                               sent[t]["APPROVE"] > 0, On(pending, t))
<1>1. debit[t] \in Nat /\ settled[t] \in Nat /\ debits[t] \in Nat
  BY DEF MarksOK
<1> QED
  BY <1>1 DEF Stage, Furthest, On

\* Stage in the next state.
LEMMA StageWillBe ==
    ASSUME MarksOK', NEW t \in Tx
    PROVE  Stage(t)' = Furthest(debit'[t] > 0, settled'[t] > 0, debits'[t] > 0,
                                sent'[t]["APPROVE"] > 0, On(pending', t))
<1>1. debit'[t] \in Nat /\ settled'[t] \in Nat /\ debits'[t] \in Nat
  BY DEF MarksOK
<1> QED
  BY <1>1 DEF Stage, Furthest, On

\* A stage and the one after it.
NextStages == {<<"new", "queued">>, <<"queued", "approved">>, <<"approved", "held">>,
           <<"held", "settled">>, <<"settled", "posted">>}

\* One transaction that comes one stage further is a step of its life.
LEMMA OneAdvances ==
    ASSUME NEW t \in Tx, \A u \in Tx \ {t} : Stage(u)' = Stage(u),
           Stage(t)' = Stage(t) \/ <<Stage(t), Stage(t)'>> \in NextStages
    PROVE  [Life!Next]_([u \in Tx |-> Stage(u)])
<1> DEFINE now == [u \in Tx |-> Stage(u)]
           later == [u \in Tx |-> Stage(u)']
<1>1. CASE Stage(t)' = Stage(t)
  <2>1. now = later
    BY <1>1
  <2> QED
    BY <2>1
<1>2. CASE <<Stage(t), Stage(t)'>> \in NextStages
  <2>1. PICK i \in 1 .. 5 : Stage(t) = Life!Stages[i] /\ Stage(t)' = Life!Stages[i + 1]
    BY <1>2 DEF NextStages, Life!Stages
  <2>2. later = [now EXCEPT ![t] = Life!Stages[i + 1]] /\ now[t] = Life!Stages[i]
    BY <2>1
  <2>3. Life!Advance(t)
    BY <2>2 DEF Life!Advance
  <2> QED
    BY <2>3 DEF Life!Next
<1> QED
  BY <1>1, <1>2

\* What the gateway delivers is about one transaction only.
LEMMA DeliversOne ==
    ASSUME pending \in Seq(Tx \cup {Malformed}), NEW t \in Tx, NEW n \in Nat,
           pending' = pending \o [i \in 1 .. n |-> Payload(t)]
    PROVE  /\ \A u \in Tx : On(pending, u) => On(pending', u)
           /\ \A u \in Tx : u # t \/ n = 0 => (On(pending', u) <=> On(pending, u))
<1> DEFINE more == [i \in 1 .. n |-> Payload(t)]
<1>1. more \in Seq(Tx \cup {Malformed}) /\ Len(more) = n
  BY CopiesType DEF Payload
<1>2. \A u \in Tx : On(pending, u) => On(pending', u)
  BY <1>1, OnGrows
<1>3. ASSUME NEW u \in Tx, u # t \/ n = 0, On(pending', u) PROVE On(pending, u)
  <2>1. PICK i \in 1 .. Len(pending') : pending'[i] = u
    BY <1>3 DEF On
  <2>2. Len(pending) \in Nat /\ Len(pending') = Len(pending) + n
        /\ \A j \in 1 .. Len(pending') :
              pending'[j] = IF j <= Len(pending) THEN pending[j] ELSE more[j - Len(pending)]
    BY <1>1, ConcatProperties, LenProperties
  <2>3. u # Payload(t) \/ n = 0
    BY <1>3, ConstantsAssumption DEF Payload
  <2>4. i <= Len(pending)
    <3>1. SUFFICES ASSUME ~(i <= Len(pending)) PROVE FALSE
      OBVIOUS
    <3>2. i - Len(pending) \in 1 .. n
      BY <2>2, <3>1
    <3> QED
      BY <2>1, <2>2, <2>3, <3>1, <3>2
  <2> QED
    BY <2>1, <2>2, <2>4 DEF On
<1> QED
  BY <1>2, <1>3

\* A step of the gateway queues at most one transaction.
LEMMA GatewayAdvances ==
    ASSUME PipeInv, GatewayStep
    PROVE  [Life!Next]_([u \in Tx |-> Stage(u)])
<1>1. UNCHANGED <<sent, debits, settled, debit>>
  BY DEF GatewayStep, GatewaySends, fraudVars, authVars, ledgerVars
<1>2. MarksOK /\ MarksOK'
  BY GatewayKeeps DEF PipeInv
<1>3. CASE pending' = pending
  <2>1. \A u \in Tx : Stage(u)' = Stage(u)
    BY <1>1, <1>2, <1>3, StageIs, StageWillBe
  <2>2. [u \in Tx |-> Stage(u)]' = [u \in Tx |-> Stage(u)]
    BY <2>1
  <2> QED
    BY <2>2
<1>4. ASSUME NEW t \in Tx, NEW n \in Nat, pending' = pending \o [i \in 1 .. n |-> Payload(t)]
      PROVE  [Life!Next]_([u \in Tx |-> Stage(u)])
  <2>1. /\ \A u \in Tx : On(pending, u) => On(pending', u)
        /\ \A u \in Tx \ {t} : On(pending', u) <=> On(pending, u)
    BY <1>4, DeliversOne DEF PipeInv, TopicsOK
  <2>2. \A u \in Tx \ {t} : Stage(u)' = Stage(u)
    BY <1>1, <1>2, <2>1, StageIs, StageWillBe DEF Furthest
  <2>3. Stage(t)' = Stage(t) \/ <<Stage(t), Stage(t)'>> \in NextStages
    BY <1>1, <1>2, <2>1, StageIs, StageWillBe DEF Furthest, NextStages
  <2> QED
    BY <2>2, <2>3, OneAdvances
<1> QED
  BY <1>3, <1>4, GatewayMoves DEF GatewayAdds

\* One of the fraud service approves at most one that is queued.
LEMMA FraudAdvances ==
    ASSUME PipeInv, FraudStep
    PROVE  [Life!Next]_([u \in Tx |-> Stage(u)])
<1>1. UNCHANGED <<pending, debits, settled, debit>> /\ FraudAdds
  BY FraudMoves DEF PipeInv, FraudStep, FraudSends, authVars, ledgerVars
<1>2. MarksOK /\ MarksOK' /\ Chain
  BY FraudKeeps DEF PipeInv
<1>3. CASE sent' = sent
  <2>1. \A u \in Tx : Stage(u)' = Stage(u)
    BY <1>1, <1>2, <1>3, StageIs, StageWillBe
  <2>2. [u \in Tx |-> Stage(u)]' = [u \in Tx |-> Stage(u)]
    BY <2>1
  <2> QED
    BY <2>2
<1>4. ASSUME NEW t \in Tx, On(pending, t), \A u \in Tx \ {t} : sent'[u] = sent[u],
             sent'[t]["APPROVE"] >= sent[t]["APPROVE"]
      PROVE  [Life!Next]_([u \in Tx |-> Stage(u)])
  <2>1. \A u \in Tx \ {t} : Stage(u)' = Stage(u)
    BY <1>1, <1>2, <1>4, StageIs, StageWillBe
  <2>2. sent[t]["APPROVE"] \in Nat /\ sent'[t]["APPROVE"] \in Nat
    BY <1>2 DEF MarksOK, F!Recommendations
  <2>3. sent[t]["APPROVE"] > 0 => sent'[t]["APPROVE"] > 0
    BY <1>4, <2>2
  <2>4. /\ debits[t] > 0 => sent[t]["APPROVE"] > 0
        /\ settled[t] > 0 => debits[t] > 0
        /\ debit[t] > 0 => settled[t] > 0
    BY <1>2 DEF Chain, Approved
  <2>5. Stage(t)' = Stage(t) \/ <<Stage(t), Stage(t)'>> \in NextStages
    BY <1>1, <1>2, <1>4, <2>3, <2>4, StageIs, StageWillBe DEF Furthest, NextStages
  <2> QED
    BY <2>1, <2>5, OneAdvances
<1> QED
  BY <1>1, <1>3, <1>4 DEF FraudAdds

\* One of the authorization service takes the amount of an approved transaction
\* or settles one whose amount it has taken.
LEMMA AuthAdvances ==
    ASSUME PipeInv, AuthStep
    PROVE  [Life!Next]_([u \in Tx |-> Stage(u)])
<1>1. UNCHANGED <<pending, sent, debit>> /\ AuthMakes
  BY AuthMoves DEF PipeInv, AuthStep, AuthSends, fraudVars, ledgerVars
<1>2. MarksOK /\ MarksOK' /\ Chain
  BY AuthKeeps DEF PipeInv
<1>3. CASE UNCHANGED <<debits, settled>>
  <2>1. \A u \in Tx : Stage(u)' = Stage(u)
    BY <1>1, <1>2, <1>3, StageIs, StageWillBe
  <2>2. [u \in Tx |-> Stage(u)]' = [u \in Tx |-> Stage(u)]
    BY <2>1
  <2> QED
    BY <2>2
<1>4. CASE AuthTakes
  <2>1. PICK t \in Tx : /\ On(authorized, t) /\ debits' = [debits EXCEPT ![t] = debits[t] + 1]
                        /\ settled' = settled
    BY <1>4 DEF AuthTakes
  <2>2. debits[t] \in Nat /\ \A u \in Tx \ {t} : debits'[u] = debits[u]
    BY <1>2, <2>1 DEF MarksOK
  <2>3. debits'[t] > 0
    BY <1>2, <2>1, <2>2 DEF MarksOK
  <2>4. \A u \in Tx \ {t} : Stage(u)' = Stage(u)
    BY <1>1, <1>2, <2>1, <2>2, StageIs, StageWillBe
  <2>5. /\ sent[t]["APPROVE"] > 0
        /\ settled[t] > 0 => debits[t] > 0
        /\ debit[t] > 0 => settled[t] > 0
    BY <1>2, <2>1 DEF Chain, Approved, On
  <2>6. Stage(t)' = Stage(t) \/ <<Stage(t), Stage(t)'>> \in NextStages
    BY <1>1, <1>2, <2>1, <2>3, <2>5, StageIs, StageWillBe DEF Furthest, NextStages
  <2> QED
    BY <2>4, <2>6, OneAdvances
<1>5. CASE AuthSettles
  <2>1. PICK t \in Tx, n \in {1, 2} :
           /\ debits[t] > 0 /\ debits' = debits
           /\ settled' = [settled EXCEPT ![t] = settled[t] + n]
    BY <1>5 DEF AuthSettles
  <2>2. settled[t] \in Nat /\ \A u \in Tx \ {t} : settled'[u] = settled[u]
    BY <1>2, <2>1 DEF MarksOK
  <2>3. settled'[t] > 0
    BY <1>2, <2>1, <2>2 DEF MarksOK
  <2>4. \A u \in Tx \ {t} : Stage(u)' = Stage(u)
    BY <1>1, <1>2, <2>1, <2>2, StageIs, StageWillBe
  <2>5. debit[t] > 0 => settled[t] > 0
    BY <1>2 DEF Chain
  <2>6. Stage(t)' = Stage(t) \/ <<Stage(t), Stage(t)'>> \in NextStages
    BY <1>1, <1>2, <2>1, <2>3, <2>5, StageIs, StageWillBe DEF Furthest, NextStages
  <2> QED
    BY <2>4, <2>6, OneAdvances
<1> QED
  BY <1>1, <1>3, <1>4, <1>5 DEF AuthMakes

\* One of the ledger processor posts at most one that is settled.
LEMMA LedgerAdvances ==
    ASSUME PipeInv, LedgerStep
    PROVE  [Life!Next]_([u \in Tx |-> Stage(u)])
<1>1. UNCHANGED <<pending, sent, debits, settled>> /\ LedgerPosts
  BY LedgerMoves DEF PipeInv, LedgerStep, LedgerEnds, fraudVars, authVars
<1>2. MarksOK /\ MarksOK' /\ Chain
  BY LedgerKeeps DEF PipeInv
<1>3. CASE debit' = debit
  <2>1. \A u \in Tx : Stage(u)' = Stage(u)
    BY <1>1, <1>2, <1>3, StageIs, StageWillBe
  <2>2. [u \in Tx |-> Stage(u)]' = [u \in Tx |-> Stage(u)]
    BY <2>1
  <2> QED
    BY <2>2
<1>4. ASSUME NEW t \in Tx, On(settledLog, t), debit' = [debit EXCEPT ![t] = debit[t] + 1]
      PROVE  [Life!Next]_([u \in Tx |-> Stage(u)])
  <2>1. debit[t] \in Nat /\ \A u \in Tx \ {t} : debit'[u] = debit[u]
    BY <1>2, <1>4 DEF MarksOK
  <2>2. debit'[t] > 0
    BY <1>2, <1>4, <2>1 DEF MarksOK
  <2>3. \A u \in Tx \ {t} : Stage(u)' = Stage(u)
    BY <1>1, <1>2, <2>1, StageIs, StageWillBe
  <2>4. settled[t] > 0
    BY <1>2, <1>4 DEF Chain, On
  <2>5. Stage(t)' = Stage(t) \/ <<Stage(t), Stage(t)'>> \in NextStages
    BY <1>1, <1>2, <2>2, <2>4, StageIs, StageWillBe DEF Furthest, NextStages
  <2> QED
    BY <2>3, <2>5, OneAdvances
<1> QED
  BY <1>1, <1>3, <1>4 DEF LedgerPosts

\* Whatever fails, is redelivered or is posted again, every step of every
\* service moves at most one transaction, and that one stage on: no row of the
\* ledger without a settlement, none of these without the money taken, no money
\* taken without an approval and no approval of what was never posted.
THEOREM StagesInOrder == PipeSpec => LifeSpec
<1>1. PipeInit => Life!Init
  <2> SUFFICES ASSUME PipeInit PROVE Life!Init
    OBVIOUS
  <2>1. pending = <<>> /\ Len(pending) = 0
    BY EmptySeq DEF PipeInit, Init
  <2>2. \A t \in Tx : sent[t]["APPROVE"] = 0 /\ debits[t] = 0 /\ settled[t] = 0 /\ debit[t] = 0
    BY DEF PipeInit, F!Init, A!Init, L!Init, F!Recommendations
  <2>3. \A t \in Tx : ~On(pending, t)
    BY <2>1 DEF On
  <2>4. \A t \in Tx : Stage(t) = "new"
    BY <2>2, <2>3, PipeInvInit, StageIs DEF PipeInv, Furthest
  <2> QED
    BY <2>4 DEF Life!Init
<1>2. PipeInv /\ [PipeNext]_pipeVars => [Life!Next]_([t \in Tx |-> Stage(t)])
  <2>1. ASSUME PipeInv, UNCHANGED pipeVars PROVE [Life!Next]_([t \in Tx |-> Stage(t)])
    <3>1. UNCHANGED <<pending, sent, debits, settled, debit>>
      BY <2>1 DEF pipeVars, fraudVars, authVars, ledgerVars
    <3>2. \A t \in Tx : Stage(t)' = Stage(t)
      BY <3>1 DEF Stage
    <3>3. [t \in Tx |-> Stage(t)]' = [t \in Tx |-> Stage(t)]
      BY <3>2
    <3> QED
      BY <3>3
  <2> QED
    BY <2>1, GatewayAdvances, FraudAdvances, AuthAdvances, LedgerAdvances DEF PipeNext
<1> QED
  BY <1>1, <1>2, PipeInvInit, PipeInvStep, PTL DEF PipeSpec, LifeSpec, Life!Spec
-----------------------------------------------------------------------------
\* A client that knows what became of its request is charged once.

\* A transaction id is a request and the number of the attempt.
LEMMA TxIs ==
    ASSUME NEW t \in Tx
    PROVE  /\ KeyOf(t) \in Request /\ t[2] \in 1 .. MaxAttempts[KeyOf(t)] /\ t[2] \in Nat
           /\ t = <<KeyOf(t), t[2]>>
<1>1. PICK k \in Request : t \in {k} \X (1 .. MaxAttempts[k])
  BY DEF Tx
<1>2. MaxAttempts[k] \in Nat
  BY ConstantsAssumption
<1> QED
  BY <1>1, <1>2 DEF KeyOf

\* As long as nothing is in doubt: no writer holds a message, what was answered
\* with an error is not on the topic, and only the last attempt of a request
\* can be.
Attempt(t) ==
    /\ answer[t] # "lost"
    /\ answer[t] # "none" => call[t] = "none"
    /\ call[t] \in {"write", "500"} \/ answer[t] = "500" => ~On(pending, t)
    /\ t[2] > attempts[KeyOf(t)] =>
          call[t] = "none" /\ answer[t] = "none" /\ ~On(pending, t)
    /\ t[2] < attempts[KeyOf(t)] => answer[t] = "500"

\* All of it.
NothingInDoubt == Without(InDoubt) => buffered = {} /\ \A t \in Tx : Attempt(t)

\* Attempt is about call, answer, attempts and the topic.
LEMMA AttemptFrame ==
    ASSUME NEW t \in Tx, Attempt(t), On(pending', t) <=> On(pending, t),
           call'[t] = call[t], answer'[t] = answer[t],
           attempts'[KeyOf(t)] = attempts[KeyOf(t)]
    PROVE  Attempt(t)'
  BY DEF Attempt

\* A fault is counted once, whichever component it strikes, and its kind is
\* kept by that component.
FaultsCount == faults' = faults \/ faults' = faults + 1

LEMMA FaultsAreCounted ==
    ASSUME FraudStep \/ AuthStep \/ LedgerStep
    PROVE  FaultsCount
<1>1. ASSUME FraudStep PROVE FaultsCount
  BY <1>1 DEF FraudStep, F!Rebalance, F!Crash, F!Cancel, F!Loop, F!Fetch, F!Exit, F!Produce,
              F!Commit, F!Fault, F!NoFault, F!faultVars, FaultsCount
<1>2. ASSUME AuthStep PROVE FaultsCount
  BY <1>2 DEF AuthStep, A!Rebalance, A!Crash, A!Handle, A!Fetch, A!IsProcessed,
              A!GetAccountBalance, A!PlaceHold, A!PlaceHoldNetworkError, A!MarkProcessed,
              A!Produce, A!ProduceError, A!Commit, A!ExpireMarker, A!ExpireHold,
              A!Fault, A!NoFault, A!faultVars, FaultsCount
<1>3. ASSUME LedgerStep PROVE FaultsCount
  BY <1>3 DEF LedgerStep, L!Rebalance, L!Crash, L!Cancel, L!Fetch, L!MainLoop, L!Timer,
              L!Receive, L!Exit, L!Write, L!Commit, L!Fault, L!NoFault, L!faultVars, FaultsCount
<1> QED
  BY <1>1, <1>2, <1>3

\* Every step of the gateway keeps the type of its state.
LEMMA GateTypeStep ==
    ASSUME TypeOK, GatewayStep
    PROVE  TypeOK'
<1>1. pending' \in Seq(Tx \cup {Malformed})
  <2>1. ASSUME NEW t \in Tx, NEW n \in Nat
        PROVE  pending \o [i \in 1 .. n |-> Payload(t)] \in Seq(Tx \cup {Malformed})
    <3>1. [i \in 1 .. n |-> Payload(t)] \in Seq(Tx \cup {Malformed})
      BY CopiesType DEF Payload
    <3> QED
      BY <3>1, AppendKeeps DEF TypeOK
  <2> QED
    BY <2>1, GatewayMoves DEF TypeOK, GatewayAdds
<1>2. faults' \in Nat /\ happened' \subseteq Faults
  <2>1. NoFault \/ \E kind : Fault(kind)
    <3>1. ASSUME NEW t \in Tx, Handle(t) PROVE NoFault \/ \E kind : Fault(kind)
      BY <3>1 DEF Handle, Write, WriteError, WriteLate, Reply
    <3> QED
      BY <3>1 DEF GatewayStep, Post, Crash
  <2> QED
    BY <2>1 DEF NoFault, faultVars, Fault, TypeOK
<1>3. ASSUME NEW k \in Request, Post(k) PROVE TypeOK'
  <2>1. PICK n \in Nat : n = attempts[k]
    BY DEF TypeOK
  <2>2. /\ n < MaxAttempts[k] /\ MaxAttempts[k] \in Nat
        /\ attempts' = [attempts EXCEPT ![k] = n + 1] /\ buffered' = buffered
    BY <1>3, <2>1, ConstantsAssumption DEF Post
  <2>3. /\ attempts' \in [Request -> Nat]
        /\ \A j \in Request : attempts'[j] = IF j = k THEN n + 1 ELSE attempts[j]
    BY <2>1, <2>2 DEF TypeOK
  <2>4. /\ call' \in [Tx -> {"none", "write", "202", "500"}] /\ answer' \in [Tx -> Answers]
        /\ \A t \in Tx : t # <<k, n + 1>> => call'[t] = call[t]
    BY <1>3, <2>1 DEF Post, TypeOK, Answers
  <2>5. \A j \in Request : attempts'[j] <= MaxAttempts[j]
    BY <2>1, <2>2, <2>3 DEF TypeOK
  <2>6. ASSUME NEW t \in Tx, call'[t] # "none" \/ t \in buffered'
        PROVE  t[2] <= attempts'[t[1]]
    <3>1. t[1] \in Request /\ t[2] \in Nat
      BY TxIs DEF KeyOf
    <3>2. CASE t = <<k, n + 1>>
      BY <2>1, <2>3, <3>1, <3>2
    <3>3. CASE t # <<k, n + 1>>
      <4>1. t[2] <= attempts[t[1]]
        BY <2>2, <2>4, <2>6, <3>3 DEF TypeOK
      <4>2. attempts[t[1]] \in Nat
        BY <3>1 DEF TypeOK
      <4> QED
        BY <2>1, <2>3, <3>1, <4>1, <4>2
    <3> QED
      BY <3>2, <3>3
  <2> QED
    BY <1>1, <1>2, <2>2, <2>3, <2>4, <2>5, <2>6 DEF TypeOK
<1>4. ASSUME NEW t \in Tx, Write(t) \/ WriteError(t) PROVE TypeOK'
  <2>1. /\ call[t] = "write" /\ UNCHANGED <<attempts, answer>>
        /\ \E c \in {"202", "500"} : call' = [call EXCEPT ![t] = c]
        /\ buffered' = buffered \/ buffered' = buffered \cup {t}
    BY <1>4 DEF Write, WriteError
  <2>2. /\ call' \in [Tx -> {"none", "write", "202", "500"}]
        /\ \A u \in Tx \ {t} : call'[u] = call[u]
    BY <2>1 DEF TypeOK
  <2>3. \A u \in Tx : call'[u] # "none" \/ u \in buffered' => u[2] <= attempts[u[1]]
    BY <2>1, <2>2 DEF TypeOK
  <2> QED
    BY <1>1, <1>2, <2>1, <2>2, <2>3 DEF TypeOK
<1>5. ASSUME NEW t \in Tx, WriteLate(t) PROVE TypeOK'
  BY <1>1, <1>2, <1>5 DEF WriteLate, TypeOK
<1>6. ASSUME NEW t \in Tx, Reply(t) PROVE TypeOK'
  <2>1. /\ answer' \in [Tx -> Answers] /\ UNCHANGED <<attempts, buffered>>
        /\ call' = [call EXCEPT ![t] = "none"]
    BY <1>6 DEF Reply, TypeOK, Answers
  <2> QED
    BY <1>1, <1>2, <2>1 DEF TypeOK
<1>7. ASSUME NEW S \in SUBSET Tx, Crash(S) PROVE TypeOK'
  <2>1. /\ answer' \in [Tx -> Answers]
        /\ call' = [t \in Tx |-> IF t \in S THEN "none" ELSE call[t]]
        /\ buffered' \subseteq buffered /\ attempts' = attempts
    BY <1>7 DEF Crash, TypeOK, Answers
  <2> QED
    BY <1>1, <1>2, <2>1 DEF TypeOK
<1> QED
  BY <1>3, <1>4, <1>5, <1>6, <1>7 DEF GatewayStep, Handle

\* Every step of it keeps NothingInDoubt: a request is posted again only after
\* a 500, and then the write has been refused.
LEMMA GateAttempts ==
    ASSUME TypeOK, NothingInDoubt, GatewayStep
    PROVE  NothingInDoubt'
<1> SUFFICES ASSUME Without(InDoubt)' PROVE (buffered = {})' /\ \A u \in Tx : Attempt(u)'
  BY DEF NothingInDoubt
<1>1. ASSUME NEW kind \in InDoubt PROVE ~Fault(kind)
  BY <1>1 DEF Fault, Without
<1>2. Without(InDoubt)
  BY DEF GatewayStep, Post, Handle, Write, WriteError, WriteLate, Reply, Crash,
         NoFault, faultVars, Fault, Without
<1>3. buffered = {} /\ \A t \in Tx : Attempt(t)
  BY <1>2 DEF NothingInDoubt
<1>4. ASSUME NEW k \in Request, Post(k)
      PROVE  (buffered = {})' /\ \A u \in Tx : Attempt(u)'
  <2>0. PICK n \in Nat : n = attempts[k]
    BY DEF TypeOK
  <2>1. /\ n < MaxAttempts[k] /\ MaxAttempts[k] \in Nat
        /\ n > 0 => answer[<<k, n>>] \in {"500", "lost"}
        /\ attempts' = [attempts EXCEPT ![k] = n + 1]
        /\ UNCHANGED <<pending, buffered>>
    BY <1>4, <2>0, ConstantsAssumption DEF Post, TypeOK
  <2>2. PICK t \in Tx : t = <<k, n + 1>> /\ KeyOf(t) = k /\ t[2] = n + 1
    <3> DEFINE t == <<k, n + 1>>
    <3>1. n + 1 \in 1 .. MaxAttempts[k]
      BY <2>1
    <3>2. t \in {k} \X (1 .. MaxAttempts[k])
      BY <3>1
    <3>3. t \in Tx /\ t[1] = k /\ t[2] = n + 1
      BY <3>2 DEF Tx
    <3> QED
      BY <3>3 DEF KeyOf
  <2>3. attempts'[k] = n + 1 /\ \A j \in Request \ {k} : attempts'[j] = attempts[j]
    BY <2>1 DEF TypeOK
  <2>4. \A u \in Tx \ {t} : call'[u] = call[u] /\ answer'[u] = answer[u]
    BY <1>4, <2>0, <2>2 DEF Post, TypeOK
  <2>5. Attempt(t)'
    <3>1. call[t] = "none" /\ answer[t] = "none" /\ ~On(pending, t)
      BY <1>3, <2>0, <2>2 DEF Attempt
    <3>2. \/ call'[t] = "none" /\ answer'[t] = "400"
          \/ call'[t] = "write" /\ answer'[t] = "none"
      BY <1>4, <2>0, <2>2, <3>1 DEF Post, TypeOK
    <3>3. ~(t[2] > attempts'[KeyOf(t)]) /\ ~(t[2] < attempts'[KeyOf(t)])
      BY <2>1, <2>2, <2>3
    <3>4. pending' = pending
      BY <2>1
    <3> QED
      BY <3>1, <3>2, <3>3, <3>4 DEF Attempt
  <2>6. ASSUME NEW u \in Tx \ {t} PROVE Attempt(u)'
    <3>1. CASE KeyOf(u) # k
      BY <1>3, <2>1, <2>3, <2>4, <3>1, TxIs, AttemptFrame
    <3>2. CASE KeyOf(u) = k
      <4>1. u = <<k, u[2]>> /\ u[2] \in Nat /\ u[2] # n + 1
        BY <2>2, <2>6, <3>2, TxIs
      <4>2. u[2] < n + 1 => answer[u] = "500"
        <5>1. CASE u[2] < n
          BY <1>3, <2>0, <3>2, <5>1 DEF Attempt
        <5>2. CASE u[2] = n
          <6>1. n > 0
            BY <2>6, <5>2, TxIs
          <6>2. u = <<k, n>>
            BY <4>1, <5>2
          <6> QED
            BY <1>3, <2>1, <6>1, <6>2 DEF Attempt
        <5> QED
          BY <2>1, <4>1, <5>1, <5>2
      <4>3. u[2] > n + 1 => u[2] > attempts[KeyOf(u)]
        BY <2>0, <3>2, <4>1
      <4>4. Attempt(u) /\ call'[u] = call[u] /\ answer'[u] = answer[u]
            /\ pending' = pending /\ attempts'[KeyOf(u)] = n + 1
        BY <1>3, <2>1, <2>3, <2>4, <3>2
      <4> QED
        BY <2>1, <4>1, <4>2, <4>3, <4>4 DEF Attempt
    <3> QED
      BY <3>1, <3>2
  <2>7. \A u \in Tx : Attempt(u)'
    BY <2>5, <2>6
  <2> QED
    BY <1>3, <2>1, <2>7
<1>5. ASSUME NEW t \in Tx, NEW n \in Nat, NEW c \in {"202", "500"},
             call[t] = "write", Deliver(t, n),
             n = 0 \/ c = "202", call' = [call EXCEPT ![t] = c],
             UNCHANGED <<attempts, buffered, answer>>
      PROVE  (buffered = {})' /\ \A u \in Tx : Attempt(u)'
  <2>1. \A u \in Tx : u # t \/ n = 0 => (On(pending', u) <=> On(pending, u))
    BY <1>5, DeliversOne DEF Deliver, TypeOK
  <2>2. call'[t] = c /\ \A u \in Tx \ {t} : call'[u] = call[u]
    BY <1>5 DEF TypeOK
  <2>3. Attempt(t)'
    <3>1. /\ answer[t] = "none" /\ ~On(pending, t)
          /\ ~(t[2] > attempts[KeyOf(t)]) /\ ~(t[2] < attempts[KeyOf(t)])
      BY <1>3, <1>5 DEF Attempt
    <3> QED
      BY <1>5, <2>1, <2>2, <3>1 DEF Attempt
  <2>4. \A u \in Tx \ {t} : Attempt(u)'
    BY <1>3, <1>5, <2>1, <2>2, AttemptFrame
  <2> QED
    BY <1>3, <1>5, <2>3, <2>4
<1>6. ASSUME NEW t \in Tx, Reply(t)
      PROVE  (buffered = {})' /\ \A u \in Tx : Attempt(u)'
  <2>1. ~Fault("reply_lost")
    BY <1>1 DEF InDoubt
  <2>2. /\ call[t] \in {"202", "500"} /\ answer' = [answer EXCEPT ![t] = call[t]]
        /\ call' = [call EXCEPT ![t] = "none"]
        /\ UNCHANGED <<pending, attempts, buffered>>
    BY <1>6, <2>1 DEF Reply
  <2>3. /\ answer'[t] = call[t] /\ call'[t] = "none"
        /\ \A u \in Tx \ {t} : answer'[u] = answer[u] /\ call'[u] = call[u]
    BY <2>2 DEF TypeOK
  <2>4. Attempt(t)'
    <3>1. /\ ~(t[2] > attempts[KeyOf(t)]) /\ ~(t[2] < attempts[KeyOf(t)])
          /\ call[t] = "500" => ~On(pending, t)
      BY <1>3, <2>2 DEF Attempt
    <3> QED
      BY <2>2, <2>3, <3>1 DEF Attempt
  <2>5. \A u \in Tx \ {t} : Attempt(u)'
    BY <1>3, <2>2, <2>3, AttemptFrame
  <2> QED
    BY <1>3, <2>2, <2>4, <2>5
<1>7. ASSUME NEW t \in Tx, Handle(t)
      PROVE  (buffered = {})' /\ \A u \in Tx : Attempt(u)'
  <2>1. CASE Write(t)
    <3>1. /\ call[t] = "write" /\ call' = [call EXCEPT ![t] = "202"]
          /\ UNCHANGED <<attempts, buffered, answer>>
          /\ Deliver(t, 1) \/ Deliver(t, 2) \/ Deliver(t, 0)
      BY <2>1 DEF Write
    <3> QED
      BY <1>5, <3>1
  <2>2. CASE WriteError(t)
    <3>1. ~Fault("write_in_doubt") /\ ~Fault("write_timeout")
      BY <1>1 DEF InDoubt
    <3>2. /\ call[t] = "write" /\ call' = [call EXCEPT ![t] = "500"]
          /\ UNCHANGED <<attempts, buffered, answer>> /\ Deliver(t, 0)
      BY <2>2, <3>1 DEF WriteError
    <3> QED
      BY <1>5, <3>2
  <2>3. ~WriteLate(t)
    BY <1>3 DEF WriteLate
  <2> QED
    BY <1>6, <1>7, <2>1, <2>2, <2>3 DEF Handle
<1>8. ASSUME NEW S \in SUBSET Tx PROVE ~Crash(S)
  BY <1>1 DEF Crash, InDoubt
<1> QED
  BY <1>4, <1>7, <1>8 DEF GatewayStep

\* Both hold at the start.
LEMMA GateInvInit == PipeInit => TypeOK /\ NothingInDoubt
<1> SUFFICES ASSUME PipeInit PROVE TypeOK /\ NothingInDoubt
  OBVIOUS
<1>1. /\ pending = <<>> /\ Len(pending) = 0 /\ pending \in Seq(Tx \cup {Malformed})
      /\ attempts = [k \in Request |-> 0] /\ buffered = {}
      /\ call = [t \in Tx |-> "none"] /\ answer = [t \in Tx |-> "none"]
      /\ faults = 0 /\ happened = {}
  BY EmptySeq DEF PipeInit, Init
<1>2. \A t \in Tx : Attempt(t)
  BY <1>1, TxIs DEF Attempt, On
<1> QED
  BY <1>1, <1>2, ConstantsAssumption DEF TypeOK, Answers, NothingInDoubt

\* Every step of the pipeline keeps both.
LEMMA GateInvStep ==
    PipeInv /\ TypeOK /\ NothingInDoubt /\ [PipeNext]_pipeVars => TypeOK' /\ NothingInDoubt'
<1> SUFFICES ASSUME PipeInv, TypeOK, NothingInDoubt, [PipeNext]_pipeVars
             PROVE  TypeOK' /\ NothingInDoubt'
  OBVIOUS
<1>1. ASSUME UNCHANGED <<pending, gatewayVars>>, FaultsCount PROVE TypeOK' /\ NothingInDoubt'
  BY <1>1 DEF gatewayVars, FaultsCount, TypeOK, NothingInDoubt, Attempt, Without
<1>2. GatewayStep \/ (UNCHANGED <<pending, gatewayVars>> /\ FaultsCount)
  <2>1. FraudStep => UNCHANGED <<pending, gatewayVars>> /\ FaultsCount
    BY FraudMoves, FaultsAreCounted DEF PipeInv, FraudStep, FraudSends
  <2>2. AuthStep \/ LedgerStep => UNCHANGED <<pending, gatewayVars>> /\ FaultsCount
    BY FaultsAreCounted DEF AuthStep, AuthSends, LedgerStep, LedgerEnds
  <2>3. UNCHANGED pipeVars => UNCHANGED <<pending, gatewayVars>> /\ FaultsCount
    BY DEF pipeVars, FaultsCount
  <2> QED
    BY <2>1, <2>2, <2>3 DEF PipeNext
<1> QED
  BY <1>1, <1>2, GateTypeStep, GateAttempts

\* A handler of the gateway works only for a transaction that was posted, and
\* the topic holds nothing but transactions and what cannot be read.
THEOREM TypeCorrect == PipeSpec => []TypeOK
  BY PipeInvInit, PipeInvStep, GateInvInit, GateInvStep, PTL DEF PipeSpec

\* A client that posts again only what it was told has failed is charged once:
\* as long as no answer is lost and no write is in doubt, at most one attempt of
\* a request is ever posted in the ledger, whatever the services behind do.
THEOREM ChargedOnce == PipeSpec => []PaidOnceUnlessInDoubt
<1>1. PipeInv /\ TypeOK /\ NothingInDoubt => PaidOnceUnlessInDoubt
  <2> SUFFICES ASSUME PipeInv, TypeOK, NothingInDoubt, Without(InDoubt), NEW k \in Request
               PROVE  Cardinality({t \in Tx : KeyOf(t) = k /\ L!Posted(t)}) <= 1
    BY DEF PaidOnceUnlessInDoubt
  <2> DEFINE P == {t \in Tx : KeyOf(t) = k /\ L!Posted(t)}
             last == <<k, attempts[k]>>
  <2>1. ASSUME NEW t \in P PROVE t = last
    <3>1. t \in Tx /\ KeyOf(t) = k /\ debit[t] > 0
      BY DEF L!Posted
    <3>2. On(pending, t)
      BY <3>1 DEF PipeInv, Chain
    <3>3. Attempt(t)
      BY <3>1 DEF NothingInDoubt
    <3>4. ~(t[2] > attempts[k]) /\ ~(t[2] < attempts[k])
      BY <3>1, <3>2, <3>3 DEF Attempt
    <3>5. t[2] \in Nat /\ attempts[k] \in Nat /\ t = <<k, t[2]>>
      BY <3>1, TxIs DEF TypeOK
    <3> QED
      BY <3>4, <3>5
  <2>2. P \subseteq {last}
    BY <2>1
  <2> HIDE DEF P, last
  <2>3. IsFiniteSet({last}) /\ Cardinality({last}) = 1
    BY FS_Singleton
  <2>4. Cardinality(P) <= 1
    BY <2>2, <2>3, FS_Subset
  <2> QED
    BY <2>4 DEF P
<1> QED
  BY <1>1, PipeInvInit, PipeInvStep, GateInvInit, GateInvStep, PTL DEF PipeSpec
-----------------------------------------------------------------------------
\* Sums of amounts.

\* Induction over finite sets: what a set of subsets contains that contains the
\* empty set, and a set whenever it contains it without one of its elements.
LEMMA Subsets ==
    ASSUME NEW S, IsFiniteSet(S), NEW Good,
           \A T \in SUBSET S : (\A x \in T : T \ {x} \in Good) => T \in Good
    PROVE  S \in Good
<1> DEFINE Bad == {T \in SUBSET S : T \notin Good}
<1> SUFFICES ASSUME S \notin Good PROVE FALSE
  OBVIOUS
<1>1. Bad \subseteq FiniteSubsetsOf(S) /\ Bad # {}
  BY FS_Subset DEF FiniteSubsetsOf
<1>2. PICK T \in Bad : \A U \in Bad : <<U, T>> \notin StrictSubsetOrdering(S)
  <2> HIDE DEF Bad
  <2> QED  BY <1>1, FS_StrictSubsetOrderingWellFounded, WFMin
<1>3. ASSUME NEW x \in T PROVE T \ {x} \in Good
  <2>1. <<T \ {x}, T>> \in StrictSubsetOrdering(S)
    BY <1>3 DEF StrictSubsetOrdering
  <2> QED  BY <1>2, <2>1
<1> QED  BY <1>2, <1>3

\* What f counts, unit by unit.
Units(f, S) == UNION {{x} \X (1 .. f[x]) : x \in S}

\* There are finitely many, and one element's stand beside those of the rest.
LEMMA UnitsSplit ==
    ASSUME NEW S, IsFiniteSet(S), NEW f, \A x \in S : f[x] \in Nat
    PROVE  /\ IsFiniteSet(Units(f, S)) /\ Cardinality(Units(f, S)) \in Nat
           /\ \A x \in S : Cardinality(Units(f, S)) = f[x] + Cardinality(Units(f, S \ {x}))
<1>1. ASSUME NEW x \in S
      PROVE  IsFiniteSet({x} \X (1 .. f[x])) /\ Cardinality({x} \X (1 .. f[x])) = f[x]
  <2> DEFINE One == {x}
             Nums == 1 .. f[x]
             n == f[x]
  <2>1. n \in Nat /\ IsFiniteSet(Nums) /\ Cardinality(Nums) = n
    <3>1. n \in Int /\ n >= 0
      OBVIOUS
    <3>2. IsFiniteSet(1 .. n) /\ Cardinality(1 .. n) = IF 1 > n THEN 0 ELSE n - 1 + 1
      BY <3>1, FS_Interval, 1 \in Int
    <3> HIDE DEF n
    <3>3. (IF 1 > n THEN 0 ELSE n - 1 + 1) = n
      BY <3>1
    <3> QED  BY <3>1, <3>2, <3>3 DEF n
  <2>2. IsFiniteSet(One) /\ Cardinality(One) = 1
    BY FS_Singleton
  <2> HIDE DEF One, Nums, n
  <2>3. IsFiniteSet(One \X Nums) /\ Cardinality(One \X Nums) = 1 * n
    BY <2>1, <2>2, FS_Product
  <2>4. 1 * n = n
    BY <2>1
  <2> QED  BY <2>3, <2>4 DEF One, Nums, n
<1>2. ASSUME NEW T \in SUBSET S PROVE IsFiniteSet(Units(f, T))
  <2> DEFINE g == [x \in T |-> {x} \X (1 .. f[x])]
             C == {{x} \X (1 .. f[x]) : x \in T}
  <2>1. g \in Surjection(T, C)
    BY DEF Surjection
  <2>2. IsFiniteSet(T)
    BY FS_Subset
  <2>3. IsFiniteSet(C)
    BY <2>1, <2>2, FS_Surjection
  <2> QED  BY <1>1, <2>3, FS_UNION DEF Units
<1>3. ASSUME NEW x \in S
      PROVE  Cardinality(Units(f, S)) = f[x] + Cardinality(Units(f, S \ {x}))
  <2> DEFINE U == Units(f, S \ {x})
             V == {x} \X (1 .. f[x])
  <2>1. Units(f, S) = U \cup V /\ U \cap V = {}
    BY DEF Units
  <2>2. IsFiniteSet(U) /\ IsFiniteSet(V) /\ Cardinality(V) = f[x] /\ f[x] \in Nat
    BY <1>1, <1>2
  <2> HIDE DEF U, V
  <2>3. Cardinality(U) \in Nat
    BY <2>2, FS_CardinalityType
  <2>4. Cardinality(U \cup V) = Cardinality(U) + Cardinality(V) - Cardinality(U \cap V)
    BY <2>2, FS_Union
  <2>5. Cardinality({}) = 0
    BY FS_EmptySet
  <2>6. \A m, n \in Nat : m + n - 0 = n + m
    OBVIOUS
  <2>7. Cardinality(Units(f, S)) = f[x] + Cardinality(U)
    BY <2>1, <2>2, <2>3, <2>4, <2>5, <2>6
  <2> QED  BY <2>7 DEF U
<1> QED  BY <1>2, <1>3, FS_CardinalityType

\* The sum of the library, which takes its elements in an order of its own, is
\* the number of units.
LEMMA SumIsCount ==
    ASSUME NEW S, IsFiniteSet(S), NEW f, \A x \in S : f[x] \in Nat
    PROVE  SumFunctionOnSet(f, S) = Cardinality(Units(f, S))
<1> DEFINE Count(T) == Cardinality(Units(f, T))
           Body(it) == [s \in SUBSET S |->
                 IF s = {} THEN 0
                 ELSE LET x == CHOOSE x \in s : TRUE IN f[x] + it[s \ {x}]]
           it == CHOOSE i : i = Body(i)
           cnt == [s \in SUBSET S |-> Count(s)]
<1>1. SumFunctionOnSet(f, S) = it[S]
  BY DEF SumFunctionOnSet, FoldFunctionOnSet, MapThenFoldSet
<1>2. \A T \in SUBSET S : IsFiniteSet(T) /\ \A x \in T : f[x] \in Nat
  BY FS_Subset
<1>3. Count({}) = 0
  BY FS_EmptySet DEF Units
<1>4. \A s \in SUBSET S : \A x \in s : Count(s) = f[x] + Count(s \ {x})
  BY <1>2, UnitsSplit
<1> HIDE DEF Count
<1>5. cnt = Body(cnt)
  BY <1>3, <1>4
<1>6. it = Body(it)
  <2> HIDE DEF cnt
  <2> QED  BY <1>5
<1>7. \A T \in SUBSET S : it[T] = IF T = {} THEN 0
                                   ELSE LET x == CHOOSE x \in T : TRUE IN f[x] + it[T \ {x}]
  <2> DEFINE i == it
  <2> HIDE DEF i
  <2>1. i = Body(i)
    BY <1>6 DEF i
  <2>2. \A T \in SUBSET S : i[T] = IF T = {} THEN 0
                                   ELSE LET x == CHOOSE x \in T : TRUE IN f[x] + i[T \ {x}]
    BY <2>1
  <2> QED  BY <2>2 DEF i
<1> HIDE DEF it
<1> DEFINE Good == {T \in SUBSET S : it[T] = Count(T)}
<1>8. ASSUME NEW T \in SUBSET S, \A x \in T : T \ {x} \in Good PROVE T \in Good
  <2>1. CASE T = {}
    BY <1>3, <1>7, <2>1
  <2>2. CASE T # {}
    <3>1. PICK x \in T : it[T] = f[x] + it[T \ {x}]
      BY <1>7, <2>2
    <3> QED  BY <1>4, <1>8, <3>1
  <2> QED  BY <2>1, <2>2
<1>9. S \in Good
  <2> HIDE DEF Good
  <2> QED  BY <1>8, Subsets
<1> QED  BY <1>1, <1>9 DEF Count

\* There are finitely many transactions.
LEMMA TxFinite == IsFiniteSet(Tx)
<1> DEFINE g == [k \in Request |-> {k} \X (1 .. MaxAttempts[k])]
           C == {{k} \X (1 .. MaxAttempts[k]) : k \in Request}
<1>1. IsFiniteSet(C)
  <2>1. g \in Surjection(Request, C)
    BY DEF Surjection
  <2> QED  BY <2>1, FS_Surjection, PipelineAssumption
<1>2. ASSUME NEW k \in Request PROVE IsFiniteSet({k} \X (1 .. MaxAttempts[k]))
  <2> DEFINE One == {k}
             Nums == 1 .. MaxAttempts[k]
  <2>1. IsFiniteSet(One)
    BY FS_Singleton
  <2>2. IsFiniteSet(Nums)
    BY FS_Interval, ConstantsAssumption, 1 \in Int
  <2> HIDE DEF One, Nums
  <2>3. IsFiniteSet(One \X Nums)
    BY <2>1, <2>2, FS_Product
  <2> QED  BY <2>3 DEF One, Nums
<1> QED  BY <1>1, <1>2, FS_UNION DEF Tx

-----------------------------------------------------------------------------
\* The ledger within the holds.

\* What the script has taken of each transaction from the balance of a.
Taken(a) == [t \in Tx |-> IF SourceOf[t] = a THEN debits[t] * AmountOf[t] ELSE 0]

\* A balance is what the script has left of the first one.
HoldsAddUp ==
    /\ balance \in [Account -> Int \cup {NoKey}]
    /\ \A a \in Account : balance[a] = NoKey <=> InitBalance[a] = NoKey
    /\ \A a \in Account : InitBalance[a] # NoKey =>
          balance[a] = InitBalance[a] - Cardinality(Units(Taken(a), Tx))

\* No client names a negative amount.
NoneNegative == \A k \in Request : Amount[k] >= 0

\* The account of a transaction and its amount.
LEMMA AccountAndAmount ==
    ASSUME NoneNegative, NEW t \in Tx
    PROVE  SourceOf[t] \in Account /\ AmountOf[t] \in Nat
<1>1. KeyOf(t) \in Request
  BY TxIs
<1>2. Amount[KeyOf(t)] \in Nat
  BY <1>1, PipelineAssumption DEF NoneNegative
<1> QED  BY <1>1, <1>2, PipelineAssumption DEF SourceOf, AmountOf

\* The script takes the amount of t.
AuthHolds ==
    \E t \in Tx : /\ balance[SourceOf[t]] # NoKey
                  /\ balance' = [balance EXCEPT ![SourceOf[t]] = @ - AmountOf[t]]
                  /\ debits' = [debits EXCEPT ![t] = @ + 1]

\* Nothing but the script changes a balance, and it records what it takes.
LEMMA OnlyHolds ==
    ASSUME TopicsOK, AuthHands, AuthStep
    PROVE  UNCHANGED <<balance, debits>> \/ AuthHolds
<1>1. ASSUME NEW r \in AuthPod, A!PlaceHold(r) \/ A!PlaceHoldNetworkError(r)
      PROVE  UNCHANGED <<balance, debits>> \/ AuthHolds
  <2>1. aPc[r] = "placeHold"
    BY <1>1 DEF A!PlaceHold, A!PlaceHoldNetworkError
  <2>2. PICK t \in Tx : t = A!InHand(r)
    BY <2>1, InHandIsOn
  <2>3. A!ScriptEffect(t) \/ UNCHANGED <<balance, debits>>
    BY <1>1, <2>2 DEF A!PlaceHold, A!PlaceHoldNetworkError
  <2>4. A!ScriptReply(t) = "held" => balance[SourceOf[t]] # NoKey
    BY DEF A!ScriptReply
  <2> QED  BY <2>3, <2>4 DEF A!ScriptEffect, AuthHolds
<1>2. ASSUME NEW r \in AuthPod,
             \/ A!Rebalance(r) \/ A!Crash(r) \/ A!Fetch(r) \/ A!IsProcessed(r)
             \/ A!GetAccountBalance(r) \/ A!MarkProcessed(r) \/ A!Produce(r)
             \/ A!ProduceError(r) \/ A!Commit(r)
      PROVE  UNCHANGED <<balance, debits>>
  BY <1>2 DEF A!Rebalance, A!Crash, A!Fetch, A!IsProcessed, A!GetAccountBalance, A!MarkProcessed,
              A!Produce, A!ProduceError, A!Commit, A!redisVars
<1>3. ASSUME NEW t \in Tx, A!ExpireMarker(t) \/ A!ExpireHold(t)
      PROVE  UNCHANGED <<balance, debits>>
  BY <1>3 DEF A!ExpireMarker, A!ExpireHold
<1> QED  BY <1>1, <1>2, <1>3 DEF AuthStep, A!Handle

\* The units taken from an account are finitely many, and an amount more when
\* the script takes one.
LEMMA TakenGrows ==
    ASSUME NoneNegative, MarksOK, NEW t \in Tx, debits' = [debits EXCEPT ![t] = @ + 1],
           NEW a \in Account
    PROVE  /\ Cardinality(Units(Taken(a), Tx)) \in Nat
           /\ Cardinality(Units(Taken(a)', Tx)) =
                 Cardinality(Units(Taken(a), Tx)) + (IF SourceOf[t] = a THEN AmountOf[t] ELSE 0)
<1>1. PICK before \in [Tx -> Nat] : before = debits
  BY DEF MarksOK
<1>2. PICK after \in [Tx -> Nat] : after = debits'
  BY DEF MarksOK
<1>3. \A u \in Tx : after[u] = IF u = t THEN before[u] + 1 ELSE before[u]
  BY <1>1, <1>2
<1> DEFINE f == [u \in Tx |-> IF SourceOf[u] = a THEN before[u] * AmountOf[u] ELSE 0]
           g == [u \in Tx |-> IF SourceOf[u] = a THEN after[u] * AmountOf[u] ELSE 0]
<1>4. Taken(a) = f /\ Taken(a)' = g
  BY <1>1, <1>2 DEF Taken
<1>5. \A m \in Nat, n \in Nat : m * n \in Nat /\ (m + 1) * n = m * n + n
  OBVIOUS
<1>6. ASSUME NEW u \in Tx
      PROVE  /\ f[u] \in Nat /\ g[u] \in Nat
             /\ g[u] = f[u] + (IF u = t /\ SourceOf[t] = a THEN AmountOf[t] ELSE 0)
  <2>1. AmountOf[u] \in Nat /\ before[u] \in Nat /\ after[u] \in Nat
    BY AccountAndAmount
  <2>2. before[u] * AmountOf[u] \in Nat /\ after[u] * AmountOf[u] \in Nat
    BY <1>5, <2>1
  <2>3. u = t => after[u] * AmountOf[u] = before[u] * AmountOf[u] + AmountOf[u]
    BY <1>3, <1>5, <2>1
  <2>4. u # t => after[u] = before[u]
    BY <1>3
  <2> QED  BY <2>1, <2>2, <2>3, <2>4
<1>7. \A u \in Tx \ {t} : g[u] = f[u]
  BY <1>6
<1> HIDE DEF f, g
<1>8. Units(g, Tx \ {t}) = Units(f, Tx \ {t})
  BY <1>7 DEF Units
<1>9. /\ Cardinality(Units(f, Tx)) \in Nat
      /\ Cardinality(Units(f, Tx)) = f[t] + Cardinality(Units(f, Tx \ {t}))
      /\ Cardinality(Units(g, Tx)) = g[t] + Cardinality(Units(g, Tx \ {t}))
  BY <1>6, TxFinite, UnitsSplit
<1>10. Cardinality(Units(f, Tx \ {t})) \in Nat
  <2>1. IsFiniteSet(Tx \ {t})
    BY TxFinite, FS_RemoveElement
  <2> QED  BY <1>6, <2>1, UnitsSplit
<1>11. /\ f[t] \in Nat /\ g[t] = f[t] + (IF SourceOf[t] = a THEN AmountOf[t] ELSE 0)
       /\ AmountOf[t] \in Nat
  BY <1>6, AccountAndAmount
<1> QED  BY <1>4, <1>8, <1>9, <1>10, <1>11

\* Before the first step nothing has been taken.
LEMMA HoldsInit ==
    ASSUME NoneNegative, PipeInit
    PROVE  HoldsAddUp
<1>1. balance = InitBalance /\ debits = [t \in Tx |-> 0]
  BY DEF PipeInit, A!Init
<1>2. ASSUME NEW a \in Account PROVE Cardinality(Units(Taken(a), Tx)) = 0
  <2>1. \A n \in Nat : 0 * n = 0
    OBVIOUS
  <2>2. \A t \in Tx : Taken(a)[t] = 0
    BY <1>1, <2>1, AccountAndAmount DEF Taken
  <2>3. Units(Taken(a), Tx) = {}
    BY <2>2 DEF Units
  <2> QED  BY <2>3, FS_EmptySet
<1>3. \A a \in Account : InitBalance[a] # NoKey => InitBalance[a] - 0 = InitBalance[a]
  BY PipelineAssumption
<1> QED  BY <1>1, <1>2, <1>3, PipelineAssumption DEF HoldsAddUp

\* Every step keeps balances what the script has left of them.
LEMMA HoldsStep ==
    ASSUME NoneNegative, PipeInv, HoldsAddUp, [PipeNext]_pipeVars
    PROVE  HoldsAddUp'
<1>1. CASE UNCHANGED <<balance, debits>>
  BY <1>1 DEF HoldsAddUp, Taken
<1>2. CASE AuthHolds
  <2>1. PICK t \in Tx : /\ balance[SourceOf[t]] # NoKey
                        /\ balance' = [balance EXCEPT ![SourceOf[t]] = @ - AmountOf[t]]
                        /\ debits' = [debits EXCEPT ![t] = @ + 1]
    BY <1>2 DEF AuthHolds
  <2>2. SourceOf[t] \in Account /\ AmountOf[t] \in Nat
    BY AccountAndAmount
  <2>3. PICK s \in Account, n \in Nat : s = SourceOf[t] /\ n = AmountOf[t]
    BY <2>2
  <2>4. balance[s] \in Int /\ balance[s] - n \in Int /\ balance[s] - n # NoKey
    BY <2>1, <2>3, PipelineAssumption DEF HoldsAddUp
  <2>5. /\ balance' \in [Account -> Int \cup {NoKey}]
        /\ balance'[s] = balance[s] - n
        /\ \A a \in Account \ {s} : balance'[a] = balance[a]
    BY <2>1, <2>3, <2>4 DEF HoldsAddUp
  <2>6. \A a \in Account : balance'[a] = NoKey <=> InitBalance[a] = NoKey
    BY <2>1, <2>3, <2>4, <2>5 DEF HoldsAddUp
  <2>7. ASSUME NEW a \in Account, InitBalance[a] # NoKey
        PROVE  balance'[a] = InitBalance[a] - Cardinality(Units(Taken(a)', Tx))
    <3>1. PICK c \in Nat : c = Cardinality(Units(Taken(a), Tx))
      BY <2>1, TakenGrows DEF PipeInv
    <3>2. Cardinality(Units(Taken(a)', Tx)) = c + (IF s = a THEN n ELSE 0)
      BY <2>1, <2>3, <3>1, TakenGrows DEF PipeInv
    <3>3. balance[a] = InitBalance[a] - c /\ InitBalance[a] \in Int
      BY <2>7, <3>1, PipelineAssumption DEF HoldsAddUp
    <3> QED  BY <2>5, <3>2, <3>3
  <2> QED  BY <2>5, <2>6, <2>7 DEF HoldsAddUp
<1>3. UNCHANGED <<balance, debits>> \/ AuthHolds
  BY OnlyHolds DEF PipeInv, PipeNext, GatewayStep, GatewaySends, FraudStep, FraudSends,
                   LedgerStep, LedgerEnds, authVars, pipeVars
<1> QED  BY <1>1, <1>2, <1>3

\* The money that has left an account by the ledger's entries was taken from its
\* balance in Redis, whatever is retried, redelivered or posted twice: an entry
\* is for a transaction whose amount was taken at least once.
THEOREM EntriesAreCovered == PipeSpec => []LedgerWithinHolds
<1> SUFFICES ASSUME NoneNegative PROVE PipeSpec => []LedgerWithinHolds
  <2>1. ASSUME ~NoneNegative PROVE LedgerWithinHolds
    BY <2>1 DEF NoneNegative, LedgerWithinHolds
  <2>2. CASE ~NoneNegative
    BY <2>1, <2>2, PTL
  <2> QED  BY <2>2
<1>1. PipeInv /\ HoldsAddUp => LedgerWithinHolds
  <2> SUFFICES ASSUME PipeInv, HoldsAddUp, NEW a \in Account, InitBalance[a] # NoKey
               PROVE  SumFunctionOnSet(AmountOf, Entries(a)) <= InitBalance[a] - balance[a]
    BY DEF LedgerWithinHolds
  <2>1. \A m \in Nat, n \in Nat : m * n \in Nat /\ (m > 0 => m * n >= n)
    OBVIOUS
  <2>2. ASSUME NEW t \in Tx
        PROVE  /\ AmountOf[t] \in Nat /\ Taken(a)[t] \in Nat
               /\ t \in Entries(a) => AmountOf[t] <= Taken(a)[t]
    <3>1. AmountOf[t] \in Nat /\ debits[t] \in Nat
      BY AccountAndAmount DEF PipeInv, MarksOK
    <3>2. t \in Entries(a) => SourceOf[t] = a /\ debits[t] > 0
      BY DEF PipeInv, Chain, Entries, L!Posted
    <3> QED  BY <2>1, <3>1, <3>2 DEF Taken
  <2>3. Entries(a) \subseteq Tx
    BY DEF Entries
  <2>4. Units(AmountOf, Entries(a)) \subseteq Units(Taken(a), Tx)
    <3>1. \A t \in Entries(a) : 1 .. AmountOf[t] \subseteq 1 .. Taken(a)[t]
      BY <2>2, <2>3
    <3> QED  BY <2>3, <3>1 DEF Units
  <2>5. /\ IsFiniteSet(Units(Taken(a), Tx)) /\ Cardinality(Units(Taken(a), Tx)) \in Nat
    BY <2>2, TxFinite, UnitsSplit
  <2>6. /\ Cardinality(Units(AmountOf, Entries(a))) \in Nat
        /\ Cardinality(Units(AmountOf, Entries(a))) <= Cardinality(Units(Taken(a), Tx))
    BY <2>4, <2>5, FS_Subset, FS_CardinalityType
  <2>7. SumFunctionOnSet(AmountOf, Entries(a)) = Cardinality(Units(AmountOf, Entries(a)))
    <3>1. IsFiniteSet(Entries(a))
      BY <2>3, TxFinite, FS_Subset
    <3> QED  BY <2>2, <2>3, <3>1, SumIsCount
  <2>8. /\ balance[a] = InitBalance[a] - Cardinality(Units(Taken(a), Tx))
        /\ InitBalance[a] \in Int
    BY PipelineAssumption DEF HoldsAddUp
  <2> QED  BY <2>5, <2>6, <2>7, <2>8
<1> QED
  BY <1>1, PipeInvInit, PipeInvStep, HoldsInit, HoldsStep, PTL DEF PipeSpec
=============================================================================
