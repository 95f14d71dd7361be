------------------------ MODULE AuthorizationProofs ------------------------
(***************************************************************************)
(* Theorems about the authorization service, for any number of replicas,   *)
(* transactions, accounts and faults: the type of the state, what holds of *)
(* balances, holds and verdicts, and that the service implements           *)
(* AuthorizationPromise.                                                   *)
(***************************************************************************)
EXTENDS Authorization, TLAPS

-----------------------------------------------------------------------------
\* Type correctness.

\* The record of faults keeps its type, and only grows.
LEMMA FaultsStep ==
    ASSUME FaultsOK, [Next]_vars
    PROVE  FaultsOK' /\ happened \subseteq happened'
<1>1. ASSUME NEW k, Fault(k) PROVE FaultsOK' /\ happened \subseteq happened'
  BY <1>1 DEF Fault, FaultsOK
<1>2. CASE NoFault
  BY <1>2 DEF NoFault, faultVars, FaultsOK
<1>3. NoFault \/ \E k : Fault(k)
  <2>1. CASE UNCHANGED vars
    BY <2>1 DEF vars, NoFault
  <2>2. ASSUME NEW r \in Replica, Handle(r) PROVE NoFault \/ \E k : Fault(k)
    BY <2>2 DEF Handle, Fetch, IsProcessed, GetAccountBalance, PlaceHold,
                PlaceHoldNetworkError, MarkProcessed, Produce, ProduceError, Commit
  <2>3. CASE \E m \in Tx \cup {Malformed} : Publish(m)
    BY <2>3 DEF Publish
  <2>4. CASE \E r \in Replica : Rebalance(r) \/ Crash(r)
    BY <2>4 DEF Rebalance, Crash
  <2>5. CASE \E t \in Tx : ExpireMarker(t) \/ ExpireHold(t)
    BY <2>5 DEF ExpireMarker, ExpireHold
  <2> QED  BY <2>1, <2>2, <2>3, <2>4, <2>5 DEF Next
<1> QED  BY <1>1, <1>2, <1>3

\* A fault of kind k is on the record from then on.
LEMMA FaultIsNoted == \A k : Fault(k) => k \in happened'
  BY DEF Fault

\* The script's effect keeps the types of what it writes.
LEMMA ScriptEffectType ==
    ASSUME TypeOK, NEW t \in Tx, ScriptEffect(t)
    PROVE  /\ balance' \in [Account -> Int \cup {NoKey}]
           /\ holds' \in SUBSET Tx
           /\ debits' \in [Tx -> Nat]
  <1>1. CASE ScriptReply(t) = "held"
    <2>1. /\ SourceOf[t] \in Account /\ TotalAmount[t] \in Int
          /\ balance[SourceOf[t]] # NoKey
      BY <1>1, ConstantsAssumption DEF ScriptReply
    <2>2. balance[SourceOf[t]] - TotalAmount[t] \in Int
      BY <2>1 DEF TypeOK
    <2>3. balance' = [balance EXCEPT ![SourceOf[t]] = @ - TotalAmount[t]]
      BY <1>1 DEF ScriptEffect
    <2>4. holds' = holds \cup {t} /\ debits' = [debits EXCEPT ![t] = @ + 1]
      BY <1>1 DEF ScriptEffect
    <2>5. balance' \in [Account -> Int \cup {NoKey}]
      BY <2>1, <2>2, <2>3 DEF TypeOK
    <2>6. debits[t] + 1 \in Nat
      BY DEF TypeOK
    <2>7. holds' \in SUBSET Tx /\ debits' \in [Tx -> Nat]
      BY <2>4, <2>6 DEF TypeOK
    <2> QED  BY <2>5, <2>7
  <1>2. CASE ScriptReply(t) # "held"
    BY <1>2 DEF ScriptEffect, TypeOK
  <1> QED  BY <1>1, <1>2

\* A report keeps the types of the topics.
LEMMA ReportType ==
    ASSUME TypeOK, NEW r \in Replica, NEW n \in Nat,
           InHand(r) \in Tx, Report(r, n)
    PROVE  /\ settled' \in [Tx -> Nat]
           /\ failed' \in [Tx -> SUBSET Reasons]
  <1>1. CASE verdict[r] = Approved
    <2>1. settled[InHand(r)] + n \in Nat
      BY DEF TypeOK
    <2> QED  BY <1>1, <2>1 DEF Report, TypeOK
  <1>2. CASE verdict[r] # Approved
    <2>1. failed[InHand(r)] \cup {verdict[r]} \in SUBSET Reasons
      BY <1>2 DEF TypeOK
    <2> QED  BY <1>2, <2>1 DEF Report, TypeOK
  <1> QED  BY <1>1, <1>2

\* Every step keeps TypeOK.
LEMMA TypeStep == TypeOK /\ [Next]_vars => TypeOK'
<1> SUFFICES ASSUME TypeOK, [Next]_vars, FaultsOK' PROVE TypeOK'
  BY FaultsStep DEF TypeOK
<1> USE DEF Steps
<1>1. ASSUME NEW m \in Tx \cup {Malformed}, Publish(m) PROVE TypeOK'
  <2>2. /\ log' \in Seq(Tx \cup {Malformed})
        /\ Len(log') = Len(log) + 1
        /\ \A i \in 1 .. Len(log) : log'[i] = log[i]
    BY <1>1 DEF Publish, TypeOK
  <2>3. /\ pos' \in [Replica -> 0 .. Len(log')]
        /\ cur' \in [Replica -> 0 .. Len(log')]
        /\ committed' \in 0 .. Len(log')
    BY <1>1, <2>2 DEF Publish, TypeOK, kafkaVars, handlerVars
  <2> QED  BY <1>1, <2>2, <2>3
           DEF Publish, TypeOK, kafkaVars, handlerVars, redisVars, topicVars
<1>2. ASSUME NEW r \in Replica, Rebalance(r) PROVE TypeOK'
  BY <1>2 DEF Rebalance, TypeOK, handlerVars, redisVars, topicVars
<1>3. ASSUME NEW r \in Replica, Crash(r) PROVE TypeOK'
  BY <1>3 DEF Crash, GoTo, TypeOK, redisVars, topicVars
<1>4. ASSUME NEW r \in Replica, Fetch(r) PROVE TypeOK'
  <2>1. pos[r] + 1 \in 1 .. Len(log) /\ log[pos[r] + 1] \in Tx \cup {Malformed}
    BY <1>4 DEF Fetch, TypeOK
  <2> QED  BY <1>4, <2>1 DEF Fetch, GoTo, TypeOK, redisVars, topicVars
<1>5. ASSUME NEW r \in Replica, IsProcessed(r) PROVE TypeOK'
  BY <1>5
  DEF IsProcessed, Return, GoTo, TypeOK, Reasons, InHand,
      kafkaVars, redisVars, topicVars
<1>6. ASSUME NEW r \in Replica, GetAccountBalance(r) PROVE TypeOK'
  BY <1>6
  DEF GetAccountBalance, Return, GoTo, TypeOK, Reasons, InHand,
      kafkaVars, redisVars, topicVars
<1>7. ASSUME NEW r \in Replica, PlaceHold(r) PROVE TypeOK'
  <2>1. InHand(r) \in Tx
    BY <1>7 DEF PlaceHold, InHand, TypeOK
  <2>2. /\ balance' \in [Account -> Int \cup {NoKey}]
        /\ holds' \in SUBSET Tx /\ debits' \in [Tx -> Nat]
    BY <1>7, <2>1, ScriptEffectType DEF PlaceHold
  <2> QED  BY <1>7, <2>2
           DEF PlaceHold, Return, GoTo, TypeOK, Reasons, kafkaVars, topicVars
<1>8. ASSUME NEW r \in Replica, PlaceHoldNetworkError(r) PROVE TypeOK'
  <2>1. InHand(r) \in Tx
    BY <1>8 DEF PlaceHoldNetworkError, InHand, TypeOK
  <2>2. /\ balance' \in [Account -> Int \cup {NoKey}]
        /\ holds' \in SUBSET Tx /\ debits' \in [Tx -> Nat]
    BY <1>8, <2>1, ScriptEffectType DEF PlaceHoldNetworkError, TypeOK
  <2>4. /\ tries' \in [Replica -> Nat]
        /\ verdict' \in [Replica -> Reasons \cup {Approved}]
        /\ pc' = pc \/ pc' = [pc EXCEPT ![r] = "produce"]
    <3>1. \/ /\ tries' = [tries EXCEPT ![r] = @ + 1]
             /\ UNCHANGED <<pc, verdict>>
          \/ /\ Return(r, "HOLD_ERROR")
             /\ UNCHANGED tries
      BY <1>8 DEF PlaceHoldNetworkError
    <3>2. tries[r] + 1 \in Nat /\ "HOLD_ERROR" \in Reasons
      BY DEF TypeOK, Reasons
    <3> QED  BY <3>1, <3>2 DEF Return, GoTo, TypeOK
  <2>5. UNCHANGED <<kafkaVars, cur, processed, topicVars>>
    BY <1>8 DEF PlaceHoldNetworkError
  <2>6. pc[r] = "placeHold"
    BY <1>8 DEF PlaceHoldNetworkError
  <2>7. /\ pc' \in [Replica -> Steps]
        /\ \A q \in Replica : pc'[q] = pc[q] \/ (q = r /\ pc'[q] = "produce")
    BY <2>4 DEF TypeOK
  <2>8. \A q \in Replica :
           pc'[q] # "fetch" => cur[q] # 0 /\ (pc'[q] # "commit" => log[cur[q]] \in Tx)
    BY <2>6, <2>7 DEF TypeOK
  <2>9. /\ log' = log /\ committed' = committed /\ owner' = owner /\ pos' = pos
        /\ cur' = cur /\ processed' = processed
        /\ settled' = settled /\ failed' = failed
    BY <2>5 DEF kafkaVars, topicVars
  <2>10. \A q \in Replica :
            pc'[q] # "fetch" =>
               cur'[q] # 0 /\ (pc'[q] # "commit" => log'[cur'[q]] \in Tx)
    BY <2>8, <2>9
  <2> HIDE DEF Steps
  <2> QED  BY <2>2, <2>4, <2>7, <2>9, <2>10 DEF TypeOK
<1>9. ASSUME NEW r \in Replica, MarkProcessed(r) PROVE TypeOK'
  BY <1>9
  DEF MarkProcessed, Return, GoTo, TypeOK, InHand, kafkaVars, topicVars
<1>10. ASSUME NEW r \in Replica, Produce(r) PROVE TypeOK'
  <2>1. InHand(r) \in Tx
    BY <1>10 DEF Produce, InHand, TypeOK
  <2>2. settled' \in [Tx -> Nat] /\ failed' \in [Tx -> SUBSET Reasons]
    BY <1>10, <2>1, ReportType DEF Produce, topicVars, TypeOK
  <2> QED  BY <1>10, <2>2
           DEF Produce, GoTo, TypeOK, kafkaVars, redisVars
<1>11. ASSUME NEW r \in Replica, ProduceError(r) PROVE TypeOK'
  <2>1. InHand(r) \in Tx
    BY <1>11 DEF ProduceError, InHand, TypeOK
  <2>2. settled' \in [Tx -> Nat] /\ failed' \in [Tx -> SUBSET Reasons]
    BY <1>11, <2>1, ReportType DEF ProduceError, topicVars, TypeOK
  <2> QED  BY <1>11, <2>2
           DEF ProduceError, GoTo, TypeOK, kafkaVars, redisVars
<1>12. ASSUME NEW r \in Replica, Commit(r) PROVE TypeOK'
  BY <1>12 DEF Commit, GoTo, TypeOK, redisVars, topicVars
<1>13. ASSUME NEW t \in Tx, ExpireMarker(t) \/ ExpireHold(t) PROVE TypeOK'
  BY <1>13
  DEF ExpireMarker, ExpireHold, TypeOK, kafkaVars, handlerVars, topicVars
<1>14. CASE UNCHANGED vars
  BY <1>14 DEF vars, kafkaVars, handlerVars, redisVars, topicVars, TypeOK
<1> QED
  BY <1>1, <1>2, <1>3, <1>4, <1>5, <1>6, <1>7, <1>8, <1>9, <1>10, <1>11,
     <1>12, <1>13, <1>14 DEF Next, Handle

\* The state always has its type: in particular a handler past "fetch" has a
\* message in hand, and one that decides has a transaction in hand.
THEOREM TypeCorrect == Spec => []TypeOK
<1>1. Init => TypeOK
  BY ConstantsAssumption DEF Init, TypeOK, FaultsOK, Steps
<1> QED  BY <1>1, TypeStep, PTL DEF Spec

-----------------------------------------------------------------------------
\* Facts about the log and the message in hand.

\* Messages stay where they were appended.
LEMMA LogGrows ==
    ASSUME TypeOK, [Next]_vars
    PROVE  /\ Len(log) \in Nat /\ Len(log') \in Nat /\ Len(log') >= Len(log)
           /\ \A i \in 1 .. Len(log) : log'[i] = log[i]
<1>1. CASE \E m \in Tx \cup {Malformed} : Publish(m)
  BY <1>1 DEF Publish, TypeOK
<1>2. CASE log' = log
  BY <1>2 DEF TypeOK
<1>3. log' = log \/ \E m \in Tx \cup {Malformed} : Publish(m)
  BY DEF Next, Handle, Rebalance, Crash, ExpireMarker, ExpireHold, Fetch,
         IsProcessed, GetAccountBalance, PlaceHold, PlaceHoldNetworkError,
         MarkProcessed, Produce, ProduceError, Commit, vars, kafkaVars
<1> QED  BY <1>1, <1>2, <1>3

\* A handler that decides has a transaction in hand, and Publish leaves it there.
LEMMA InHandIsTx ==
    ASSUME TypeOK, NEW r \in Replica, pc[r] \notin {"fetch", "commit"}
    PROVE  /\ InHand(r) \in Tx
           /\ cur[r] \in 1 .. Len(log)
  BY DEF TypeOK, InHand

-----------------------------------------------------------------------------
\* No account goes below zero.

\* The script takes an amount only from a balance that covers it.
LEMMA ScriptKeepsBalance ==
    ASSUME TypeOK, BalanceNonNegative, NEW t \in Tx, ScriptEffect(t)
    PROVE  BalanceNonNegative'
  <1>1. CASE ScriptReply(t) = "held"
    <2>1. /\ SourceOf[t] \in Account /\ TotalAmount[t] \in Int
          /\ balance[SourceOf[t]] \in Int
          /\ balance[SourceOf[t]] >= TotalAmount[t]
      BY <1>1, ConstantsAssumption DEF ScriptReply, TypeOK
    <2>2. balance[SourceOf[t]] - TotalAmount[t] >= 0
      BY <2>1
    <2>3. balance' = [balance EXCEPT ![SourceOf[t]] = @ - TotalAmount[t]]
      BY <1>1 DEF ScriptEffect
    <2>4. \A a \in Account :
             balance'[a] = balance[a] \/ (a = SourceOf[t] /\ balance'[a] >= 0)
      <3>1. balance'[SourceOf[t]] = balance[SourceOf[t]] - TotalAmount[t]
        BY <2>1, <2>3 DEF TypeOK
      <3>2. \A a \in Account : a # SourceOf[t] => balance'[a] = balance[a]
        BY <2>3 DEF TypeOK
      <3> QED  BY <2>2, <3>1, <3>2
    <2> QED  BY <2>4, Zenon DEF BalanceNonNegative
  <1>2. CASE ScriptReply(t) # "held"
    BY <1>2 DEF ScriptEffect, BalanceNonNegative
  <1> QED  BY <1>1, <1>2

\* No interleaving of replicas, retries and crashes overdraws an account that
\* Redis starts with a non-negative balance: the script's own check decides.
THEOREM NeverOverdrawn == Spec => []BalanceNonNegative
<1>1. Init => BalanceNonNegative
  BY DEF Init, BalanceNonNegative
<1>2. ASSUME TypeOK, BalanceNonNegative, [Next]_vars
      PROVE  BalanceNonNegative'
  <2>1. ASSUME NEW r \in Replica, PlaceHold(r) \/ PlaceHoldNetworkError(r)
        PROVE  BalanceNonNegative'
    <3>1. InHand(r) \in Tx
      BY <1>2, <2>1, InHandIsTx DEF PlaceHold, PlaceHoldNetworkError
    <3>2. CASE balance' = balance
      BY <1>2, <3>2 DEF BalanceNonNegative
    <3>3. CASE ScriptEffect(InHand(r))
      BY <1>2, <3>1, <3>3, ScriptKeepsBalance
    <3>4. balance' = balance \/ ScriptEffect(InHand(r))
      BY <2>1 DEF PlaceHold, PlaceHoldNetworkError
    <3> QED  BY <3>2, <3>3, <3>4
  <2>2. CASE balance' = balance
    BY <1>2, <2>2 DEF BalanceNonNegative
  <2> QED
    BY <1>2, <2>1, <2>2
    DEF Next, Handle, Publish, Rebalance, Crash, ExpireMarker, ExpireHold,
        Fetch, IsProcessed, GetAccountBalance, MarkProcessed, Produce,
        ProduceError, Commit, vars, redisVars
<1> QED  BY <1>1, <1>2, TypeCorrect, PTL DEF Spec

-----------------------------------------------------------------------------
\* Nothing is settled without a hold.

BackedInv == TypeOK /\ VerdictBackedByHold /\ VerdictOnItsWayBacked

\* Steps that leave the verdicts, the marker and the amounts taken alone, and
\* bring no handler to a step it was not at with a verdict it had not.
LEMMA BackedFrame ==
    ASSUME BackedInv, [Next]_vars,
           UNCHANGED <<settled, failed, debits>>,
           processed' \subseteq processed,
           \A r \in Replica :
              \/ pc'[r] \notin {"markProcessed", "produce"}
              \/ /\ pc'[r] = pc[r] /\ cur'[r] = cur[r]
                 /\ verdict'[r] = verdict[r]
    PROVE  VerdictBackedByHold' /\ VerdictOnItsWayBacked'
<1>1. VerdictBackedByHold'
  BY DEF BackedInv, VerdictBackedByHold
<1>2. ASSUME NEW r \in Replica,
             (\/ pc[r] = "markProcessed"
              \/ pc[r] = "produce" /\ verdict[r] \in {Approved, "DUPLICATE_TRANSACTION"})'
      PROVE  (debits[InHand(r)] > 0)'
  <2>1. /\ pc'[r] = pc[r] /\ cur'[r] = cur[r] /\ verdict'[r] = verdict[r]
        /\ pc[r] \in {"markProcessed", "produce"}
    BY <1>2
  <2>2. cur[r] \in 1 .. Len(log) /\ debits[InHand(r)] > 0
    BY <1>2, <2>1, InHandIsTx DEF BackedInv, VerdictOnItsWayBacked
  <2>3. log'[cur[r]] = log[cur[r]]
    BY <2>2, LogGrows DEF BackedInv
  <2> QED  BY <2>1, <2>2, <2>3 DEF InHand
<1>3. VerdictOnItsWayBacked'
  BY <1>2 DEF VerdictOnItsWayBacked
<1> QED  BY <1>1, <1>3

\* Whatever the environment does, a settled transaction, one answered as a
\* duplicate and one marked as processed has had its amount taken.
THEOREM NothingSettledOnCredit == Spec => []VerdictBackedByHold
<1>1. Init => BackedInv
  <2> SUFFICES ASSUME Init PROVE BackedInv
    OBVIOUS
  <2>1. TypeOK
    BY ConstantsAssumption DEF Init, TypeOK, FaultsOK, Steps
  <2>2. VerdictBackedByHold /\ VerdictOnItsWayBacked
    BY DEF Init, VerdictBackedByHold, VerdictOnItsWayBacked
  <2> QED  BY <2>1, <2>2 DEF BackedInv
<1>2. BackedInv /\ [Next]_vars => BackedInv'
  <2> SUFFICES ASSUME BackedInv, [Next]_vars
               PROVE  VerdictBackedByHold' /\ VerdictOnItsWayBacked'
    BY TypeStep DEF BackedInv
  <2>1. TypeOK /\ TypeOK'
    BY TypeStep DEF BackedInv
  <2>2. ASSUME NEW m \in Tx \cup {Malformed}, Publish(m)
        PROVE  VerdictBackedByHold' /\ VerdictOnItsWayBacked'
    BY <2>2, BackedFrame DEF Publish, handlerVars, redisVars, topicVars
  <2>3. ASSUME NEW r \in Replica, Rebalance(r)
        PROVE  VerdictBackedByHold' /\ VerdictOnItsWayBacked'
    BY <2>3, BackedFrame DEF Rebalance, handlerVars, redisVars, topicVars
  <2>4. ASSUME NEW r \in Replica, Crash(r)
        PROVE  VerdictBackedByHold' /\ VerdictOnItsWayBacked'
    BY <2>1, <2>4, BackedFrame DEF Crash, GoTo, redisVars, topicVars, TypeOK
  <2>5. ASSUME NEW t \in Tx, ExpireMarker(t) \/ ExpireHold(t)
        PROVE  VerdictBackedByHold' /\ VerdictOnItsWayBacked'
    BY <2>5, BackedFrame DEF ExpireMarker, ExpireHold, handlerVars, topicVars
  <2>6. ASSUME NEW r \in Replica, Fetch(r)
        PROVE  VerdictBackedByHold' /\ VerdictOnItsWayBacked'
    BY <2>1, <2>6, BackedFrame DEF Fetch, GoTo, redisVars, topicVars, TypeOK
  <2>7. ASSUME NEW r \in Replica, IsProcessed(r)
        PROVE  VerdictBackedByHold' /\ VerdictOnItsWayBacked'
    <3>1. InHand(r) \in Tx
      BY <2>1, <2>7, InHandIsTx DEF IsProcessed
    <3>2. CASE InHand(r) \in processed /\ Return(r, "DUPLICATE_TRANSACTION")
      <4>1. debits[InHand(r)] > 0
        BY <3>1, <3>2 DEF BackedInv, VerdictBackedByHold
      <4> QED  BY <2>1, <2>7, <3>2, <4>1
               DEF IsProcessed, Return, GoTo, BackedInv, VerdictBackedByHold,
                   VerdictOnItsWayBacked, InHand, kafkaVars, redisVars, topicVars, TypeOK
    <3>3. CASE GoTo(r, "getBalance") /\ UNCHANGED verdict
      BY <2>1, <2>7, <3>3, BackedFrame
      DEF IsProcessed, GoTo, kafkaVars, redisVars, topicVars, TypeOK
    <3> QED  BY <2>7, <3>2, <3>3 DEF IsProcessed
  <2>8. ASSUME NEW r \in Replica, GetAccountBalance(r)
        PROVE  VerdictBackedByHold' /\ VerdictOnItsWayBacked'
    BY <2>1, <2>8
    DEF GetAccountBalance, Return, GoTo, BackedInv, VerdictBackedByHold,
        VerdictOnItsWayBacked, InHand, kafkaVars, redisVars, topicVars, TypeOK, Approved
  <2>9. ASSUME NEW r \in Replica, PlaceHold(r) \/ PlaceHoldNetworkError(r)
        PROVE  VerdictBackedByHold' /\ VerdictOnItsWayBacked'
    <3> DEFINE t == InHand(r)
    <3>1. t \in Tx
      BY <2>1, <2>9, InHandIsTx DEF PlaceHold, PlaceHoldNetworkError
    <3>2. debits' \in [Tx -> Nat] /\ \A u \in Tx : debits'[u] >= debits[u]
      <4>1. debits' = debits \/ debits' = [debits EXCEPT ![t] = @ + 1]
        BY <2>9 DEF PlaceHold, PlaceHoldNetworkError, ScriptEffect
      <4>2. \A u \in Tx : debits'[u] = debits[u] \/ debits'[u] = debits[u] + 1
        BY <2>1, <3>1, <4>1 DEF TypeOK
      <4>3. \A u \in Tx : debits[u] \in Nat
        BY <2>1 DEF TypeOK
      <4>4. debits' \in [Tx -> Nat]
        BY <2>1 DEF TypeOK
      <4>5. \A u \in Tx : debits'[u] >= debits[u]
        BY <4>2, <4>3
      <4> QED  BY <4>4, <4>5
    <3>3. UNCHANGED <<log, cur, processed, settled, failed>>
      BY <2>9 DEF PlaceHold, PlaceHoldNetworkError, kafkaVars, topicVars
    <3>4. VerdictBackedByHold'
      BY <2>1, <3>2, <3>3 DEF BackedInv, VerdictBackedByHold, TypeOK
    <3>5. \A q \in Replica \ {r} : pc'[q] = pc[q] /\ verdict'[q] = verdict[q]
      BY <2>1, <2>9 DEF PlaceHold, PlaceHoldNetworkError, Return, GoTo, TypeOK
    <3>6. \/ pc'[r] = "placeHold"
          \/ pc'[r] = "produce" /\ verdict'[r] \in {"INSUFFICIENT_FUNDS", "HOLD_ERROR"}
          \/ pc'[r] = "markProcessed" /\ debits' = [debits EXCEPT ![t] = @ + 1]
      BY <2>1, <2>9
      DEF PlaceHold, PlaceHoldNetworkError, ScriptEffect, Return, GoTo, TypeOK
    <3>7. ASSUME NEW q \in Replica,
                 (\/ pc[q] = "markProcessed"
                  \/ pc[q] = "produce" /\ verdict[q] \in {Approved, "DUPLICATE_TRANSACTION"})'
          PROVE  (debits[InHand(q)] > 0)'
      <4>1. CASE q = r
        <5>1. debits' = [debits EXCEPT ![t] = @ + 1]
          BY <3>6, <3>7, <4>1 DEF Approved
        <5>2. debits'[t] = debits[t] + 1 /\ debits[t] \in Nat
          BY <2>1, <3>1, <5>1 DEF TypeOK
        <5> QED  BY <3>3, <4>1, <5>2 DEF InHand
      <4>2. CASE q # r
        <5>1. /\ pc[q] \notin {"fetch", "commit"}
              /\ debits[InHand(q)] > 0
          BY <3>5, <3>7, <4>2 DEF BackedInv, VerdictOnItsWayBacked
        <5>2. InHand(q) \in Tx
          BY <2>1, <5>1, InHandIsTx
        <5>3. InHand(q)' = InHand(q)
          BY <3>3 DEF InHand
        <5>4. debits[InHand(q)] \in Nat /\ debits'[InHand(q)] \in Nat
              /\ debits'[InHand(q)] >= debits[InHand(q)]
          BY <2>1, <3>2, <5>2 DEF TypeOK
        <5>5. debits'[InHand(q)] > 0
          BY <5>1, <5>4
        <5> QED  BY <5>3, <5>5
      <4> QED  BY <4>1, <4>2
    <3>8. VerdictOnItsWayBacked'
      BY <3>7 DEF VerdictOnItsWayBacked
    <3> QED  BY <3>4, <3>8
  <2>10. ASSUME NEW r \in Replica, MarkProcessed(r)
         PROVE  VerdictBackedByHold' /\ VerdictOnItsWayBacked'
    <3>1. InHand(r) \in Tx /\ debits[InHand(r)] > 0
      BY <2>1, <2>10, InHandIsTx DEF MarkProcessed, BackedInv, VerdictOnItsWayBacked
    <3> QED  BY <2>1, <2>10, <3>1
             DEF MarkProcessed, Return, GoTo, BackedInv, VerdictBackedByHold,
                 VerdictOnItsWayBacked, InHand, kafkaVars, topicVars, TypeOK
  <2>11. ASSUME NEW r \in Replica, Produce(r) \/ ProduceError(r)
         PROVE  VerdictBackedByHold' /\ VerdictOnItsWayBacked'
    <3>1. InHand(r) \in Tx
      BY <2>1, <2>11, InHandIsTx DEF Produce, ProduceError
    <3>2. /\ pc[r] = "produce" /\ pc' = [pc EXCEPT ![r] = pc'[r]]
          /\ pc'[r] \in {"fetch", "commit"}
          /\ \A q \in Replica \ {r} : cur'[q] = cur[q]
          /\ UNCHANGED <<log, verdict, debits, processed>>
      BY <2>1, <2>11 DEF Produce, ProduceError, GoTo, kafkaVars, redisVars, TypeOK
    <3>3. VerdictOnItsWayBacked'
      BY <2>1, <3>2 DEF BackedInv, VerdictOnItsWayBacked, InHand, TypeOK
    <3>4. \/ UNCHANGED topicVars
          \/ \E n \in {1, 2} : Report(r, n)
      BY <2>11 DEF Produce, ProduceError
    <3>5. VerdictBackedByHold'
      <4>1. CASE UNCHANGED topicVars
        BY <3>2, <4>1 DEF BackedInv, VerdictBackedByHold, topicVars
      <4>2. CASE verdict[r] = Approved /\ \E n \in {1, 2} : Report(r, n)
        <5>1. debits[InHand(r)] > 0
          BY <3>2, <4>2 DEF BackedInv, VerdictOnItsWayBacked
        <5>2. /\ failed' = failed
              /\ \A t \in Tx \ {InHand(r)} : settled'[t] = settled[t]
          BY <2>1, <3>1, <4>2 DEF Report, TypeOK
        <5> QED  BY <3>2, <5>1, <5>2 DEF BackedInv, VerdictBackedByHold
      <4>3. CASE verdict[r] # Approved /\ \E n \in {1, 2} : Report(r, n)
        <5>1. verdict[r] = "DUPLICATE_TRANSACTION" => debits[InHand(r)] > 0
          BY <3>2 DEF BackedInv, VerdictOnItsWayBacked
        <5>2. /\ settled' = settled
              /\ failed' = [failed EXCEPT ![InHand(r)] = @ \cup {verdict[r]}]
          BY <4>3 DEF Report
        <5>3. \A t \in Tx : "DUPLICATE_TRANSACTION" \in failed'[t] =>
                 \/ "DUPLICATE_TRANSACTION" \in failed[t]
                 \/ (t = InHand(r) /\ debits[t] > 0)
          BY <2>1, <3>1, <5>1, <5>2 DEF TypeOK
        <5> QED  BY <3>2, <5>2, <5>3 DEF BackedInv, VerdictBackedByHold
      <4> QED  BY <3>4, <4>1, <4>2, <4>3
    <3> QED  BY <3>3, <3>5
  <2>12. ASSUME NEW r \in Replica, Commit(r)
         PROVE  VerdictBackedByHold' /\ VerdictOnItsWayBacked'
    BY <2>1, <2>12, BackedFrame DEF Commit, GoTo, redisVars, topicVars, TypeOK
  <2>13. CASE UNCHANGED vars
    BY <2>13, BackedFrame DEF vars, handlerVars, redisVars, topicVars
  <2> QED
    BY <2>2, <2>3, <2>4, <2>5, <2>6, <2>7, <2>8, <2>9, <2>10, <2>11, <2>12,
       <2>13 DEF Next, Handle
<1>3. BackedInv => VerdictBackedByHold
  BY DEF BackedInv
<1> QED  BY <1>1, <1>2, <1>3, PTL DEF Spec

-----------------------------------------------------------------------------
\* No offset is committed past a transaction without a verdict.

\* AnsweredUpTo as an operator of the log and the topics.
VerdictsUpTo(l, s, f, n) ==
    \A i \in 1 .. n : l[i] \in Tx => s[l[i]] > 0 \/ f[l[i]] # {}

\* A verdict once published stays, and so does every answered prefix.
LEMMA AnsweredStays ==
    ASSUME TypeOK, [Next]_vars
    PROVE  /\ \A t \in Tx : /\ settled[t] > 0 => settled'[t] > 0
                            /\ failed[t] # {} => failed'[t] # {}
           /\ \A n \in 0 .. Len(log) : VerdictsUpTo(log, settled, failed, n)
                                       => VerdictsUpTo(log', settled', failed', n)
<1>1. \A t \in Tx : /\ settled[t] > 0 => settled'[t] > 0
                    /\ failed[t] # {} => failed'[t] # {}
  <2>1. ASSUME NEW r \in Replica, NEW n \in {1, 2}, InHand(r) \in Tx, Report(r, n)
        PROVE  \A t \in Tx : /\ settled[t] > 0 => settled'[t] > 0
                             /\ failed[t] # {} => failed'[t] # {}
    <3>1. CASE verdict[r] = Approved
      <4>1. failed' = failed /\ settled' = [settled EXCEPT ![InHand(r)] = @ + n]
        BY <2>1, <3>1 DEF Report
      <4>2. settled[InHand(r)] \in Nat /\ settled[InHand(r)] + n > 0
        BY <2>1 DEF TypeOK
      <4>3. \A t \in Tx : settled'[t] = settled[t] \/ settled'[t] > 0
        BY <2>1, <4>1, <4>2 DEF TypeOK
      <4> QED  BY <4>1, <4>3
    <3>2. CASE verdict[r] # Approved
      <4>1. settled' = settled /\ failed' = [failed EXCEPT ![InHand(r)] = @ \cup {verdict[r]}]
        BY <2>1, <3>2 DEF Report
      <4> QED  BY <2>1, <4>1 DEF TypeOK
    <3> QED  BY <3>1, <3>2
  <2>2. ASSUME NEW r \in Replica, Produce(r) \/ ProduceError(r)
        PROVE  \/ settled' = settled /\ failed' = failed
               \/ InHand(r) \in Tx /\ \E n \in {1, 2} : Report(r, n)
    <3>1. InHand(r) \in Tx
      BY <2>2, InHandIsTx DEF Produce, ProduceError
    <3> QED  BY <2>2, <3>1 DEF Produce, ProduceError, topicVars
  <2>3. \/ settled' = settled /\ failed' = failed
        \/ \E r \in Replica : Produce(r) \/ ProduceError(r)
    BY DEF Next, Handle, Publish, Rebalance, Crash, ExpireMarker, ExpireHold,
           Fetch, IsProcessed, GetAccountBalance, PlaceHold,
           PlaceHoldNetworkError, MarkProcessed, Commit, vars, topicVars
  <2> QED  BY <2>1, <2>2, <2>3
<1>2. ASSUME NEW n \in 0 .. Len(log), VerdictsUpTo(log, settled, failed, n)
      PROVE  VerdictsUpTo(log', settled', failed', n)
  <2>1. ASSUME NEW i \in 1 .. n, log'[i] \in Tx
        PROVE  settled'[log'[i]] > 0 \/ failed'[log'[i]] # {}
    <3>1. log'[i] = log[i] /\ i \in 1 .. Len(log)
      BY LogGrows DEF TypeOK
    <3>2. settled[log[i]] > 0 \/ failed[log[i]] # {}
      BY <1>2, <2>1, <3>1 DEF VerdictsUpTo
    <3> QED  BY <1>1, <2>1, <3>1, <3>2
  <2> QED  BY <2>1 DEF VerdictsUpTo
<1> QED  BY <1>1, <1>2

\* A replica that a step does not touch has still skipped nothing.
LEMMA UntouchedSkipsNothing ==
    ASSUME TypeOK, NothingSkipped, [Next]_vars, NEW q \in Replica,
           pc'[q] = pc[q], cur'[q] = cur[q], pos'[q] = pos[q],
           owner' = q => owner = q
    PROVE  NothingSkippedBy(q)'
<1>1. NothingSkippedBy(q)
  BY DEF NothingSkipped
<1>2. /\ cur[q] \in 0 .. Len(log) /\ pos[q] \in 0 .. Len(log)
      /\ pc[q] # "fetch" => cur[q] - 1 \in 0 .. Len(log)
  BY DEF TypeOK
<1>3. /\ AnsweredUpTo(cur[q]) => VerdictsUpTo(log', settled', failed', cur[q])
      /\ AnsweredUpTo(pos[q]) => VerdictsUpTo(log', settled', failed', pos[q])
      /\ pc[q] # "fetch" /\ AnsweredUpTo(cur[q] - 1)
            => VerdictsUpTo(log', settled', failed', cur[q] - 1)
  BY <1>2, AnsweredStays DEF AnsweredUpTo, Answered, VerdictsUpTo
<1>4. /\ VerdictsUpTo(log', settled', failed', cur'[q]) => AnsweredUpTo(cur[q])'
      /\ VerdictsUpTo(log', settled', failed', pos'[q]) => AnsweredUpTo(pos[q])'
      /\ VerdictsUpTo(log', settled', failed', cur'[q] - 1) => AnsweredUpTo(cur[q] - 1)'
  BY DEF AnsweredUpTo, Answered, VerdictsUpTo
<1> QED  BY <1>1, <1>3, <1>4 DEF NothingSkippedBy

\* So has one that goes from one call to the next of the same transaction.
LEMMA DecidingSkipsNothing ==
    ASSUME TypeOK, NothingSkipped, [Next]_vars, NEW q \in Replica,
           pc[q] \notin {"fetch", "commit"}, pc'[q] \notin {"fetch", "commit"},
           cur'[q] = cur[q], pos'[q] = pos[q], owner' = owner
    PROVE  NothingSkippedBy(q)'
<1>1. NothingSkippedBy(q)
  BY DEF NothingSkipped
<1>2. /\ pos[q] \in 0 .. Len(log) /\ cur[q] - 1 \in 0 .. Len(log)
  BY DEF TypeOK
<1>3. /\ AnsweredUpTo(pos[q]) => VerdictsUpTo(log', settled', failed', pos[q])
      /\ VerdictsUpTo(log', settled', failed', cur[q] - 1)
  BY <1>1, <1>2, AnsweredStays
  DEF NothingSkippedBy, AnsweredUpTo, Answered, VerdictsUpTo
<1>4. /\ VerdictsUpTo(log', settled', failed', pos'[q]) => AnsweredUpTo(pos[q])'
      /\ VerdictsUpTo(log', settled', failed', cur'[q] - 1) => AnsweredUpTo(cur[q] - 1)'
  BY DEF AnsweredUpTo, Answered, VerdictsUpTo
<1> QED  BY <1>1, <1>3, <1>4 DEF NothingSkippedBy

\* A replica with nothing in hand, or with a message that does not parse.
LEMMA FetchSkipsNothing ==
    ASSUME TypeOK, NothingSkipped, [Next]_vars, NEW r \in Replica, Fetch(r)
    PROVE  NothingSkippedBy(r)'
<1>1. /\ owner = r /\ pc[r] = "fetch" /\ owner' = r
      /\ pos[r] \in 0 .. Len(log) /\ pos'[r] = pos[r] + 1 /\ cur'[r] = pos[r] + 1
      /\ log' = log /\ settled' = settled /\ failed' = failed
      /\ \/ log[pos[r] + 1] = Malformed /\ pc'[r] = "commit"
         \/ log[pos[r] + 1] # Malformed /\ pc'[r] = "isProcessed"
  BY DEF Fetch, GoTo, topicVars, TypeOK
<1>2. VerdictsUpTo(log, settled, failed, pos[r])
  BY <1>1 DEF NothingSkipped, NothingSkippedBy, AnsweredUpTo, Answered, VerdictsUpTo
<1>3. CASE log[pos[r] + 1] = Malformed /\ pc'[r] = "commit"
  <2>1. VerdictsUpTo(log, settled, failed, pos[r] + 1)
    BY <1>1, <1>2, <1>3, ConstantsAssumption DEF VerdictsUpTo
  <2> QED  BY <1>1, <1>3, <2>1
           DEF NothingSkippedBy, AnsweredUpTo, Answered, VerdictsUpTo
<1>4. CASE log[pos[r] + 1] # Malformed /\ pc'[r] = "isProcessed"
  <2>1. cur'[r] - 1 = pos[r]
    BY <1>1
  <2>2. AnsweredUpTo(cur[r] - 1)'
    BY <1>1, <1>2, <2>1 DEF AnsweredUpTo, Answered, VerdictsUpTo
  <2> QED  BY <1>1, <1>4, <2>2 DEF NothingSkippedBy
<1> QED  BY <1>1, <1>3, <1>4

\* A verdict that reaches its topic answers the message in hand.
LEMMA ProduceSkipsNothing ==
    ASSUME TypeOK, TypeOK', NothingSkipped, [Next]_vars, NEW r \in Replica, Produce(r),
           Without(LosingFaults)'
    PROVE  NothingSkippedBy(r)'
<1>1. /\ pc[r] = "produce" /\ pc'[r] = "commit"
      /\ cur' = cur /\ pos' = pos /\ owner' = owner /\ log' = log
  BY DEF Produce, GoTo, kafkaVars, TypeOK
<1>2. /\ InHand(r) \in Tx /\ cur[r] \in 1 .. Len(log)
  BY <1>1, InHandIsTx
<1>3. settled'[InHand(r)] > 0 \/ failed'[InHand(r)] # {}
  <2>1. \/ Report(r, 1) \/ Report(r, 2)
    BY FaultIsNoted DEF Produce, Without, LosingFaults
  <2>2. CASE verdict[r] = Approved
    <3>1. settled[InHand(r)] \in Nat
      BY <1>2 DEF TypeOK
    <3> QED  BY <1>2, <2>1, <2>2, <3>1 DEF Report, TypeOK
  <2>3. CASE verdict[r] # Approved
    <3>1. failed' = [failed EXCEPT ![InHand(r)] = @ \cup {verdict[r]}]
      BY <2>1, <2>3 DEF Report
    <3>2. failed'[InHand(r)] = failed[InHand(r)] \cup {verdict[r]}
      BY <1>2, <3>1 DEF TypeOK
    <3> QED  BY <3>2
  <2> QED  BY <2>2, <2>3
<1>4. VerdictsUpTo(log', settled', failed', cur[r] - 1)
  <2>1. cur[r] - 1 \in 0 .. Len(log)
    BY <1>2
  <2> QED  BY <1>1, <2>1, AnsweredStays
           DEF NothingSkipped, NothingSkippedBy, AnsweredUpTo, Answered, VerdictsUpTo
<1>5. VerdictsUpTo(log', settled', failed', cur[r])
  BY <1>1, <1>2, <1>3, <1>4 DEF VerdictsUpTo, InHand
<1>6. AnsweredUpTo(cur[r])'
  BY <1>1, <1>5 DEF AnsweredUpTo, Answered, VerdictsUpTo
<1>7. owner = r => AnsweredUpTo(pos[r])'
  <2>1. pos[r] \in 0 .. Len(log)
    BY DEF TypeOK
  <2>2. CASE AnsweredUpTo(pos[r])
    <3>1. VerdictsUpTo(log', settled', failed', pos[r])
      BY <2>1, <2>2, AnsweredStays DEF AnsweredUpTo, Answered, VerdictsUpTo
    <3> QED  BY <1>1, <3>1 DEF AnsweredUpTo, Answered, VerdictsUpTo
  <2>3. CASE pos[r] = cur[r]
    BY <1>1, <1>5, <2>3 DEF AnsweredUpTo, Answered, VerdictsUpTo
  <2> QED  BY <2>2, <2>3 DEF NothingSkipped, NothingSkippedBy
<1> QED  BY <1>1, <1>6, <1>7 DEF NothingSkippedBy

NothingSkippedIfProduced == Without(LosingFaults) => NothingSkipped

\* If every verdict can be written, then whatever crashes and whoever takes
\* the partition over, the committed offset never passes a transaction that
\* has no verdict.
THEOREM NothingLost == Spec => []NoSilentLossIfProduced
<1>1. Init => NothingSkippedIfProduced
  BY DEF Init, NothingSkipped, NothingSkippedBy, AnsweredUpTo, NothingSkippedIfProduced
<1>2. TypeOK /\ TypeOK' /\ NothingSkippedIfProduced /\ [Next]_vars => NothingSkippedIfProduced'
  <2> SUFFICES ASSUME TypeOK, TypeOK', NothingSkipped, [Next]_vars,
                      Without(LosingFaults)'
               PROVE  NothingSkipped'
    BY FaultsStep DEF NothingSkippedIfProduced, Without, TypeOK
  <2>1. \A n \in 0 .. Len(log) :
           committed' = n /\ VerdictsUpTo(log, settled, failed, n)
              => AnsweredUpTo(committed)'
    <3>1. ASSUME NEW n \in 0 .. Len(log), committed' = n,
                 VerdictsUpTo(log, settled, failed, n)
          PROVE  AnsweredUpTo(committed)'
      <4>1. VerdictsUpTo(log', settled', failed', n)
        BY <3>1, AnsweredStays
      <4> QED  BY <3>1, <4>1 DEF AnsweredUpTo, Answered, VerdictsUpTo
    <3> QED  BY <3>1
  <2>2. ASSUME committed' = committed PROVE AnsweredUpTo(committed)'
    <3>1. committed \in 0 .. Len(log) /\ VerdictsUpTo(log, settled, failed, committed)
      BY DEF NothingSkipped, TypeOK, AnsweredUpTo, Answered, VerdictsUpTo
    <3> QED  BY <2>1, <2>2, <3>1
  <2>3. ASSUME \A q \in Replica : /\ pc'[q] = pc[q] /\ cur'[q] = cur[q]
                                  /\ pos'[q] = pos[q] /\ owner' = owner,
               committed' = committed
        PROVE  NothingSkipped'
    <3>1. \A q \in Replica : NothingSkippedBy(q)'
      BY <2>3, UntouchedSkipsNothing
    <3> QED  BY <2>2, <2>3, <3>1 DEF NothingSkipped
  <2>4. ASSUME NEW r \in Replica, NothingSkippedBy(r)', AnsweredUpTo(committed)',
               \A q \in Replica \ {r} : /\ pc'[q] = pc[q] /\ cur'[q] = cur[q]
                                        /\ pos'[q] = pos[q]
                                        /\ owner' = q => owner = q
        PROVE  NothingSkipped'
    <3>1. \A q \in Replica \ {r} : NothingSkippedBy(q)'
      BY <2>4, UntouchedSkipsNothing
    <3> QED  BY <2>4, <3>1 DEF NothingSkipped
  <2>5. ASSUME NEW m \in Tx \cup {Malformed}, Publish(m) PROVE NothingSkipped'
    BY <2>3, <2>5 DEF Publish, handlerVars
  <2>6. ASSUME NEW r \in Replica, Rebalance(r) PROVE NothingSkipped'
    <3>1. /\ pc' = pc /\ cur' = cur /\ log' = log /\ settled' = settled /\ failed' = failed
          /\ committed' = committed /\ owner' = r /\ pos'[r] = committed
          /\ \A q \in Replica \ {r} : pos'[q] = pos[q]
      BY <2>6 DEF Rebalance, handlerVars, topicVars, TypeOK
    <3>2. NothingSkippedBy(r)'
      BY <3>1 DEF NothingSkipped, NothingSkippedBy, AnsweredUpTo, Answered
    <3>3. \A q \in Replica \ {r} : owner' # q
      BY <3>1
    <3> QED  BY <2>2, <2>4, <3>1, <3>2, <3>3
  <2>7. ASSUME NEW r \in Replica, Crash(r) PROVE NothingSkipped'
    <3>1. /\ pc'[r] = "fetch" /\ owner' # r /\ committed' = committed /\ pos' = pos
          /\ \A q \in Replica \ {r} : /\ pc'[q] = pc[q] /\ cur'[q] = cur[q]
                                      /\ owner' = q => owner = q
      BY <2>7, ConstantsAssumption DEF Crash, GoTo, TypeOK
    <3>2. NothingSkippedBy(r)'
      BY <3>1 DEF NothingSkippedBy
    <3> QED  BY <2>2, <2>4, <3>1, <3>2
  <2>8. ASSUME NEW t \in Tx, ExpireMarker(t) \/ ExpireHold(t) PROVE NothingSkipped'
    BY <2>3, <2>8 DEF ExpireMarker, ExpireHold, kafkaVars, handlerVars
  <2>9. ASSUME NEW r \in Replica, Fetch(r) PROVE NothingSkipped'
    <3>1. /\ owner' = owner /\ committed' = committed
          /\ \A q \in Replica \ {r} : pc'[q] = pc[q] /\ cur'[q] = cur[q] /\ pos'[q] = pos[q]
      BY <2>9 DEF Fetch, GoTo, TypeOK
    <3> QED  BY <2>2, <2>4, <2>9, <3>1, FetchSkipsNothing
  <2>10. ASSUME NEW r \in Replica,
                \/ IsProcessed(r) \/ GetAccountBalance(r) \/ PlaceHold(r)
                \/ PlaceHoldNetworkError(r) \/ MarkProcessed(r)
         PROVE  NothingSkipped'
    <3>1. /\ pc[r] \notin {"fetch", "commit"} /\ pc'[r] \notin {"fetch", "commit"}
          /\ \A q \in Replica \ {r} : pc'[q] = pc[q]
      BY <2>10 DEF IsProcessed, GetAccountBalance, PlaceHold,
                   PlaceHoldNetworkError, MarkProcessed, Return, GoTo, TypeOK
    <3>2. /\ cur' = cur /\ pos' = pos /\ owner' = owner /\ committed' = committed
      BY <2>10 DEF IsProcessed, GetAccountBalance, PlaceHold,
                   PlaceHoldNetworkError, MarkProcessed, kafkaVars
    <3>3. NothingSkippedBy(r)'
      BY <3>1, <3>2, DecidingSkipsNothing
    <3> QED  BY <2>2, <2>4, <3>1, <3>2, <3>3
  <2>11. ASSUME NEW r \in Replica, Produce(r) PROVE NothingSkipped'
    <3>1. /\ cur' = cur /\ pos' = pos /\ owner' = owner /\ committed' = committed
          /\ \A q \in Replica \ {r} : pc'[q] = pc[q]
      BY <2>11 DEF Produce, GoTo, kafkaVars, TypeOK
    <3>2. NothingSkippedBy(r)'
      BY <2>11, ProduceSkipsNothing
    <3> QED  BY <2>2, <2>4, <3>1, <3>2
  <2>12. ASSUME NEW r \in Replica, ProduceError(r) PROVE NothingSkipped'
    BY <2>12, FaultIsNoted DEF ProduceError, Without, LosingFaults
  <2>13. ASSUME NEW r \in Replica, Commit(r) PROVE NothingSkipped'
    <3>1. /\ pc[r] = "commit" /\ pc'[r] = "fetch" /\ cur[r] \in 0 .. Len(log)
          /\ pos' = pos /\ owner' = owner /\ log' = log
          /\ settled' = settled /\ failed' = failed
          /\ committed' = committed \/ committed' = cur[r]
          /\ \A q \in Replica \ {r} : pc'[q] = pc[q] /\ cur'[q] = cur[q]
      BY <2>13 DEF Commit, GoTo, topicVars, TypeOK
    <3>2. VerdictsUpTo(log, settled, failed, cur[r])
      BY <3>1 DEF NothingSkipped, NothingSkippedBy, AnsweredUpTo, Answered,
                  VerdictsUpTo
    <3>3. AnsweredUpTo(committed)'
      BY <2>1, <2>2, <3>1, <3>2
    <3>4. NothingSkippedBy(r)'
      BY <3>1 DEF NothingSkipped, NothingSkippedBy, AnsweredUpTo, Answered
    <3> QED  BY <2>4, <3>1, <3>3, <3>4
  <2>14. CASE UNCHANGED vars
    BY <2>3, <2>14 DEF vars, kafkaVars, handlerVars
  <2> QED
    BY <2>5, <2>6, <2>7, <2>8, <2>9, <2>10, <2>11, <2>12, <2>13, <2>14
    DEF Next, Handle
<1>3. NothingSkippedIfProduced => NoSilentLossIfProduced
  BY DEF NothingSkippedIfProduced, NothingSkipped, AnsweredUpTo, NoSilentLossIfProduced,
         NoSilentLoss
<1> QED  BY <1>1, <1>2, <1>3, TypeCorrect, PTL DEF Spec

-----------------------------------------------------------------------------
\* One settlement per transaction.

\* A step after which every replica is idle, or the only one with a message
\* in hand is the owner, about whose message the invariant says the same.
LEMMA MarkedFrame ==
    ASSUME TypeOK, MarkedBeforeSettled,
           UNCHANGED <<settled, processed>>,
           \A r \in Replica :
              \/ pc'[r] = "fetch"
              \/ /\ pc'[r] = pc[r] /\ verdict'[r] = verdict[r] /\ owner' = owner
                 /\ InHand(r)' = InHand(r)
    PROVE  MarkedBeforeSettled'
  BY DEF MarkedBeforeSettled

\* A handler at work is alone: a step of its own decides the invariant.
LEMMA MarkedOwnStep ==
    ASSUME TypeOK, MarkedBeforeSettled, NEW r \in Replica,
           owner = r, owner' = r,
           \A q \in Replica \ {r} : pc'[q] = pc[q],
           (\A t \in Tx : settled[t] <= 1 /\ (settled[t] > 0 => t \in processed))',
           (pc[r] \in {"getBalance", "placeHold", "markProcessed"}
               => InHand(r) \notin processed)',
           (pc[r] = "produce" /\ verdict[r] = Approved
               => InHand(r) \in processed /\ settled[InHand(r)] = 0)'
    PROVE  MarkedBeforeSettled'
<1>1. \A q \in Replica \ {r} : pc'[q] = "fetch"
  BY DEF MarkedBeforeSettled
<1> QED  BY <1>1 DEF MarkedBeforeSettled

Disturbances == {"redis_error", "expire", "rebalance", "produce_retry"}
MarkedUnlessDisturbed == Without(Disturbances) => MarkedBeforeSettled

\* As long as the marker can be read, is kept, and the partition has one
\* owner at a time, no transaction is settled twice, whatever crashes and
\* however often a message is delivered.
THEOREM SettledOnce == Spec => []SettledAtMostOnce
<1>1. Init => MarkedUnlessDisturbed
  BY DEF Init, MarkedBeforeSettled, MarkedUnlessDisturbed
<1>2. TypeOK /\ MarkedUnlessDisturbed /\ [Next]_vars => MarkedUnlessDisturbed'
  <2> SUFFICES ASSUME TypeOK, MarkedBeforeSettled, [Next]_vars, Without(Disturbances)'
               PROVE  MarkedBeforeSettled'
    BY FaultsStep DEF MarkedUnlessDisturbed, Without, TypeOK
  <2>1. /\ ~Fault("redis_error") /\ ~Fault("expire")
        /\ ~Fault("rebalance") /\ ~Fault("produce_retry")
    BY FaultIsNoted DEF Without, Disturbances
  <2>2. ASSUME NEW m \in Tx \cup {Malformed}, Publish(m) PROVE MarkedBeforeSettled'
    <3>1. UNCHANGED <<settled, processed, pc, verdict, owner, cur>>
      BY <2>2 DEF Publish, handlerVars, redisVars, topicVars
    <3>2. \A r \in Replica : pc'[r] = "fetch" \/ InHand(r)' = InHand(r)
      <4>1. \A r \in Replica : pc[r] # "fetch" => cur[r] \in 1 .. Len(log)
        BY DEF TypeOK
      <4> QED  BY <3>1, <4>1, LogGrows DEF InHand
    <3> QED  BY <3>1, <3>2, MarkedFrame
  <2>3. ASSUME NEW r \in Replica, Rebalance(r) PROVE MarkedBeforeSettled'
    <3>1. owner = NoOwner
      BY <2>1, <2>3 DEF Rebalance
    <3>2. \A q \in Replica : pc[q] = "fetch"
      BY <3>1, ConstantsAssumption DEF MarkedBeforeSettled
    <3> QED  BY <2>3, <3>2, MarkedFrame DEF Rebalance, handlerVars, redisVars, topicVars
  <2>4. ASSUME NEW r \in Replica, Crash(r) PROVE MarkedBeforeSettled'
    <3>1. /\ UNCHANGED <<settled, processed, log, verdict>>
          /\ pc'[r] = "fetch"
          /\ \A q \in Replica \ {r} : pc'[q] = pc[q] /\ cur'[q] = cur[q]
          /\ owner' = IF owner = r THEN NoOwner ELSE owner
      BY <2>4 DEF Crash, GoTo, redisVars, topicVars, TypeOK
    <3>2. \A q \in Replica \ {r} : pc[q] # "fetch" => owner' = owner
      BY <3>1 DEF MarkedBeforeSettled
    <3> QED  BY <3>1, <3>2, MarkedFrame DEF InHand
  <2>5. ASSUME NEW t \in Tx, ExpireMarker(t) \/ ExpireHold(t)
        PROVE  MarkedBeforeSettled'
    BY <2>1, <2>5 DEF ExpireMarker, ExpireHold
  <2>6. ASSUME NEW r \in Replica, Fetch(r) PROVE MarkedBeforeSettled'
    <3>1. /\ owner = r /\ owner' = r /\ UNCHANGED <<settled, processed>>
          /\ pc'[r] \in {"commit", "isProcessed"}
          /\ \A q \in Replica \ {r} : pc'[q] = pc[q]
      BY <2>6 DEF Fetch, GoTo, redisVars, topicVars, TypeOK
    <3> QED  BY <3>1, MarkedOwnStep DEF MarkedBeforeSettled
  <2>7. ASSUME NEW r \in Replica, IsProcessed(r) PROVE MarkedBeforeSettled'
    <3>1. /\ owner = r /\ owner' = r /\ UNCHANGED <<settled, processed, log, cur>>
          /\ \A q \in Replica \ {r} : pc'[q] = pc[q]
      BY <2>7 DEF IsProcessed, Return, GoTo, kafkaVars, redisVars, topicVars,
                  TypeOK, MarkedBeforeSettled
    <3>2. \/ pc'[r] = "produce" /\ verdict'[r] = "DUPLICATE_TRANSACTION"
          \/ pc'[r] = "getBalance" /\ InHand(r) \notin processed
      BY <2>1, <2>7 DEF IsProcessed, Return, GoTo, TypeOK
    <3> QED  BY <3>1, <3>2, MarkedOwnStep DEF MarkedBeforeSettled, InHand, Approved
  <2>8. ASSUME NEW r \in Replica,
               GetAccountBalance(r) \/ PlaceHold(r) \/ PlaceHoldNetworkError(r)
        PROVE  MarkedBeforeSettled'
    <3>1. /\ owner = r /\ owner' = r /\ UNCHANGED <<settled, processed, log, cur>>
          /\ pc[r] \in {"getBalance", "placeHold"}
          /\ \A q \in Replica \ {r} : pc'[q] = pc[q]
      BY <2>8 DEF GetAccountBalance, PlaceHold, PlaceHoldNetworkError, Return, GoTo,
                  kafkaVars, redisVars, topicVars, TypeOK, MarkedBeforeSettled
    <3>2. \/ pc'[r] \in {"getBalance", "placeHold", "markProcessed"}
          \/ pc'[r] = "produce" /\ verdict'[r] # Approved
      BY <2>8 DEF GetAccountBalance, PlaceHold, PlaceHoldNetworkError, Return, GoTo,
                  TypeOK, Approved
    <3>3. InHand(r)' = InHand(r) /\ InHand(r) \notin processed
      BY <3>1 DEF MarkedBeforeSettled, InHand
    <3> QED  BY <3>1, <3>2, <3>3, MarkedOwnStep DEF MarkedBeforeSettled
  <2>9. ASSUME NEW r \in Replica, MarkProcessed(r) PROVE MarkedBeforeSettled'
    <3>1. /\ owner = r /\ owner' = r /\ UNCHANGED <<settled, log, cur>>
          /\ processed' = processed \cup {InHand(r)} /\ InHand(r) \notin processed
          /\ pc'[r] = "produce" /\ InHand(r) \in Tx
          /\ \A q \in Replica \ {r} : pc'[q] = pc[q]
      BY <2>1, <2>9, InHandIsTx
      DEF MarkProcessed, Return, GoTo, kafkaVars, topicVars, TypeOK, MarkedBeforeSettled
    <3>2. settled[InHand(r)] = 0
      BY <3>1 DEF MarkedBeforeSettled, TypeOK
    <3> QED  BY <3>1, <3>2, MarkedOwnStep DEF MarkedBeforeSettled, InHand
  <2>10. ASSUME NEW r \in Replica, Produce(r) \/ ProduceError(r)
         PROVE  MarkedBeforeSettled'
    <3>1. /\ owner = r /\ owner' = r /\ UNCHANGED <<processed, verdict>>
          /\ pc[r] = "produce" /\ pc'[r] \in {"fetch", "commit"} /\ InHand(r) \in Tx
          /\ \A q \in Replica \ {r} : pc'[q] = pc[q]
      BY <2>10, InHandIsTx
      DEF Produce, ProduceError, GoTo, kafkaVars, redisVars, TypeOK, MarkedBeforeSettled
    <3>2. \/ settled' = settled
          \/ verdict[r] = Approved /\ settled' = [settled EXCEPT ![InHand(r)] = @ + 1]
      BY <2>1, <2>10 DEF Produce, ProduceError, Report, topicVars
    <3>3. verdict[r] = Approved => InHand(r) \in processed /\ settled[InHand(r)] = 0
      BY <3>1 DEF MarkedBeforeSettled
    <3>4. \A t \in Tx : \/ settled'[t] = settled[t]
                        \/ settled'[t] = 1 /\ t \in processed
      BY <3>1, <3>2, <3>3 DEF TypeOK
    <3> QED  BY <3>1, <3>4, MarkedOwnStep DEF MarkedBeforeSettled
  <2>11. ASSUME NEW r \in Replica, Commit(r) PROVE MarkedBeforeSettled'
    BY <2>11, MarkedFrame DEF Commit, GoTo, InHand, redisVars, topicVars, TypeOK
  <2>12. CASE UNCHANGED vars
    BY <2>12, MarkedFrame
    DEF vars, kafkaVars, handlerVars, redisVars, topicVars, InHand
  <2> QED
    BY <2>2, <2>3, <2>4, <2>5, <2>6, <2>7, <2>8, <2>9, <2>10, <2>11, <2>12
    DEF Next, Handle
<1>3. MarkedUnlessDisturbed => SettledAtMostOnce
  BY DEF MarkedUnlessDisturbed, MarkedBeforeSettled, SettledAtMostOnce, Disturbances
<1> QED  BY <1>1, <1>2, <1>3, TypeCorrect, PTL DEF Spec

-----------------------------------------------------------------------------
\* One hold per transaction.

\* A step that leaves Redis alone, and after which a replica is idle or where it
\* was with the message it had, unless it gives up before the hold.
LEMMA HeldFrame ==
    ASSUME TypeOK, HeldThenMarked,
           UNCHANGED <<debits, processed>>,
           \A r \in Replica :
              \/ pc'[r] = "fetch" /\ pc[r] # "markProcessed"
              \/ pc'[r] = pc[r] /\ InHand(r)' = InHand(r) /\ (pc[r] # "fetch" => owner' = owner)
    PROVE  HeldThenMarked'
  BY DEF HeldThenMarked

\* A handler at work is alone: a step of its own decides the invariant.
LEMMA HeldOwnStep ==
    ASSUME TypeOK, HeldThenMarked, NEW r \in Replica, owner = r, owner' = r,
           \A q \in Replica \ {r} : pc'[q] = pc[q],
           \A t \in Tx :
              /\ debits'[t] <= 1
              /\ debits'[t] > 0 =>
                    t \in processed' \/ (pc'[r] = "markProcessed" /\ InHand(r)' = t),
           pc'[r] \in {"getBalance", "placeHold"} => InHand(r)' \notin processed'
    PROVE  HeldThenMarked'
<1>1. \A q \in Replica \ {r} : pc'[q] = "fetch"
  BY DEF HeldThenMarked
<1> QED  BY <1>1 DEF HeldThenMarked

\* While r is not between its hold and the marker, what was taken is marked.
LEMMA TakenIsMarked ==
    ASSUME HeldThenMarked, NEW r \in Replica, owner = r, pc[r] # "markProcessed",
           NEW t \in Tx, debits[t] > 0
    PROVE  t \in processed
  BY DEF HeldThenMarked

HeldUnlessInterrupted == Without(Interruptions) => HeldThenMarked

\* However often a message is delivered, and whatever becomes of the verdicts,
\* no amount is taken twice, unless something comes between the hold and its
\* marker or takes the marker away.
THEOREM HeldOnce == Spec => []HeldOnceUnlessInterrupted
<1>1. Init => HeldUnlessInterrupted
  BY DEF Init, HeldThenMarked, HeldUnlessInterrupted
<1>2. TypeOK /\ HeldUnlessInterrupted /\ [Next]_vars => HeldUnlessInterrupted'
  <2> SUFFICES ASSUME TypeOK, HeldThenMarked, [Next]_vars, Without(Interruptions)'
               PROVE  HeldThenMarked'
    BY FaultsStep DEF HeldUnlessInterrupted, Without, TypeOK
  <2>1. \A k \in Interruptions : ~Fault(k)
    BY FaultIsNoted DEF Without
  <2>2. ASSUME NEW m \in Tx \cup {Malformed}, Publish(m) PROVE HeldThenMarked'
    <3>1. UNCHANGED <<debits, processed, pc, owner, cur>>
      BY <2>2 DEF Publish, handlerVars, redisVars
    <3>2. ASSUME NEW r \in Replica, pc[r] # "fetch" PROVE InHand(r)' = InHand(r)
      BY <3>1, <3>2, LogGrows DEF InHand, TypeOK
    <3> QED  BY <3>1, <3>2, HeldFrame
  <2>3. ASSUME NEW r \in Replica, Rebalance(r) PROVE HeldThenMarked'
    <3>1. owner = NoOwner
      BY <2>1, <2>3 DEF Rebalance, Interruptions
    <3>2. \A q \in Replica : pc[q] = "fetch"
      BY <3>1, ConstantsAssumption DEF HeldThenMarked
    <3> QED  BY <2>3, <3>2, HeldFrame DEF Rebalance, handlerVars, redisVars
  <2>4. ASSUME NEW r \in Replica, Crash(r) PROVE HeldThenMarked'
    BY <2>1, <2>4 DEF Crash, Interruptions
  <2>5. ASSUME NEW t \in Tx, ExpireMarker(t) \/ ExpireHold(t) PROVE HeldThenMarked'
    BY <2>1, <2>5 DEF ExpireMarker, ExpireHold, Interruptions
  <2>6. ASSUME NEW r \in Replica, pc[r] # "markProcessed", owner = r, owner' = r,
               UNCHANGED <<debits, processed>>,
               \A q \in Replica \ {r} : pc'[q] = pc[q],
               pc'[r] \in {"getBalance", "placeHold"} => InHand(r)' \notin processed
        PROVE  HeldThenMarked'
    <3>1. \A t \in Tx : debits[t] <= 1 /\ (debits[t] > 0 => t \in processed)
      BY <2>6, TakenIsMarked DEF HeldThenMarked
    <3> QED  BY <2>6, <3>1, HeldOwnStep
  <2>7. ASSUME NEW r \in Replica, Fetch(r) \/ IsProcessed(r) \/ GetAccountBalance(r)
        PROVE  HeldThenMarked'
    <3>1. /\ owner = r /\ owner' = r /\ pc[r] # "markProcessed"
          /\ UNCHANGED <<debits, processed, log>>
          /\ \A q \in Replica \ {r} : pc'[q] = pc[q]
      BY <2>7 DEF Fetch, IsProcessed, GetAccountBalance, Return, GoTo, kafkaVars,
                  redisVars, TypeOK, HeldThenMarked
    <3>2. pc'[r] \in {"getBalance", "placeHold"} => cur' = cur /\ InHand(r) \notin processed
      BY <2>1, <2>7 DEF Fetch, IsProcessed, GetAccountBalance, Return, GoTo, TypeOK,
                        HeldThenMarked, Interruptions
    <3> QED  BY <2>6, <3>1, <3>2 DEF InHand
  <2>8. ASSUME NEW r \in Replica, PlaceHold(r) PROVE HeldThenMarked'
    <3>1. /\ pc[r] = "placeHold" /\ owner = r /\ owner' = r
          /\ UNCHANGED <<log, cur, processed>>
          /\ InHand(r) \in Tx /\ InHand(r) \notin processed /\ InHand(r)' = InHand(r)
          /\ \A q \in Replica \ {r} : pc'[q] = pc[q]
      BY <2>8, InHandIsTx
      DEF PlaceHold, Return, GoTo, kafkaVars, TypeOK, HeldThenMarked, InHand
    <3>2. \A t \in Tx : debits[t] <= 1 /\ (debits[t] > 0 => t \in processed)
      BY <3>1, TakenIsMarked DEF HeldThenMarked
    <3>3. CASE ScriptReply(InHand(r)) = "held"
      <4>1. /\ pc'[r] = "markProcessed"
            /\ debits' = [debits EXCEPT ![InHand(r)] = @ + 1]
        BY <2>8, <3>3 DEF PlaceHold, ScriptEffect, GoTo, TypeOK
      <4>2. debits[InHand(r)] = 0
        BY <3>1, <3>2 DEF TypeOK
      <4>3. \A t \in Tx : debits'[t] = IF t = InHand(r) THEN 1 ELSE debits[t]
        BY <3>1, <4>1, <4>2 DEF TypeOK
      <4> QED  BY <3>1, <3>2, <4>1, <4>3, HeldOwnStep
    <3>4. CASE ScriptReply(InHand(r)) # "held"
      <4>1. debits' = debits /\ pc'[r] = "produce"
        BY <2>8, <3>4 DEF PlaceHold, ScriptEffect, Return, GoTo, TypeOK
      <4> QED  BY <2>6, <3>1, <4>1
    <3> QED  BY <3>3, <3>4
  <2>9. ASSUME NEW r \in Replica, PlaceHoldNetworkError(r) PROVE HeldThenMarked'
    BY <2>1, <2>9 DEF PlaceHoldNetworkError, Interruptions
  <2>10. ASSUME NEW r \in Replica, MarkProcessed(r) PROVE HeldThenMarked'
    <3>1. /\ pc[r] = "markProcessed" /\ pc'[r] = "produce" /\ owner = r /\ owner' = r
          /\ debits' = debits /\ processed' = processed \cup {InHand(r)}
          /\ \A q \in Replica \ {r} : pc'[q] = pc[q]
      BY <2>1, <2>10 DEF MarkProcessed, Return, GoTo, kafkaVars, TypeOK, HeldThenMarked,
                         Interruptions
    <3>2. \A t \in Tx : debits[t] <= 1 /\ (debits[t] > 0 => t \in processed')
      BY <3>1 DEF HeldThenMarked
    <3> QED  BY <3>1, <3>2, HeldOwnStep
  <2>11. ASSUME NEW r \in Replica, Produce(r) \/ ProduceError(r) \/ Commit(r)
         PROVE  HeldThenMarked'
    <3>1. /\ owner = r /\ owner' = r /\ pc[r] # "markProcessed"
          /\ pc'[r] \in {"commit", "fetch"} /\ UNCHANGED <<debits, processed>>
          /\ \A q \in Replica \ {r} : pc'[q] = pc[q]
      BY <2>11 DEF Produce, ProduceError, Commit, GoTo, kafkaVars, redisVars, TypeOK,
                   HeldThenMarked
    <3> QED  BY <2>6, <3>1
  <2>12. CASE UNCHANGED vars
    BY <2>12, HeldFrame DEF vars, kafkaVars, handlerVars, redisVars, InHand
  <2> QED
    BY <2>2, <2>3, <2>4, <2>5, <2>7, <2>8, <2>9, <2>10, <2>11, <2>12 DEF Next, Handle
<1>3. HeldUnlessInterrupted => HeldOnceUnlessInterrupted
  BY DEF HeldUnlessInterrupted, HeldThenMarked, HeldOnceUnlessInterrupted
<1> QED  BY <1>1, <1>2, <1>3, TypeCorrect, PTL DEF Spec

-----------------------------------------------------------------------------
\* The handler keeps the promise until something is redelivered or hidden from it.

\* The decision of t moves to d, and no other does.
Decides(t, d) == \A u \in Tx : Decision(u)' = IF u = t THEN d ELSE Decision(u)

SameDecisions == \A u \in Tx : Decision(u)' = Decision(u)

\* Decisions as the abstract specification keeps them.
LEMMA DecisionsMap ==
    /\ SameDecisions => UNCHANGED [t \in Tx |-> Decision(t)]
    /\ \A t \in Tx : \A d : Decides(t, d) =>
          [u \in Tx |-> Decision(u)]' = [[u \in Tx |-> Decision(u)] EXCEPT ![t] = d]
  BY DEF SameDecisions, Decides

\* A step that leaves Redis' balances and the decisions alone is a stutter of the
\* promise.
LEMMA PromiseStutters ==
    ASSUME balance' = balance, SameDecisions
    PROVE  Promise!Step
  BY DecisionsMap DEF Promise!Step

\* Only the debits, settled and failed of a transaction make its decision.
LEMMA DecisionFrame ==
    ASSUME NEW t \in Tx, debits'[t] = debits[t], settled'[t] = settled[t],
           failed'[t] = failed[t]
    PROVE  Decision(t)' = Decision(t)
  BY DEF Decision

\* A step of the environment keeps the order in which messages are handled.
LEMMA OrderFrame ==
    ASSUME TypeOK, HandledInOrder, [Next]_vars,
           UNCHANGED <<pc, cur, pos, owner, verdict, processed>>, SameDecisions,
           (\A i, j \in 1 .. Len(log) : log[i] = log[j] /\ log[i] \in Tx => i = j)'
    PROVE  HandledInOrder'
<1>1. ASSUME NEW r \in Replica PROVE HandledAsFar(r)'
  <2>1. pc[r] # "fetch" => InHand(r)' = InHand(r)
    BY LogGrows DEF InHand, TypeOK
  <2>2. pc[r] \notin {"fetch", "commit"} => Decision(InHand(r))' = Decision(InHand(r))
    BY <2>1, InHandIsTx DEF SameDecisions
  <2> QED  BY <2>1, <2>2 DEF HandledInOrder, HandledAsFar
<1>2. ASSUME NEW t \in Tx, (Decision(t) # "pending" \/ t \in processed)'
      PROVE  (owner # NoOwner /\ \E i \in 1 .. pos[owner] : log[i] = t)'
  <2>1. owner # NoOwner /\ \E i \in 1 .. pos[owner] : log[i] = t
    BY <1>2 DEF SameDecisions, HandledInOrder
  <2>2. \A i \in 1 .. pos[owner] : i \in 1 .. Len(log)
    BY <2>1 DEF TypeOK
  <2> QED  BY <2>1, <2>2, LogGrows
<1> QED  BY <1>1, <1>2 DEF HandledInOrder

\* So does a step of the owner that decides and marks nothing but what it has in
\* hand.
LEMMA OrderOwnStep ==
    ASSUME TypeOK, TypeOK', HandledInOrder, NEW r \in Replica, owner = r, owner' = r,
           log' = log, pos'[r] >= pos[r],
           \A q \in Replica \ {r} : pc'[q] = pc[q],
           \A t \in Tx : \/ pos'[r] # 0 /\ t = log[pos'[r]]
                         \/ Decision(t)' = Decision(t) /\ (t \in processed' => t \in processed),
           HandledAsFar(r)'
    PROVE  HandledInOrder'
<1>1. \A q \in Replica \ {r} : pc'[q] = "fetch"
  BY DEF HandledInOrder, HandledAsFar
<1>2. \A q \in Replica : HandledAsFar(q)'
  BY <1>1 DEF HandledAsFar
<1>3. pos[r] \in Nat /\ pos'[r] \in Nat
  BY DEF TypeOK
<1>4. ASSUME NEW t \in Tx, (Decision(t) # "pending" \/ t \in processed)'
      PROVE  \E i \in 1 .. pos'[r] : log[i] = t
  <2>1. CASE pos'[r] # 0 /\ t = log[pos'[r]]
    BY <1>3, <2>1
  <2>2. CASE Decision(t) # "pending" \/ t \in processed
    <3>1. PICK i \in 1 .. pos[r] : log[i] = t
      BY <2>2 DEF HandledInOrder
    <3> QED  BY <1>3, <3>1
  <2> QED  BY <1>4, <2>1, <2>2
<1> QED  BY <1>2, <1>4, ConstantsAssumption DEF HandledInOrder

\* Report decides the transaction in hand.
LEMMA ReportDecides ==
    ASSUME TypeOK, NEW r \in Replica, InHand(r) \in Tx, Report(r, 1), debits' = debits,
           Decision(InHand(r)) = IF verdict[r] = Approved THEN "held" ELSE "pending"
    PROVE  Decides(InHand(r), IF verdict[r] = Approved THEN "settled" ELSE "rejected")
<1>1. settled[InHand(r)] = 0 /\ failed[InHand(r)] = {}
  BY DEF Decision, TypeOK
<1>2. CASE verdict[r] = Approved
  <2>1. /\ failed' = failed
        /\ \A u \in Tx : settled'[u] = IF u = InHand(r) THEN 1 ELSE settled[u]
    BY <1>1, <1>2 DEF Report, TypeOK
  <2> QED  BY <1>2, <2>1 DEF Decides, Decision
<1>3. CASE verdict[r] # Approved
  <2>1. settled' = settled /\ failed' = [failed EXCEPT ![InHand(r)] = @ \cup {verdict[r]}]
    BY <1>3 DEF Report
  <2>2. \A u \in Tx : failed'[u] = IF u = InHand(r) THEN {verdict[r]} ELSE failed[u]
    BY <1>1, <2>1 DEF TypeOK
  <2> QED  BY <1>1, <1>3, <2>1, <2>2 DEF Decides, Decision
<1> QED  BY <1>2, <1>3

\* Every step that is no fault but a quiet one handles messages in order, and is
\* a step of the promise.
LEMMA QuietStep ==
    ASSUME TypeOK, HandledInOrder, [Next]_vars, happened' \subseteq QuietFaults
    PROVE  HandledInOrder' /\ Promise!Step
<1>1. \A k : k \notin QuietFaults => ~Fault(k)
  BY FaultIsNoted
<1>2. TypeOK'
  BY TypeStep
<1>3. UNCHANGED <<redisVars, topicVars>> => balance' = balance /\ SameDecisions
  BY DecisionFrame DEF redisVars, topicVars, SameDecisions
<1>4. ASSUME NEW m \in Tx \cup {Malformed}, Publish(m) PROVE HandledInOrder' /\ Promise!Step
  <2>1. /\ Len(log') = Len(log) + 1 /\ log'[Len(log) + 1] = m
        /\ \A i \in 1 .. Len(log) : log'[i] = log[i]
        /\ \A i \in 1 .. Len(log') : i \in 1 .. Len(log) \/ i = Len(log) + 1
    BY <1>4 DEF Publish, TypeOK
  <2>2. m = Malformed \/ \A i \in 1 .. Len(log) : log[i] # m
    BY <1>1, <1>4 DEF Publish, QuietFaults
  <2>3. ASSUME NEW i \in 1 .. Len(log'), NEW j \in 1 .. Len(log'),
               log'[i] = log'[j], log'[i] \in Tx
        PROVE  i = j
    BY <2>1, <2>2, <2>3, ConstantsAssumption DEF HandledInOrder
  <2> QED  BY <1>3, <1>4, <2>3, OrderFrame, PromiseStutters DEF Publish, handlerVars, redisVars
<1>5. ASSUME NEW r \in Replica, Rebalance(r) PROVE HandledInOrder' /\ Promise!Step
  <2>1. owner = NoOwner /\ UNCHANGED <<log, handlerVars, redisVars, topicVars>>
    BY <1>1, <1>5 DEF Rebalance, QuietFaults
  <2>2. \A q \in Replica : pc'[q] = "fetch"
    BY <2>1, ConstantsAssumption DEF HandledInOrder, HandledAsFar, handlerVars
  <2>3. \A q \in Replica : HandledAsFar(q)'
    BY <2>2 DEF HandledAsFar
  <2>4. \A t \in Tx : Decision(t)' = "pending" /\ t \notin processed'
    BY <1>3, <2>1 DEF HandledInOrder, SameDecisions, redisVars
  <2>5. HandledInOrder'
    BY <2>1, <2>3, <2>4 DEF HandledInOrder
  <2> QED  BY <1>3, <2>1, <2>5, PromiseStutters
<1>6. ASSUME NEW r \in Replica, Crash(r) PROVE HandledInOrder' /\ Promise!Step
  BY <1>1, <1>6 DEF Crash, QuietFaults
<1>7. ASSUME NEW t \in Tx, ExpireMarker(t) \/ ExpireHold(t)
      PROVE  HandledInOrder' /\ Promise!Step
  BY <1>1, <1>7 DEF ExpireMarker, ExpireHold, QuietFaults
<1>8. ASSUME NEW r \in Replica, Fetch(r) PROVE HandledInOrder' /\ Promise!Step
  <2>1. /\ owner = r /\ owner' = r /\ log' = log
        /\ pos[r] \in 0 .. Len(log) /\ pos'[r] = pos[r] + 1 /\ cur'[r] = pos[r] + 1
        /\ pc'[r] \in {"commit", "isProcessed"} /\ pos[r] + 1 \in 1 .. Len(log)
        /\ \A q \in Replica \ {r} : pc'[q] = pc[q]
        /\ UNCHANGED <<redisVars, topicVars>>
    BY <1>8 DEF Fetch, GoTo, TypeOK
  <2>2. SameDecisions /\ processed' = processed
    BY <1>3, <2>1 DEF redisVars
  <2>3. log[pos[r] + 1] \in Tx =>
           Decision(log[pos[r] + 1]) = "pending" /\ log[pos[r] + 1] \notin processed
    BY <2>1 DEF HandledInOrder
  <2>4. pc'[r] = "isProcessed" => InHand(r)' = log[pos[r] + 1] /\ log[pos[r] + 1] \in Tx
    <3>1. pc'[r] = "isProcessed" => log[pos[r] + 1] # Malformed
      BY <1>8 DEF Fetch, GoTo, TypeOK
    <3> QED  BY <2>1, <3>1 DEF InHand, TypeOK
  <2>5. pc'[r] = "isProcessed" =>
           Decision(InHand(r))' = "pending" /\ InHand(r)' \notin processed'
    BY <2>2, <2>3, <2>4 DEF SameDecisions
  <2>6. HandledAsFar(r)'
    BY <2>1, <2>5 DEF HandledAsFar
  <2> QED  BY <1>2, <1>3, <2>1, <2>2, <2>6, OrderOwnStep, PromiseStutters DEF SameDecisions
<1>9. ASSUME NEW r \in Replica, pc[r] \notin {"fetch", "commit"},
             UNCHANGED <<log, cur, pos, owner>>,
             \A q \in Replica \ {r} : pc'[q] = pc[q],
             \A t \in Tx : t # InHand(r) =>
                 Decision(t)' = Decision(t) /\ (t \in processed' => t \in processed),
             HandledAsFar(r)'
      PROVE  HandledInOrder'
  <2>1. owner = r /\ pos'[r] = pos[r] /\ pos[r] \in 1 .. Len(log) /\ InHand(r) = log[pos'[r]]
    BY <1>9, InHandIsTx DEF HandledInOrder, HandledAsFar, InHand
  <2> QED  BY <1>2, <1>9, <2>1, OrderOwnStep
<1>10. ASSUME NEW r \in Replica, IsProcessed(r) \/ GetAccountBalance(r)
       PROVE  HandledInOrder' /\ Promise!Step
  <2>1. /\ pc[r] \in {"isProcessed", "getBalance"}
        /\ UNCHANGED <<log, cur, pos, owner, redisVars, topicVars>>
        /\ \A q \in Replica \ {r} : pc'[q] = pc[q]
    BY <1>10 DEF IsProcessed, GetAccountBalance, Return, GoTo, kafkaVars, TypeOK
  <2>2. /\ InHand(r) \in Tx /\ InHand(r)' = InHand(r)
        /\ Decision(InHand(r)) = "pending" /\ InHand(r) \notin processed
        /\ owner = r /\ cur[r] = pos[r]
    BY <2>1, InHandIsTx DEF HandledInOrder, HandledAsFar, InHand
  <2>3. SameDecisions /\ processed' = processed
    BY <1>3, <2>1 DEF redisVars
  <2>4. \/ pc'[r] \in {"getBalance", "placeHold"}
        \/ pc'[r] = "produce" /\ verdict'[r] # Approved
    BY <1>10, <2>2 DEF IsProcessed, GetAccountBalance, Return, GoTo, TypeOK, Approved
  <2>5. Decision(InHand(r))' = "pending"
    BY <2>2, <2>3 DEF SameDecisions
  <2>6. HandledAsFar(r)'
    BY <2>1, <2>2, <2>3, <2>4, <2>5 DEF HandledAsFar
  <2> QED  BY <1>3, <1>9, <2>1, <2>3, <2>6, PromiseStutters DEF SameDecisions
<1>11. ASSUME NEW r \in Replica, PlaceHold(r) PROVE HandledInOrder' /\ Promise!Step
  <2>1. /\ pc[r] = "placeHold" /\ UNCHANGED <<log, cur, pos, owner, processed, topicVars>>
        /\ \A q \in Replica \ {r} : pc'[q] = pc[q]
    BY <1>11 DEF PlaceHold, Return, GoTo, kafkaVars, TypeOK
  <2>2. /\ InHand(r) \in Tx /\ InHand(r)' = InHand(r)
        /\ Decision(InHand(r)) = "pending" /\ InHand(r) \notin processed
        /\ owner = r /\ cur[r] = pos[r]
    BY <2>1, InHandIsTx DEF HandledInOrder, HandledAsFar, InHand
  <2>3. CASE ScriptReply(InHand(r)) = "held"
    <3>1. /\ pc'[r] = "markProcessed"
          /\ balance[SourceOf[InHand(r)]] # NoKey
          /\ ~(balance[SourceOf[InHand(r)]] < TotalAmount[InHand(r)])
          /\ balance' = [balance EXCEPT ![SourceOf[InHand(r)]] = @ - TotalAmount[InHand(r)]]
          /\ debits' = [debits EXCEPT ![InHand(r)] = @ + 1]
      BY <1>11, <2>3 DEF PlaceHold, ScriptEffect, ScriptReply, GoTo, TypeOK
    <3>2. debits[InHand(r)] = 0 /\ settled[InHand(r)] = 0 /\ failed[InHand(r)] = {}
      BY <2>2 DEF Decision, TypeOK
    <3>3. \A u \in Tx : debits'[u] = IF u = InHand(r) THEN 1 ELSE debits[u]
      BY <2>2, <3>1, <3>2 DEF TypeOK
    <3>4. Decides(InHand(r), "held")
      BY <2>1, <3>2, <3>3 DEF Decides, Decision, topicVars
    <3>5. HandledAsFar(r)'
      BY <2>1, <2>2, <3>1, <3>4 DEF HandledAsFar, Decides
    <3>6. HandledInOrder'
      BY <1>9, <2>1, <3>4, <3>5 DEF Decides
    <3>7. /\ SourceOf[InHand(r)] \in Account
          /\ balance[SourceOf[InHand(r)]] \in Int /\ TotalAmount[InHand(r)] \in Int
      BY <2>2, <3>1, ConstantsAssumption DEF TypeOK
    <3>8. balance[SourceOf[InHand(r)]] >= TotalAmount[InHand(r)]
      BY <3>1, <3>7
    <3>9. Promise!Hold(InHand(r))
      BY <2>2, <3>1, <3>4, <3>8, DecisionsMap DEF Promise!Hold
    <3> QED  BY <2>2, <3>6, <3>9 DEF Promise!Step, Promise!Next
  <2>4. CASE ScriptReply(InHand(r)) # "held"
    <3>1. /\ pc'[r] = "produce" /\ verdict'[r] # Approved
          /\ UNCHANGED <<redisVars, topicVars>>
      BY <1>11, <2>1, <2>4
      DEF PlaceHold, ScriptEffect, Return, GoTo, TypeOK, Approved, redisVars
    <3>2. SameDecisions
      BY <1>3, <3>1
    <3>3. HandledAsFar(r)'
      BY <2>1, <2>2, <3>1, <3>2 DEF HandledAsFar, SameDecisions
    <3> QED  BY <1>3, <1>9, <2>1, <3>1, <3>2, <3>3, PromiseStutters DEF SameDecisions
  <2> QED  BY <2>3, <2>4
<1>12. ASSUME NEW r \in Replica, PlaceHoldNetworkError(r) PROVE HandledInOrder' /\ Promise!Step
  <2>1. /\ pc[r] = "placeHold" /\ UNCHANGED <<log, cur, pos, owner, redisVars, topicVars>>
        /\ \A q \in Replica \ {r} : pc'[q] = pc[q]
    BY <1>1, <1>12 DEF PlaceHoldNetworkError, Return, GoTo, kafkaVars, redisVars, TypeOK,
                       QuietFaults
  <2>2. /\ InHand(r) \in Tx /\ InHand(r)' = InHand(r)
        /\ Decision(InHand(r)) = "pending" /\ InHand(r) \notin processed
        /\ owner = r /\ cur[r] = pos[r]
    BY <2>1, InHandIsTx DEF HandledInOrder, HandledAsFar, InHand
  <2>3. pc'[r] = "placeHold" \/ (pc'[r] = "produce" /\ verdict'[r] # Approved)
    BY <1>12 DEF PlaceHoldNetworkError, Return, GoTo, TypeOK, Approved
  <2>4. SameDecisions /\ processed' = processed
    BY <1>3, <2>1 DEF redisVars
  <2>5. HandledAsFar(r)'
    BY <2>1, <2>2, <2>3, <2>4 DEF HandledAsFar, SameDecisions
  <2> QED  BY <1>3, <1>9, <2>1, <2>4, <2>5, PromiseStutters DEF SameDecisions
<1>13. ASSUME NEW r \in Replica, MarkProcessed(r) PROVE HandledInOrder' /\ Promise!Step
  <2>1. /\ pc[r] = "markProcessed" /\ UNCHANGED <<log, cur, pos, owner, balance, debits, topicVars>>
        /\ pc'[r] = "produce" /\ verdict'[r] = Approved
        /\ \A q \in Replica \ {r} : pc'[q] = pc[q]
        /\ processed' \subseteq processed \cup {InHand(r)}
    BY <1>13 DEF MarkProcessed, Return, GoTo, kafkaVars, TypeOK
  <2>2. /\ InHand(r) \in Tx /\ InHand(r)' = InHand(r)
        /\ Decision(InHand(r)) = "held" /\ owner = r /\ cur[r] = pos[r]
    BY <2>1, InHandIsTx DEF HandledInOrder, HandledAsFar, InHand
  <2>3. SameDecisions
    BY <2>1, DecisionFrame DEF SameDecisions, topicVars
  <2>4. HandledAsFar(r)'
    BY <2>1, <2>2, <2>3 DEF HandledAsFar, SameDecisions
  <2> QED  BY <1>9, <2>1, <2>3, <2>4, PromiseStutters DEF SameDecisions
<1>14. ASSUME NEW r \in Replica, Produce(r) \/ ProduceError(r)
       PROVE  HandledInOrder' /\ Promise!Step
  <2>1. /\ pc[r] = "produce" /\ pc'[r] \in {"commit", "fetch"}
        /\ UNCHANGED <<log, pos, owner, redisVars>>
        /\ pc'[r] = "commit" => cur'[r] = cur[r]
        /\ \A q \in Replica \ {r} : pc'[q] = pc[q]
    BY <1>14 DEF Produce, ProduceError, GoTo, kafkaVars, TypeOK
  <2>2. /\ InHand(r) \in Tx /\ owner = r /\ cur[r] = pos[r] /\ pos[r] \in 1 .. Len(log)
        /\ Decision(InHand(r)) = IF verdict[r] = Approved THEN "held" ELSE "pending"
        /\ InHand(r) = log[pos'[r]]
    BY <2>1, InHandIsTx DEF HandledInOrder, HandledAsFar, InHand
  <2>3. HandledAsFar(r)'
    BY <2>1, <2>2 DEF HandledAsFar
  <2>4. UNCHANGED topicVars \/ Report(r, 1)
    BY <1>1, <1>14 DEF Produce, ProduceError, QuietFaults
  <2>5. balance' = balance /\ debits' = debits /\ processed' = processed
    BY <2>1 DEF redisVars
  <2>6. CASE UNCHANGED topicVars
    BY <1>2, <1>3, <2>1, <2>2, <2>3, <2>5, <2>6, OrderOwnStep, PromiseStutters
    DEF SameDecisions
  <2>7. CASE Report(r, 1)
    <3>1. Decides(InHand(r), IF verdict[r] = Approved THEN "settled" ELSE "rejected")
      BY <2>2, <2>5, <2>7, ReportDecides
    <3>2. HandledInOrder'
      BY <1>2, <2>1, <2>2, <2>3, <2>5, <3>1, OrderOwnStep DEF Decides
    <3>3. Promise!Settle(InHand(r)) \/ Promise!Reject(InHand(r))
      BY <2>2, <2>5, <3>1, DecisionsMap DEF Promise!Settle, Promise!Reject
    <3> QED  BY <2>2, <3>2, <3>3 DEF Promise!Step, Promise!Next
  <2> QED  BY <2>4, <2>6, <2>7
<1>15. ASSUME NEW r \in Replica, Commit(r) PROVE HandledInOrder' /\ Promise!Step
  <2>1. /\ pc[r] = "commit" /\ pc'[r] = "fetch" /\ pos[r] \in Nat
        /\ UNCHANGED <<log, pos, owner, redisVars, topicVars>>
        /\ \A q \in Replica \ {r} : pc'[q] = pc[q]
    BY <1>15 DEF Commit, GoTo, TypeOK
  <2>2. owner = r /\ HandledAsFar(r)'
    BY <2>1 DEF HandledInOrder, HandledAsFar
  <2>3. SameDecisions /\ processed' = processed
    BY <1>3, <2>1 DEF redisVars
  <2> QED  BY <1>2, <1>3, <2>1, <2>2, <2>3, OrderOwnStep, PromiseStutters DEF SameDecisions
<1>16. CASE UNCHANGED vars
  <2>1. UNCHANGED <<kafkaVars, handlerVars, redisVars, topicVars>>
    BY <1>16 DEF vars
  <2> QED  BY <1>3, <2>1, OrderFrame, PromiseStutters
           DEF kafkaVars, handlerVars, redisVars, HandledInOrder
<1> QED
  BY <1>4, <1>5, <1>6, <1>7, <1>8, <1>10, <1>11, <1>12, <1>13, <1>14, <1>15, <1>16
  DEF Next, Handle

OrderUnlessLoud == happened \subseteq QuietFaults => HandledInOrder

\* Authorization implements AuthorizationPromise: while calls only fail, one
\* decision is made about each transaction, its amount is taken only from an
\* account that can pay it, a rejection takes nothing, and only what was taken is
\* settled.
THEOREM PromiseIsKept == Spec => PromiseKept
<1>1. Init => OrderUnlessLoud /\ Promise!Init
  <2> SUFFICES ASSUME Init PROVE HandledInOrder /\ Promise!Init
    BY DEF OrderUnlessLoud
  <2>1. \A t \in Tx : Decision(t) = "pending"
    BY DEF Init, Decision
  <2>2. HandledInOrder
    BY <2>1 DEF Init, HandledInOrder, HandledAsFar
  <2>3. Promise!Init
    BY <2>1 DEF Init, Promise!Init
  <2> QED  BY <2>2, <2>3
<1>2. TypeOK /\ OrderUnlessLoud /\ [Next]_vars =>
         OrderUnlessLoud' /\ [happened' \subseteq QuietFaults => Promise!Step]_vars
  BY FaultsStep, QuietStep DEF OrderUnlessLoud, TypeOK
<1> QED  BY <1>1, <1>2, TypeCorrect, PTL DEF Spec, PromiseKept
=============================================================================
