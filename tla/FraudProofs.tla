---------------------------- MODULE FraudProofs ----------------------------
(***************************************************************************)
(* Theorems about the fraud service, for any transactions, replicas,       *)
(* draws within [0, 30] and faults: the type of the state, that decisions  *)
(* fit the risk, that no committed offset passes a transaction without one, *)
(* and that nothing is decided twice unless it is delivered again.         *)
(***************************************************************************)
EXTENDS Fraud, TLAPS

-----------------------------------------------------------------------------
\* Type correctness.

\* The record of faults keeps its type, and only grows.
LEMMA FaultsStep ==
    ASSUME FaultsOK, [Next]_vars
    PROVE  FaultsOK' /\ happened \subseteq happened'
<1>1. ASSUME NEW k, Fault(k) PROVE FaultsOK' /\ happened \subseteq happened'
  BY <1>1 DEF Fault, FaultsOK
<1>2. CASE UNCHANGED faultVars
  BY <1>2 DEF faultVars, FaultsOK
<1>3. UNCHANGED faultVars \/ \E k : Fault(k)
  BY DEF Next, Loop, Publish, Rebalance, Crash, Cancel, Fetch, Exit, Produce, Commit,
         vars, NoFault
<1> QED  BY <1>1, <1>2, <1>3

\* A fault of kind k is on the record from then on.
LEMMA FaultIsNoted == \A k : Fault(k) => k \in happened'
  BY DEF Fault

\* evaluateFraud answers with one of its three recommendations.
LEMMA RecommendationType ==
    \A score : Recommendation(score) \in Recommendations
  BY DEF Recommendation, Recommendations

\* Produce, when it publishes, adds to one topic what is about the
\* transaction in hand.
LEMMA SendEffect ==
    ASSUME TypeOK, NEW r \in Replica, pc[r] = "produce", NEW n \in Nat, Send(r, n)
    PROVE  /\ sent' \in [Tx -> [Recommendations -> Nat]]
           /\ \A t \in Tx, d \in Recommendations :
                 sent'[t][d] = IF t = log[cur[r]] /\ d = decision[r]
                               THEN sent[t][d] + n ELSE sent[t][d]
<1> DEFINE u == log[cur[r]]
           e == decision[r]
<1>1. u \in Tx /\ e \in Recommendations
  BY DEF TypeOK
<1>2. sent' = [sent EXCEPT ![u] = [sent[u] EXCEPT ![e] = sent[u][e] + n]]
  BY DEF Send
<1>3. sent[u] \in [Recommendations -> Nat] /\ sent[u][e] + n \in Nat
  BY <1>1 DEF TypeOK
<1> HIDE DEF u, e
<1> DEFINE f == [sent[u] EXCEPT ![e] = sent[u][e] + n]
<1>4. f \in [Recommendations -> Nat]
  BY <1>1, <1>3
<1>5. \A d \in Recommendations : f[d] = IF d = e THEN sent[u][d] + n ELSE sent[u][d]
  BY <1>1, <1>3
<1> HIDE DEF f
<1>6. sent' = [sent EXCEPT ![u] = f]
  BY <1>2 DEF f
<1>7. sent' \in [Tx -> [Recommendations -> Nat]]
  BY <1>4, <1>6 DEF TypeOK
<1>8. \A t \in Tx : sent'[t] = IF t = u THEN f ELSE sent[t]
  BY <1>6 DEF TypeOK
<1> QED  BY <1>5, <1>7, <1>8 DEF u, e

\* Every step keeps TypeOK.
LEMMA TypeStep == TypeOK /\ [Next]_vars => TypeOK'
<1> SUFFICES ASSUME TypeOK, [Next]_vars, FaultsOK' PROVE TypeOK'
  BY FaultsStep DEF TypeOK
<1>1. ASSUME NEW m \in Tx \cup {Malformed}, Publish(m) PROVE TypeOK'
  <2>1. /\ log' \in Seq(Tx \cup {Malformed})
        /\ Len(log') = Len(log) + 1
        /\ \A i \in 1 .. Len(log) : log'[i] = log[i]
    BY <1>1 DEF Publish, TypeOK
  <2>2. /\ pos' \in [Replica -> 0 .. Len(log')]
        /\ cur' \in [Replica -> 0 .. Len(log')]
        /\ committed' \in 0 .. Len(log')
    BY <1>1, <2>1 DEF Publish, TypeOK, loopVars
  <2> QED  BY <1>1, <2>1, <2>2 DEF Publish, TypeOK, loopVars
<1>2. ASSUME NEW r \in Replica, Rebalance(r) PROVE TypeOK'
  BY <1>2 DEF Rebalance, TypeOK, loopVars
<1>3. ASSUME NEW r \in Replica, Crash(r) \/ Exit(r) PROVE TypeOK'
  <2>1. /\ Restart(r)
        /\ owner' \in Replica \cup {NoOwner}
    BY <1>3 DEF Crash, Exit, Restart, TypeOK
  <2>2. /\ pc' = [pc EXCEPT ![r] = "fetch"]
        /\ cur' = [cur EXCEPT ![r] = 0]
        /\ stopping' = [stopping EXCEPT ![r] = FALSE]
        /\ UNCHANGED <<log, committed, pos, decision, sent>>
    BY <2>1 DEF Restart, GoTo
  <2> QED  BY <2>1, <2>2 DEF TypeOK
<1>4. ASSUME NEW r \in Replica, Cancel(r) PROVE TypeOK'
  BY <1>4 DEF Cancel, TypeOK, kafkaVars
<1>5. ASSUME NEW r \in Replica, Fetch(r) PROVE TypeOK'
  <2>1. pos[r] + 1 \in 1 .. Len(log) /\ log[pos[r] + 1] \in Tx \cup {Malformed}
    BY <1>5 DEF Fetch, TypeOK
  <2>2. decision' \in [Replica -> Recommendations]
    <3>1. decision' = decision
          \/ \E score : decision' = [decision EXCEPT ![r] = Recommendation(score)]
      BY <1>5 DEF Fetch
    <3> QED  BY <3>1, RecommendationType DEF TypeOK
  <2>3. \/ log[pos[r] + 1] = Malformed /\ pc' = [pc EXCEPT ![r] = "commit"]
        \/ log[pos[r] + 1] \in Tx /\ pc' = [pc EXCEPT ![r] = "produce"]
    BY <1>5, <2>1 DEF Fetch, GoTo
  <2>4. /\ pos' = [pos EXCEPT ![r] = pos[r] + 1]
        /\ cur' = [cur EXCEPT ![r] = pos[r] + 1]
        /\ UNCHANGED <<log, committed, owner, stopping, sent>>
    BY <1>5 DEF Fetch
  <2>5. \A q \in Replica : pc'[q] # "fetch" =>
           /\ cur'[q] # 0
           /\ pc'[q] = "produce" => log[cur'[q]] \in Tx
    BY <2>1, <2>3, <2>4, ConstantsAssumption DEF TypeOK
  <2> QED  BY <2>1, <2>2, <2>3, <2>4, <2>5 DEF TypeOK
<1>6. ASSUME NEW r \in Replica, Produce(r) PROVE TypeOK'
  <2>1. sent' \in [Tx -> [Recommendations -> Nat]]
    <3>1. sent' = sent \/ Send(r, 1) \/ Send(r, 2)
      BY <1>6 DEF Produce
    <3> QED  BY <1>6, <3>1, SendEffect DEF Produce, TypeOK
  <2> QED  BY <1>6, <2>1 DEF Produce, GoTo, TypeOK, kafkaVars
<1>7. ASSUME NEW r \in Replica, Commit(r) PROVE TypeOK'
  BY <1>7 DEF Commit, GoTo, TypeOK
<1>8. CASE UNCHANGED vars
  BY <1>8 DEF vars, kafkaVars, loopVars, TypeOK
<1> QED
  BY <1>1, <1>2, <1>3, <1>4, <1>5, <1>6, <1>7, <1>8 DEF Next, Loop

\* The state always has its type: a replica that publishes has a transaction
\* in hand.
THEOREM TypeCorrect == Spec => []TypeOK
<1>1. Init => TypeOK
  BY ConstantsAssumption DEF Init, TypeOK, FaultsOK, Recommendations
<1> QED  BY <1>1, TypeStep, PTL DEF Spec

-----------------------------------------------------------------------------
\* What the score decides.

\* The recommendations some draw gives t.
Possible(t) == {Recommendation(Score(t, draw)) : draw \in Draws}

\* A transaction of at most 10000 scores at most 45, one of at most 50000, or
\* in no listed category, at most 75, and one over 50000 in a listed category
\* at least 55.
LEMMA PossibleFitsRisk ==
    ASSUME NEW t \in Tx, NEW d \in Possible(t)
    PROVE  /\ Amount[t] <= 10000 => d = "APPROVE"
           /\ Amount[t] > 50000 /\ Listed(t) => d # "APPROVE"
           /\ Amount[t] <= 50000 \/ ~Listed(t) => d # "DECLINE"
<1> PICK draw \in Draws : d = Recommendation(Score(t, draw))
  BY DEF Possible
<1>1. draw \in 0 .. 30 /\ Amount[t] \in Int
  BY ConstantsAssumption
<1>2. CategoryPoints(t) \in {0, 10, 15}
  BY DEF CategoryPoints
<1>3. /\ Amount[t] <= 10000 => AmountPoints(t) = 0
      /\ Amount[t] > 10000 /\ Amount[t] <= 50000 => AmountPoints(t) = 20
      /\ Amount[t] > 50000 => AmountPoints(t) = 45
  BY <1>1 DEF AmountPoints
<1>4. /\ Amount[t] <= 10000 => Score(t, draw) < 50
      /\ Amount[t] > 50000 /\ Listed(t) => Score(t, draw) >= 50
      /\ Amount[t] <= 50000 \/ ~Listed(t) => Score(t, draw) < 80
      /\ Score(t, draw) \in Int
  BY <1>1, <1>2, <1>3 DEF Score, Listed
<1>5. /\ Score(t, draw) < 50 => d = "APPROVE"
      /\ Score(t, draw) >= 50 => d # "APPROVE"
      /\ Score(t, draw) < 80 => d # "DECLINE"
  BY <1>4 DEF Recommendation
<1> QED  BY <1>1, <1>4, <1>5

\* What DecisionFitsRisk needs: what is sent, or in a replica's hand, is what
\* some draw gives.
DrawnInv ==
    /\ \A t \in Tx, d \in Recommendations : sent[t][d] > 0 => d \in Possible(t)
    /\ \A r \in Replica : pc[r] = "produce" => decision[r] \in Possible(log[cur[r]])

\* A message in hand stays where it is in the log.
LEMMA LogGrows ==
    ASSUME TypeOK, [Next]_vars
    PROVE  \A i \in 1 .. Len(log) : log'[i] = log[i]
<1>1. CASE \E m \in Tx \cup {Malformed} : Publish(m)
  BY <1>1 DEF Publish, TypeOK
<1>2. log' = log \/ \E m \in Tx \cup {Malformed} : Publish(m)
  BY DEF Next, Loop, Rebalance, Crash, Exit, Restart, Cancel, Fetch, Produce, Commit,
         vars, kafkaVars
<1> QED  BY <1>1, <1>2

\* Whatever is drawn, redelivered or raced, an amount of at most 10000 is
\* always authorized, only one over 50000 in a listed category is declined, and
\* that one is never authorized.
THEOREM RiskDecides == Spec => []DecisionFitsRisk
<1>1. Init => DrawnInv
  BY DEF Init, DrawnInv
<1>2. TypeOK /\ DrawnInv /\ [Next]_vars => DrawnInv'
  <2> SUFFICES ASSUME TypeOK, DrawnInv, [Next]_vars PROVE DrawnInv'
    OBVIOUS
  <2>1. \A t \in Tx : Possible(t)' = Possible(t)
    BY DEF Possible, Score, Recommendation, AmountPoints, CategoryPoints
  <2>2. ASSUME NEW r \in Replica, pc'[r] = "produce", ~Fetch(r)
        PROVE  decision'[r] \in Possible(log'[cur'[r]])
    <3>1. pc[r] = "produce" /\ decision'[r] = decision[r] /\ cur'[r] = cur[r]
      BY <2>2 DEF Next, Loop, Publish, Rebalance, Crash, Exit, Restart, Cancel, Fetch,
                  Produce, Commit, GoTo, vars, kafkaVars, loopVars, TypeOK
    <3>2. cur[r] \in 1 .. Len(log)
      BY <3>1 DEF TypeOK
    <3> QED  BY <3>1, <3>2, LogGrows DEF DrawnInv
  <2>3. ASSUME NEW r \in Replica, Fetch(r), pc'[r] = "produce"
        PROVE  decision'[r] \in Possible(log'[cur'[r]])
    <3>1. log' = log /\ cur'[r] = pos[r] + 1 /\ log[pos[r] + 1] # Malformed
      BY <2>3 DEF Fetch, GoTo, TypeOK
    <3>2. PICK draw \in Draws :
             decision' = [decision EXCEPT ![r] = Recommendation(Score(log[pos[r] + 1], draw))]
      BY <2>3, <3>1 DEF Fetch
    <3> QED  BY <3>1, <3>2 DEF Possible, TypeOK
  <2>4. ASSUME NEW t \in Tx, NEW d \in Recommendations, sent'[t][d] > 0
        PROVE  d \in Possible(t)
    <3>1. CASE sent' = sent
      BY <2>4, <3>1 DEF DrawnInv
    <3>2. ASSUME NEW r \in Replica, Produce(r), NEW n \in {1, 2}, Send(r, n)
          PROVE  d \in Possible(t)
      <4>1. pc[r] = "produce"
        BY <3>2 DEF Produce
      <4>2. \/ sent'[t][d] = sent[t][d]
            \/ t = log[cur[r]] /\ d = decision[r]
        BY <3>2, <4>1, SendEffect
      <4> QED  BY <2>4, <4>1, <4>2 DEF DrawnInv
    <3>3. \/ sent' = sent
          \/ \E r \in Replica : Produce(r) /\ \E n \in {1, 2} : Send(r, n)
      BY DEF Next, Loop, Publish, Rebalance, Crash, Exit, Restart, Cancel, Fetch,
             Produce, Commit, vars
    <3> QED  BY <3>1, <3>2, <3>3
  <2> QED  BY <2>1, <2>2, <2>3, <2>4 DEF DrawnInv
<1>3. TypeOK /\ DrawnInv => DecisionFitsRisk
  <2> SUFFICES ASSUME TypeOK, DrawnInv, NEW t \in Tx
               PROVE  /\ Amount[t] <= 10000 => sent[t]["REVIEW"] = 0 /\ sent[t]["DECLINE"] = 0
                      /\ Amount[t] > 50000 /\ Listed(t) => sent[t]["APPROVE"] = 0
                      /\ Amount[t] <= 50000 \/ ~Listed(t) => sent[t]["DECLINE"] = 0
    BY DEF DecisionFitsRisk
  <2>1. \A d \in Recommendations : sent[t][d] = 0 \/ d \in Possible(t)
    BY DEF DrawnInv, TypeOK
  <2> QED  BY <2>1, PossibleFitsRisk DEF Recommendations
<1> QED  BY <1>1, <1>2, <1>3, TypeCorrect, PTL DEF Spec

-----------------------------------------------------------------------------
\* No offset is committed past a transaction without a decision.

Decided(counts) == \E d \in Recommendations : counts[d] > 0

\* The first n messages of log l are decided in s.
UpTo(l, s, n) == \A i \in 1 .. n : l[i] \in Tx => Decided(s[l[i]])

\* A replica has nothing undecided behind it, and neither has the reader of the
\* owner but for the transaction in hand.
SkipsNothing(r) ==
    /\ pc[r] = "commit" => UpTo(log, sent, cur[r])
    /\ pc[r] = "produce" => UpTo(log, sent, cur[r] - 1)
    /\ owner = r => \/ UpTo(log, sent, pos[r])
                    \/ pc[r] = "produce" /\ pos[r] = cur[r]

NothingSkipped ==
    Without(LosingFaults) =>
        /\ \A r \in Replica : ~stopping[r] /\ SkipsNothing(r)
        /\ UpTo(log, sent, committed)

\* Decisions are not taken back.
LEMMA DecisionsGrow ==
    ASSUME TypeOK, [Next]_vars
    PROVE  \A t \in Tx : Decided(sent[t]) => Decided(sent'[t])
<1>1. CASE UNCHANGED sent
  BY <1>1
<1>2. ASSUME NEW r \in Replica, Produce(r), NEW n \in {1, 2}, Send(r, n)
      PROVE  \A t \in Tx, d \in Recommendations : sent[t][d] > 0 => sent'[t][d] > 0
  <2>1. pc[r] = "produce" /\ n \in Nat
    BY <1>2 DEF Produce
  <2>2. \A t \in Tx, d \in Recommendations :
           /\ sent[t][d] \in Nat
           /\ sent'[t][d] = sent[t][d] \/ sent'[t][d] = sent[t][d] + n
    BY <1>2, <2>1, SendEffect DEF TypeOK
  <2> QED  BY <2>1, <2>2
<1>3. \/ UNCHANGED sent
      \/ \E r \in Replica : Produce(r) /\ \E n \in {1, 2} : Send(r, n)
  BY DEF Next, Loop, Publish, Rebalance, Crash, Exit, Restart, Cancel, Fetch, Produce,
         Commit, vars
<1> QED  BY <1>1, <1>2, <1>3 DEF Decided

\* So what is decided stays decided.
LEMMA UpToStays ==
    ASSUME TypeOK, [Next]_vars, NEW n \in 0 .. Len(log), UpTo(log, sent, n)
    PROVE  UpTo(log', sent', n)
<1>1. \A i \in 1 .. n : log'[i] = log[i]
  BY LogGrows DEF TypeOK
<1> QED  BY <1>1, DecisionsGrow DEF UpTo

\* A replica that a step does not touch skips nothing.
LEMMA UntouchedSkipsNothing ==
    ASSUME TypeOK, [Next]_vars, NEW q \in Replica, SkipsNothing(q),
           pc'[q] = pc[q], cur'[q] = cur[q], pos'[q] = pos[q], owner' = q => owner = q
    PROVE  SkipsNothing(q)'
<1>1. /\ cur[q] \in 0 .. Len(log) /\ pos[q] \in 0 .. Len(log)
      /\ pc[q] # "fetch" => cur[q] - 1 \in 0 .. Len(log)
  BY DEF TypeOK
<1>2. /\ UpTo(log, sent, cur[q]) => UpTo(log', sent', cur[q])
      /\ UpTo(log, sent, pos[q]) => UpTo(log', sent', pos[q])
      /\ pc[q] # "fetch" /\ UpTo(log, sent, cur[q] - 1) => UpTo(log', sent', cur[q] - 1)
  BY <1>1, UpToStays
<1> QED  BY <1>2 DEF SkipsNothing

\* Neither does one that fetches the next message.
LEMMA FetchSkipsNothing ==
    ASSUME TypeOK, [Next]_vars, NEW r \in Replica, SkipsNothing(r), Fetch(r)
    PROVE  SkipsNothing(r)'
<1>1. /\ owner = r /\ pc[r] = "fetch" /\ owner' = r
      /\ pos[r] \in 0 .. Len(log) /\ pos'[r] = pos[r] + 1 /\ cur'[r] = pos[r] + 1
      /\ log' = log /\ sent' = sent
      /\ \/ log[pos[r] + 1] = Malformed /\ pc'[r] = "commit"
         \/ log[pos[r] + 1] # Malformed /\ pc'[r] = "produce"
  BY DEF Fetch, GoTo, TypeOK
<1>2. UpTo(log, sent, pos[r])
  BY <1>1 DEF SkipsNothing
<1>3. CASE log[pos[r] + 1] = Malformed /\ pc'[r] = "commit"
  <2>1. UpTo(log, sent, pos[r] + 1)
    BY <1>1, <1>2, <1>3, ConstantsAssumption DEF UpTo
  <2> QED  BY <1>1, <1>3, <2>1 DEF SkipsNothing
<1>4. CASE log[pos[r] + 1] # Malformed /\ pc'[r] = "produce"
  <2>1. cur'[r] - 1 = pos[r]
    BY <1>1
  <2> QED  BY <1>1, <1>2, <1>4, <2>1 DEF SkipsNothing
<1> QED  BY <1>1, <1>3, <1>4

\* Nor does one whose decision reaches its topic.
LEMMA ProduceSkipsNothing ==
    ASSUME TypeOK, [Next]_vars, NEW r \in Replica, SkipsNothing(r), Produce(r),
           ~stopping[r], Without(LosingFaults)'
    PROVE  SkipsNothing(r)'
<1>1. /\ pc[r] = "produce" /\ pc'[r] = "commit"
      /\ cur' = cur /\ pos' = pos /\ owner' = owner /\ log' = log
  BY DEF Produce, GoTo, kafkaVars, TypeOK
<1>2. /\ cur[r] \in 1 .. Len(log) /\ cur[r] - 1 \in 0 .. Len(log) /\ pos[r] \in 0 .. Len(log)
      /\ log[cur[r]] \in Tx /\ decision[r] \in Recommendations
  BY <1>1 DEF TypeOK
<1>3. Decided(sent'[log[cur[r]]])
  <2>1. PICK n \in {1, 2} : Send(r, n)
    BY FaultIsNoted DEF Produce, Without, LosingFaults
  <2>2. sent'[log[cur[r]]][decision[r]] = sent[log[cur[r]]][decision[r]] + n
    BY <1>1, <1>2, <2>1, SendEffect
  <2>3. sent[log[cur[r]]][decision[r]] \in Nat
    BY <1>2 DEF TypeOK
  <2>4. sent'[log[cur[r]]][decision[r]] > 0
    BY <2>1, <2>2, <2>3
  <2> QED  BY <1>2, <2>4 DEF Decided
<1>4. UpTo(log', sent', cur[r] - 1)
  BY <1>1, <1>2, UpToStays DEF SkipsNothing
<1>5. UpTo(log', sent', cur[r])
  BY <1>1, <1>2, <1>3, <1>4 DEF UpTo
<1>6. UpTo(log, sent, pos[r]) => UpTo(log', sent', pos[r])
  BY <1>2, UpToStays
<1> QED  BY <1>1, <1>5, <1>6 DEF SkipsNothing

\* If every decision can be published, then whatever crashes and whoever takes
\* the partition over, the committed offset never passes a transaction that has
\* no decision.
THEOREM NothingUndecided == Spec => []CommittedIsDecidedIfProduced
<1>1. Init => NothingSkipped
  BY DEF Init, NothingSkipped, SkipsNothing, UpTo
<1>2. TypeOK /\ NothingSkipped /\ [Next]_vars => NothingSkipped'
  <2> SUFFICES ASSUME TypeOK, [Next]_vars, Without(LosingFaults)',
                      UpTo(log, sent, committed),
                      \A r \in Replica : ~stopping[r] /\ SkipsNothing(r)
               PROVE  /\ \A r \in Replica : ~stopping'[r] /\ SkipsNothing(r)'
                      /\ UpTo(log', sent', committed')
    BY FaultsStep DEF NothingSkipped, Without, TypeOK
  <2>1. UpTo(log', sent', committed)
    BY UpToStays DEF TypeOK
  <2>2. \A r \in Replica : ~stopping'[r]
    <3>1. ASSUME NEW r \in Replica PROVE ~Cancel(r)
      BY FaultIsNoted DEF Cancel, Without, LosingFaults
    <3>2. UNCHANGED stopping \/ \E r \in Replica : Restart(r)
      BY <3>1 DEF Next, Loop, Publish, Rebalance, Crash, Exit, Fetch, Produce, Commit,
                  vars, loopVars
    <3> QED  BY <3>2 DEF Restart, TypeOK
  <2> DEFINE Goal == (\A r \in Replica : SkipsNothing(r)') /\ UpTo(log', sent', committed')
  <2>3. ASSUME UNCHANGED <<pc, cur, pos, owner, committed>> PROVE Goal
    BY <2>1, <2>3, UntouchedSkipsNothing
  <2>4. ASSUME NEW r \in Replica, SkipsNothing(r)', UpTo(log', sent', committed'),
               \A q \in Replica \ {r} : /\ pc'[q] = pc[q] /\ cur'[q] = cur[q]
                                        /\ pos'[q] = pos[q]
                                        /\ owner' = q => owner = q
        PROVE  Goal
    BY <2>4, UntouchedSkipsNothing
  <2>5. ASSUME NEW m \in Tx \cup {Malformed}, Publish(m) PROVE Goal
    BY <2>3, <2>5 DEF Publish, loopVars
  <2>6. ASSUME NEW r \in Replica, Rebalance(r) PROVE Goal
    <3>1. /\ pc' = pc /\ cur' = cur /\ log' = log /\ sent' = sent
          /\ committed' = committed /\ owner' = r /\ pos'[r] = committed
          /\ \A q \in Replica \ {r} : pos'[q] = pos[q] /\ owner' # q
      BY <2>6 DEF Rebalance, loopVars, TypeOK
    <3>2. SkipsNothing(r)'
      BY <3>1 DEF SkipsNothing
    <3> QED  BY <2>1, <2>4, <3>1, <3>2
  <2>7. ASSUME NEW r \in Replica, Crash(r) \/ Exit(r) PROVE Goal
    <3>1. Restart(r)
      BY <2>7 DEF Crash, Exit
    <3>2. /\ pc'[r] = "fetch" /\ owner' # r /\ committed' = committed /\ pos' = pos
          /\ \A q \in Replica \ {r} : /\ pc'[q] = pc[q] /\ cur'[q] = cur[q]
                                      /\ owner' = q => owner = q
      BY <3>1, ConstantsAssumption DEF Restart, GoTo, TypeOK
    <3>3. SkipsNothing(r)'
      BY <3>2 DEF SkipsNothing
    <3> QED  BY <2>1, <2>4, <3>2, <3>3
  <2>8. ASSUME NEW r \in Replica, Cancel(r) PROVE Goal
    BY <2>3, <2>8 DEF Cancel, kafkaVars
  <2>9. ASSUME NEW r \in Replica, Fetch(r) PROVE Goal
    <3>1. /\ owner' = owner /\ committed' = committed
          /\ \A q \in Replica \ {r} : pc'[q] = pc[q] /\ cur'[q] = cur[q] /\ pos'[q] = pos[q]
      BY <2>9 DEF Fetch, GoTo, TypeOK
    <3> QED  BY <2>1, <2>4, <2>9, <3>1, FetchSkipsNothing
  <2>10. ASSUME NEW r \in Replica, Produce(r) PROVE Goal
    <3>1. /\ cur' = cur /\ pos' = pos /\ owner' = owner /\ committed' = committed
          /\ \A q \in Replica \ {r} : pc'[q] = pc[q]
      BY <2>10 DEF Produce, GoTo, kafkaVars, TypeOK
    <3> QED  BY <2>1, <2>4, <2>10, <3>1, ProduceSkipsNothing
  <2>11. ASSUME NEW r \in Replica, Commit(r) PROVE Goal
    <3>1. /\ pc[r] = "commit" /\ pc'[r] = "fetch" /\ cur[r] \in 0 .. Len(log)
          /\ pos' = pos /\ owner' = owner /\ log' = log /\ sent' = sent
          /\ committed' = committed \/ committed' = cur[r]
          /\ \A q \in Replica \ {r} : pc'[q] = pc[q] /\ cur'[q] = cur[q]
      BY <2>11 DEF Commit, GoTo, TypeOK
    <3>2. UpTo(log', sent', committed')
      BY <2>1, <3>1 DEF SkipsNothing
    <3>3. SkipsNothing(r)'
      BY <3>1 DEF SkipsNothing
    <3> QED  BY <2>4, <3>1, <3>2, <3>3
  <2>12. CASE UNCHANGED vars
    BY <2>3, <2>12 DEF vars, kafkaVars, loopVars
  <2>13. Goal
    BY <2>5, <2>6, <2>7, <2>8, <2>9, <2>10, <2>11, <2>12 DEF Next, Loop
  <2> QED  BY <2>2, <2>13
<1>3. TypeOK /\ NothingSkipped => CommittedIsDecidedIfProduced
  <2> SUFFICES ASSUME TypeOK, UpTo(log, sent, committed)
               PROVE  \A i \in 1 .. committed : log[i] \in Tx => Decisions(log[i]) > 0
    BY DEF NothingSkipped, CommittedIsDecidedIfProduced
  <2>1. ASSUME NEW t \in Tx, Decided(sent[t]) PROVE Decisions(t) > 0
    <3>1. \A d \in Recommendations : sent[t][d] \in Nat
      BY DEF TypeOK
    <3> QED  BY <2>1, <3>1 DEF Decided, Decisions, Recommendations
  <2> QED  BY <2>1 DEF UpTo
<1> QED  BY <1>1, <1>2, <1>3, TypeCorrect, PTL DEF Spec

-----------------------------------------------------------------------------
\* Nothing is decided twice unless it is delivered again.

\* No transaction is in the topic twice.
LogOnce == \A i, j \in 1 .. Len(log) : log[i] = log[j] /\ log[i] \in Tx => i = j

\* Only the owner of the partition works, on the message it read last, and no
\* replica is told to stop.
OneAtWork ==
    \A r \in Replica : ~stopping[r] /\ (pc[r] # "fetch" => owner = r /\ cur[r] = pos[r])

\* How far the owner is past its calls of produce.
Finished == IF pc[owner] = "produce" THEN pos[owner] - 1 ELSE pos[owner]

Behind(t) == owner # NoOwner /\ \E i \in 1 .. Finished : log[i] = t

DecidedOnce(t) == Decisions(t) <= 1 /\ (Decisions(t) > 0 => Behind(t))

\* What DecidedOnceUnlessRedelivered needs: what is decided is behind the one
\* replica at work, which meets no message a second time.
NothingTwice ==
    Without(Repeating) => LogOnce /\ OneAtWork /\ \A t \in Tx : DecidedOnce(t)

\* The messages about a transaction are counted by whole numbers.
LEMMA DecisionsType == TypeOK => \A t \in Tx : Decisions(t) \in Nat
  BY DEF TypeOK, Decisions, Recommendations

\* A step that publishes nothing about a transaction, and does not take the
\* owner back, leaves it decided once.
LEMMA DecidedOnceStays ==
    ASSUME TypeOK, [Next]_vars, NEW t \in Tx, DecidedOnce(t),
           owner' = owner, Finished' >= Finished, sent'[t] = sent[t]
    PROVE  DecidedOnce(t)'
<1>1. Decisions(t)' = Decisions(t)
  BY DEF Decisions
<1>2. CASE Behind(t)
  <2>1. owner \in Replica /\ Finished \in Int /\ Finished <= Len(log)
    BY <1>2 DEF Behind, TypeOK, Finished
  <2>2. Finished' \in Int
    BY <2>1, TypeStep DEF TypeOK, Finished
  <2>3. PICK i \in 1 .. Finished : log[i] = t
    BY <1>2 DEF Behind
  <2>4. i \in 1 .. Len(log) /\ i \in 1 .. Finished'
    BY <2>1, <2>2, <2>3 DEF TypeOK
  <2>5. log'[i] = t
    BY <2>3, <2>4, LogGrows
  <2> QED  BY <1>1, <2>1, <2>4, <2>5, ConstantsAssumption DEF Behind, DecidedOnce
<1> QED  BY <1>1, <1>2 DEF DecidedOnce

\* Whatever messages are lost and commits fail, no transaction is decided twice
\* unless its message came again or its decision was written twice.
THEOREM NothingDecidedTwice == Spec => []DecidedOnceUnlessRedelivered
<1>1. Init => NothingTwice
  BY DEF Init, NothingTwice, LogOnce, OneAtWork, DecidedOnce, Decisions, Recommendations
<1>2. TypeOK /\ NothingTwice /\ [Next]_vars => NothingTwice'
  <2> SUFFICES ASSUME TypeOK, [Next]_vars, Without(Repeating)',
                      LogOnce, OneAtWork, \A t \in Tx : DecidedOnce(t)
               PROVE  LogOnce' /\ OneAtWork' /\ \A t \in Tx : DecidedOnce(t)'
    BY FaultsStep DEF NothingTwice, Without, TypeOK
  <2> DEFINE Goal == LogOnce' /\ OneAtWork' /\ \A t \in Tx : DecidedOnce(t)'
  <2>1. \A k \in Repeating : ~Fault(k)
    BY FaultIsNoted DEF Without
  <2>2. ASSUME UNCHANGED <<pc, cur, stopping, pos, owner, sent>>, LogOnce' PROVE Goal
    <3>1. OneAtWork'
      BY <2>2 DEF OneAtWork
    <3>2. ASSUME NEW t \in Tx PROVE DecidedOnce(t)'
      <4>1. CASE Behind(t)
        <5>1. Finished \in Int /\ Finished' = Finished
          BY <2>2, <4>1 DEF Behind, Finished, TypeOK
        <5> QED  BY <2>2, <5>1, DecidedOnceStays
      <4>2. CASE ~Behind(t)
        BY <2>2, <4>2 DEF DecidedOnce, Decisions
      <4> QED  BY <4>1, <4>2
    <3> QED  BY <2>2, <3>1, <3>2
  <2>3. ASSUME NEW m \in Tx \cup {Malformed}, Publish(m) PROVE Goal
    <3>1. /\ log' = Append(log, m) /\ Len(log') = Len(log) + 1
          /\ \A i \in 1 .. Len(log) : log'[i] = log[i]
          /\ log'[Len(log) + 1] = m
      BY <2>3 DEF Publish, TypeOK
    <3>2. m = Malformed \/ \A i \in 1 .. Len(log) : log[i] # m
      BY <2>1, <2>3 DEF Publish, Repeating
    <3>3. ASSUME NEW i \in 1 .. Len(log'), NEW j \in 1 .. Len(log'),
                 log'[i] = log'[j], log'[i] \in Tx
          PROVE  i = j
      <4>1. \A k \in 1 .. Len(log') : k \in 1 .. Len(log) \/ k = Len(log) + 1
        BY <3>1 DEF TypeOK
      <4> QED  BY <3>1, <3>2, <3>3, <4>1, ConstantsAssumption DEF LogOnce
    <3>4. LogOnce'
      BY <3>3 DEF LogOnce
    <3> QED  BY <2>2, <2>3, <3>4 DEF Publish, loopVars
  <2>4. ASSUME NEW r \in Replica, Rebalance(r) PROVE Goal
    <3>1. owner = NoOwner /\ UNCHANGED <<log, pc, cur, stopping, sent>>
      BY <2>1, <2>4 DEF Rebalance, Repeating, loopVars
    <3>2. LogOnce'
      BY <3>1 DEF LogOnce
    <3>3. OneAtWork'
      BY <3>1, ConstantsAssumption DEF OneAtWork
    <3>4. \A t \in Tx : DecidedOnce(t)'
      BY <3>1 DEF DecidedOnce, Decisions, Behind
    <3> QED  BY <3>2, <3>3, <3>4
  <2>5. ASSUME NEW r \in Replica, Crash(r) \/ Cancel(r) \/ Exit(r) PROVE Goal
    BY <2>1, <2>5 DEF Crash, Cancel, Exit, Repeating, OneAtWork
  <2>6. ASSUME NEW r \in Replica, Fetch(r) PROVE Goal
    <3>1. /\ owner = r /\ owner' = r /\ log' = log /\ pc[r] = "fetch"
          /\ pos'[r] = pos[r] + 1 /\ cur'[r] = pos[r] + 1 /\ pos[r] \in Nat
          /\ \A q \in Replica \ {r} : pc'[q] = pc[q] /\ cur'[q] = cur[q] /\ pos'[q] = pos[q]
          /\ UNCHANGED <<stopping, sent>>
      BY <2>6 DEF Fetch, GoTo, TypeOK
    <3>2. LogOnce' /\ OneAtWork'
      BY <3>1 DEF LogOnce, OneAtWork
    <3>3. Finished' >= Finished
      BY <3>1 DEF Finished
    <3> QED  BY <3>1, <3>2, <3>3, DecidedOnceStays
  <2>7. ASSUME NEW r \in Replica, Produce(r) PROVE Goal
    <3>1. /\ owner = r /\ cur[r] = pos[r] /\ pc[r] = "produce" /\ pc'[r] = "commit"
          /\ UNCHANGED <<log, pos, cur, owner, stopping>>
          /\ \A q \in Replica \ {r} : pc'[q] = pc[q]
          /\ pos[r] \in 1 .. Len(log) /\ log[pos[r]] \in Tx
      BY <2>7 DEF Produce, GoTo, TypeOK, kafkaVars, OneAtWork
    <3>2. LogOnce' /\ OneAtWork'
      BY <3>1 DEF LogOnce, OneAtWork
    <3>3. Finished = pos[r] - 1 /\ Finished' = pos[r]
      BY <3>1 DEF Finished
    <3>4. \A t \in Tx : t = log[pos[r]] => ~Behind(t) /\ Behind(t)'
      BY <3>1, <3>3, ConstantsAssumption DEF Behind, LogOnce
    <3>5. \A d \in Recommendations : sent[log[pos[r]]][d] = 0
      <4>1. Decisions(log[pos[r]]) = 0
        BY <3>1, <3>4, DecisionsType DEF DecidedOnce
      <4> QED  BY <3>1, <4>1 DEF Decisions, Recommendations, TypeOK
    <3>6. UNCHANGED sent \/ Send(r, 1)
      BY <2>1, <2>7 DEF Produce, Repeating
    <3>7. \A t \in Tx, d \in Recommendations :
             sent'[t][d] = sent[t][d] \/ (t = log[pos[r]] /\ d = decision[r] /\ sent'[t][d] = 1)
      BY <3>1, <3>5, <3>6, SendEffect
    <3>8. ASSUME NEW t \in Tx PROVE DecidedOnce(t)'
      <4>1. CASE t = log[pos[r]]
        <5>1. \A d \in Recommendations : sent'[t][d] = 0 \/ (d = decision[r] /\ sent'[t][d] = 1)
          BY <3>5, <3>7, <4>1
        <5>2. Decisions(t)' <= 1
          BY <5>1 DEF Decisions, Recommendations
        <5> QED  BY <3>4, <4>1, <5>2 DEF DecidedOnce
      <4>2. CASE t # log[pos[r]]
        <5>1. sent'[t] = sent[t]
          <6>1. sent' \in [Tx -> [Recommendations -> Nat]]
            BY TypeStep DEF TypeOK
          <6>2. /\ sent[t] \in [Recommendations -> Nat] /\ sent'[t] \in [Recommendations -> Nat]
                /\ \A d \in Recommendations : sent'[t][d] = sent[t][d]
            BY <3>7, <4>2, <6>1 DEF TypeOK
          <6> QED  BY <6>2
        <5> QED  BY <3>1, <3>3, <5>1, DecidedOnceStays
      <4> QED  BY <4>1, <4>2
    <3> QED  BY <3>2, <3>8
  <2>8. ASSUME NEW r \in Replica, Commit(r) PROVE Goal
    <3>1. /\ owner = r /\ pc[r] = "commit" /\ pc'[r] = "fetch" /\ pos[r] \in Nat
          /\ UNCHANGED <<log, pos, owner, sent, stopping>>
          /\ \A q \in Replica \ {r} : pc'[q] = pc[q] /\ cur'[q] = cur[q]
      BY <2>8 DEF Commit, GoTo, TypeOK, OneAtWork
    <3>2. LogOnce' /\ OneAtWork'
      BY <3>1 DEF LogOnce, OneAtWork
    <3>3. Finished' >= Finished
      BY <3>1 DEF Finished
    <3> QED  BY <3>1, <3>2, <3>3, DecidedOnceStays
  <2>9. CASE UNCHANGED vars
    BY <2>2, <2>9 DEF vars, kafkaVars, loopVars, LogOnce
  <2> QED
    BY <2>3, <2>4, <2>5, <2>6, <2>7, <2>8, <2>9 DEF Next, Loop
<1>3. NothingTwice => DecidedOnceUnlessRedelivered
  BY DEF NothingTwice, DecidedOnce, DecidedOnceUnlessRedelivered
<1> QED  BY <1>1, <1>2, <1>3, TypeCorrect, PTL DEF Spec
=============================================================================
