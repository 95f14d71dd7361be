------------------------- MODULE NotificationProofs -------------------------
(***************************************************************************)
(* Theorems about the notification service, for any notifications,         *)
(* replicas and faults: the type of the state, that results tell what      *)
(* happened, that no committed offset passes a notification without a      *)
(* result, and that nothing is sent twice unless it is delivered again.    *)
(***************************************************************************)
EXTENDS Notification, TLAPS

-----------------------------------------------------------------------------
\* Type correctness.

\* The record of faults keeps its type, and only grows.
LEMMA FaultsStep ==
    ASSUME FaultsOK, [Next]_vars
    PROVE  FaultsOK' /\ happened \subseteq happened'
<1>1. ASSUME NEW k, Fault(k) PROVE FaultsOK' /\ happened \subseteq happened'
  BY <1>1 DEF Fault, FaultsOK
<1>2. CASE UNCHANGED faultVars
  BY <1>2 DEF faultVars, FaultsOK
<1>3. UNCHANGED faultVars \/ \E k : Fault(k)
  BY DEF Next, Loop, Publish, Request, Rebalance, Crash, Fetch, SendNotification,
         PublishResult, Commit, vars, NoFault
<1> QED  BY <1>1, <1>2, <1>3

\* A fault of kind k is on the record from then on.
LEMMA FaultIsNoted == \A k : Fault(k) => k \in happened'
  BY DEF Fault

\* publishResult adds to one topic what is about the notification in hand.
LEMMA ResultEffect ==
    ASSUME results \in [Note -> [Statuses -> Nat]], NEW r \in Replica,
           Current(r) \in Note, NEW s \in Statuses, NEW n \in Nat, Result(r, s, n)
    PROVE  /\ results' \in [Note -> [Statuses -> Nat]]
           /\ \A m \in Note, d \in Statuses :
                 results'[m][d] = IF m = Current(r) /\ d = s
                                  THEN results[m][d] + n ELSE results[m][d]
<1> DEFINE u == Current(r)
           f == [results[u] EXCEPT ![s] = results[u][s] + n]
<1>1. results' = [results EXCEPT ![u] = f]
  BY DEF Result
<1>2. u \in Note /\ results[u] \in [Statuses -> Nat] /\ results[u][s] + n \in Nat
  OBVIOUS
<1> HIDE DEF u
<1>3. f \in [Statuses -> Nat]
  BY <1>2
<1>4. \A d \in Statuses : f[d] = IF d = s THEN results[u][d] + n ELSE results[u][d]
  BY <1>2
<1> HIDE DEF f
<1>5. results' \in [Note -> [Statuses -> Nat]]
  BY <1>1, <1>3
<1>6. \A m \in Note : results'[m] = IF m = u THEN f ELSE results[m]
  BY <1>1
<1> QED  BY <1>4, <1>5, <1>6 DEF u

\* What publishResult can do.
LEMMA PublishEffect ==
    ASSUME TypeOK, NEW r \in Replica, PublishResult(r)
    PROVE  /\ Current(r) \in Note /\ StatusOf(r) \in Statuses
           /\ results' \in [Note -> [Statuses -> Nat]]
           /\ \A m \in Note, d \in Statuses :
                 \/ results'[m][d] = results[m][d]
                 \/ m = Current(r) /\ d = StatusOf(r)
           /\ \/ \E m \in {1, 2} :
                    results'[Current(r)][StatusOf(r)] = results[Current(r)][StatusOf(r)] + m
              \/ UNCHANGED results /\ "produce_lost" \in happened'
           /\ \A m \in Note, d \in Statuses : results'[m][d] >= results[m][d]
<1>1. Current(r) \in Note /\ StatusOf(r) \in Statuses
  BY DEF PublishResult, TypeOK, Current, StatusOf, Statuses
<1>2. results \in [Note -> [Statuses -> Nat]]
  BY DEF TypeOK
<1>3. CASE \E n \in {1, 2} : Result(r, StatusOf(r), n)
  <2>1. PICK n \in {1, 2} : Result(r, StatusOf(r), n)
    BY <1>3
  <2>2. n \in Nat
    BY <2>1
  <2>3. /\ results' \in [Note -> [Statuses -> Nat]]
        /\ \A m \in Note, d \in Statuses :
              results'[m][d] = IF m = Current(r) /\ d = StatusOf(r)
                               THEN results[m][d] + n ELSE results[m][d]
    BY <1>1, <1>2, <2>1, <2>2, ResultEffect
  <2>4. \A m \in Note, d \in Statuses : results[m][d] \in Nat
    BY <1>2
  <2> QED  BY <1>1, <2>2, <2>3, <2>4
<1>4. CASE UNCHANGED results /\ "produce_lost" \in happened'
  <2>1. \A m \in Note, d \in Statuses : results[m][d] \in Nat
    BY <1>2
  <2> QED  BY <1>1, <1>2, <1>4, <2>1
<1> QED  BY <1>3, <1>4, FaultIsNoted DEF PublishResult

\* Every step keeps TypeOK.
LEMMA TypeStep == TypeOK /\ [Next]_vars => TypeOK'
<1> SUFFICES ASSUME TypeOK, [Next]_vars, FaultsOK' PROVE TypeOK'
  BY FaultsStep DEF TypeOK
<1>1. ASSUME NEW m \in Note \cup {Malformed}, Publish(m) PROVE TypeOK'
  <2>1. /\ log' \in Seq(Note \cup {Malformed})
        /\ Len(log') = Len(log) + 1
        /\ \A i \in 1 .. Len(log) : log'[i] = log[i]
    BY <1>1 DEF Publish, TypeOK
  <2>2. /\ pos' \in [Replica -> 0 .. Len(log')]
        /\ cur' \in [Replica -> 0 .. Len(log')]
        /\ committed' \in 0 .. Len(log')
    BY <1>1, <2>1 DEF Publish, TypeOK, loopVars
  <2> QED  BY <1>1, <2>1, <2>2 DEF Publish, TypeOK, loopVars, sendVars, httpVars
<1>2. ASSUME NEW n \in Note, Request(n) PROVE TypeOK'
  BY <1>2 DEF Request, TypeOK, kafkaVars, loopVars, sendVars
<1>3. ASSUME NEW r \in Replica, Rebalance(r) PROVE TypeOK'
  BY <1>3 DEF Rebalance, TypeOK, loopVars, sendVars, httpVars
<1>4. ASSUME NEW r \in Replica, Crash(r) PROVE TypeOK'
  BY <1>4 DEF Crash, GoTo, TypeOK, sendVars, httpVars
<1>5. ASSUME NEW r \in Replica, Fetch(r) PROVE TypeOK'
  <2>1. pos[r] + 1 \in 1 .. Len(log) /\ log[pos[r] + 1] \in Note \cup {Malformed}
    BY <1>5 DEF Fetch, TypeOK
  <2>2. \/ log[pos[r] + 1] = Malformed /\ pc' = [pc EXCEPT ![r] = "commit"]
        \/ log[pos[r] + 1] \in Note /\ pc' = [pc EXCEPT ![r] = "send"]
    BY <1>5, <2>1 DEF Fetch, GoTo
  <2>3. /\ pos' = [pos EXCEPT ![r] = pos[r] + 1]
        /\ cur' = [cur EXCEPT ![r] = pos[r] + 1]
        /\ UNCHANGED <<log, committed, owner, failing, sendVars, results, httpVars>>
    BY <1>5 DEF Fetch
  <2>4. \A q \in Replica : pc'[q] # "fetch" =>
           /\ cur'[q] # 0
           /\ pc'[q] \in {"send", "publish"} => log[cur'[q]] \in Note
    BY <2>1, <2>2, <2>3, ConstantsAssumption DEF TypeOK
  <2>5. /\ pc' \in [Replica -> {"fetch", "send", "publish", "commit"}]
        /\ pos' \in [Replica -> 0 .. Len(log)]
        /\ cur' \in [Replica -> 0 .. Len(log)]
    BY <2>1, <2>2, <2>3 DEF TypeOK
  <2> QED  BY <2>3, <2>4, <2>5 DEF TypeOK, sendVars, httpVars
<1>6. ASSUME NEW r \in Replica, SendNotification(r) PROVE TypeOK'
  <2>1. Current(r) \in Note
    BY <1>6 DEF SendNotification, TypeOK, Current
  <2>2. processed' \subseteq {Key[n] : n \in Note}
    BY <1>6, <2>1 DEF SendNotification, Mark, TypeOK
  <2>3. tried' \in [Note -> Nat]
    BY <1>6, <2>1 DEF SendNotification, TypeOK
  <2>4. failing' \in [Replica -> BOOLEAN]
    BY <1>6 DEF SendNotification, TypeOK
  <2> QED
    BY <1>6, <2>2, <2>3, <2>4 DEF SendNotification, GoTo, TypeOK, kafkaVars, httpVars
<1>7. ASSUME NEW r \in Replica, PublishResult(r) PROVE TypeOK'
  <2>1. results' \in [Note -> [Statuses -> Nat]]
    BY <1>7, PublishEffect
  <2> QED  BY <1>7, <2>1 DEF PublishResult, GoTo, TypeOK, kafkaVars, sendVars, httpVars
<1>8. ASSUME NEW r \in Replica, Commit(r) PROVE TypeOK'
  BY <1>8 DEF Commit, GoTo, TypeOK, sendVars, httpVars
<1>9. CASE UNCHANGED vars
  BY <1>9 DEF vars, kafkaVars, loopVars, sendVars, httpVars, TypeOK
<1> QED
  BY <1>1, <1>2, <1>3, <1>4, <1>5, <1>6, <1>7, <1>8, <1>9 DEF Next, Loop

\* The state always has its type: a replica that sends has a notification in
\* hand.
THEOREM TypeCorrect == Spec => []TypeOK
<1>1. Init => TypeOK
  BY ConstantsAssumption DEF Init, TypeOK, FaultsOK, Statuses
<1> QED  BY <1>1, TypeStep, PTL DEF Spec

\* A message stays where it is in the log.
LEMMA LogGrows ==
    ASSUME TypeOK, [Next]_vars
    PROVE  Len(log') >= Len(log) /\ \A i \in 1 .. Len(log) : log'[i] = log[i]
<1>1. CASE \E m \in Note \cup {Malformed} : Publish(m)
  BY <1>1 DEF Publish, TypeOK
<1>2. log' = log \/ \E m \in Note \cup {Malformed} : Publish(m)
  BY DEF Next, Loop, Request, Rebalance, Crash, Fetch, SendNotification,
         PublishResult, Commit, vars, kafkaVars
<1> QED  BY <1>1, <1>2 DEF TypeOK

-----------------------------------------------------------------------------
\* Results tell what happened.

RedisFailed == ~Without({"redis_error", "reply_lost"})

\* What ResultFitsSend needs: so does what a replica is about to publish.
Fits(r) ==
    pc[r] = "publish" => IF failing[r] THEN RedisFailed ELSE Key[log[cur[r]]] \in processed

FitInv == ResultFitsSend /\ \A r \in Replica : Fits(r)

\* What was set, and what went wrong, is not taken back.
LEMMA RecordsGrow ==
    ASSUME TypeOK, [Next]_vars
    PROVE  processed \subseteq processed' /\ (RedisFailed => RedisFailed')
<1>1. processed \subseteq processed'
  BY DEF Next, Loop, Publish, Request, Rebalance, Crash, Fetch, SendNotification, Mark,
         PublishResult, Commit, vars, sendVars
<1>2. happened \subseteq happened'
  BY FaultsStep DEF TypeOK
<1> QED  BY <1>1, <1>2 DEF RedisFailed, Without

\* A replica that a step does not touch has what it is about to publish.
LEMMA UntouchedFits ==
    ASSUME TypeOK, [Next]_vars, NEW q \in Replica, Fits(q),
           pc'[q] = pc[q], cur'[q] = cur[q], failing'[q] = failing[q]
    PROVE  Fits(q)'
<1>1. pc[q] = "publish" => cur[q] \in 1 .. Len(log)
  BY DEF TypeOK
<1>2. pc[q] = "publish" => log'[cur[q]] = log[cur[q]]
  BY <1>1, LogGrows
<1> QED  BY <1>2, RecordsGrow DEF Fits

\* SENT is published only of what Redis has been told of, FAILED only after an
\* error of Redis, whatever crashes, is lost or comes again.
THEOREM ResultsTellTheTruth == Spec => []ResultFitsSend
<1>1. Init => FitInv
  BY DEF Init, FitInv, Fits, ResultFitsSend, Statuses
<1>2. TypeOK /\ FitInv /\ [Next]_vars => FitInv'
  <2> SUFFICES ASSUME TypeOK, FitInv, [Next]_vars PROVE FitInv'
    OBVIOUS
  <2>1. ASSUME UNCHANGED results PROVE ResultFitsSend'
    BY <2>1, RecordsGrow DEF FitInv, ResultFitsSend, RedisFailed
  <2>2. ASSUME \A q \in Replica : pc'[q] = pc[q] /\ cur'[q] = cur[q] /\ failing'[q] = failing[q],
               UNCHANGED results
        PROVE  FitInv'
    BY <2>1, <2>2, UntouchedFits DEF FitInv
  <2>3. ASSUME NEW r \in Replica, Fits(r)', ResultFitsSend',
               \A q \in Replica \ {r} :
                  pc'[q] = pc[q] /\ cur'[q] = cur[q] /\ failing'[q] = failing[q]
        PROVE  FitInv'
    BY <2>3, UntouchedFits DEF FitInv
  <2>4. ASSUME NEW m \in Note \cup {Malformed}, Publish(m) PROVE FitInv'
    BY <2>2, <2>4 DEF Publish, loopVars
  <2>5. ASSUME NEW n \in Note, Request(n) PROVE FitInv'
    BY <2>2, <2>5 DEF Request, loopVars
  <2>6. ASSUME NEW r \in Replica, Rebalance(r) PROVE FitInv'
    BY <2>2, <2>6 DEF Rebalance, loopVars
  <2>7. ASSUME NEW r \in Replica, Crash(r) \/ Fetch(r) \/ Commit(r) PROVE FitInv'
    <3>1. /\ pc'[r] # "publish" /\ UNCHANGED results
          /\ \A q \in Replica \ {r} :
                pc'[q] = pc[q] /\ cur'[q] = cur[q] /\ failing'[q] = failing[q]
      BY <2>7 DEF Crash, Fetch, Commit, GoTo, TypeOK
    <3>2. Fits(r)'
      BY <3>1 DEF Fits
    <3> QED  BY <2>1, <2>3, <3>1, <3>2
  <2>8. ASSUME NEW r \in Replica, SendNotification(r) PROVE FitInv'
    <3>1. /\ UNCHANGED <<results, log, cur>>
          /\ \A q \in Replica \ {r} : pc'[q] = pc[q] /\ failing'[q] = failing[q]
      BY <2>8 DEF SendNotification, GoTo, kafkaVars, TypeOK
    <3>2. \/ Mark(r) /\ failing'[r] = FALSE
          \/ failing'[r] = TRUE /\ ("redis_error" \in happened' \/ "reply_lost" \in happened')
      BY <2>8, FaultIsNoted DEF SendNotification, TypeOK
    <3>3. Fits(r)'
      BY <3>1, <3>2 DEF Fits, Mark, Current, RedisFailed, Without
    <3> QED  BY <2>1, <2>3, <3>1, <3>3
  <2>9. ASSUME NEW r \in Replica, PublishResult(r) PROVE FitInv'
    <3>1. /\ pc[r] = "publish" /\ pc'[r] # "publish"
          /\ \A q \in Replica \ {r} :
                pc'[q] = pc[q] /\ cur'[q] = cur[q] /\ failing'[q] = failing[q]
      BY <2>9 DEF PublishResult, GoTo, TypeOK
    <3>2. Fits(r)'
      BY <3>1 DEF Fits
    <3>3. \A m \in Note :
             /\ results'[m]["SENT"] > 0 =>
                   results[m]["SENT"] > 0 \/ (m = Current(r) /\ ~failing[r])
             /\ results'[m]["FAILED"] > 0 =>
                   results[m]["FAILED"] > 0 \/ (m = Current(r) /\ failing[r])
      BY <2>9, PublishEffect DEF StatusOf, Statuses
    <3>4. IF failing[r] THEN RedisFailed ELSE Key[Current(r)] \in processed
      BY <3>1 DEF FitInv, Fits, Current
    <3>5. \A m \in Note : /\ results'[m]["SENT"] > 0 => Key[m] \in processed
                          /\ results'[m]["FAILED"] > 0 => RedisFailed
      BY <3>3, <3>4 DEF FitInv, ResultFitsSend, RedisFailed
    <3>6. ResultFitsSend'
      BY <3>5, RecordsGrow DEF ResultFitsSend, RedisFailed
    <3> QED  BY <2>3, <3>1, <3>2, <3>6
  <2>10. CASE UNCHANGED vars
    BY <2>2, <2>10 DEF vars, loopVars
  <2> QED  BY <2>4, <2>5, <2>6, <2>7, <2>8, <2>9, <2>10 DEF Next, Loop
<1>3. FitInv => ResultFitsSend
  BY DEF FitInv
<1> QED  BY <1>1, <1>2, <1>3, TypeCorrect, PTL DEF Spec

-----------------------------------------------------------------------------
\* No offset is committed past a notification without a result.

\* The first n messages of log l have their results in s.
UpTo(l, s, n) ==
    \A i \in 1 .. n : l[i] \in Note => \E d \in Statuses : s[l[i]][d] > 0

\* A replica has nothing without a result behind it, and neither has the reader
\* of the owner but for the notification in hand.
SkipsNothing(r) ==
    /\ pc[r] = "commit" => UpTo(log, results, cur[r])
    /\ pc[r] \in {"send", "publish"} => UpTo(log, results, cur[r] - 1)
    /\ owner = r => \/ UpTo(log, results, pos[r])
                    \/ pc[r] \in {"send", "publish"} /\ pos[r] = cur[r]

NothingSkipped ==
    Without({"produce_lost"}) =>
        UpTo(log, results, committed) /\ \A r \in Replica : SkipsNothing(r)

\* Results are not taken back.
LEMMA ResultsGrow ==
    ASSUME TypeOK, [Next]_vars
    PROVE  \A m \in Note, d \in Statuses : results[m][d] > 0 => results'[m][d] > 0
<1>1. CASE UNCHANGED results
  BY <1>1
<1>2. ASSUME NEW r \in Replica, PublishResult(r)
      PROVE  \A m \in Note, d \in Statuses : results[m][d] > 0 => results'[m][d] > 0
  <2>1. \A m \in Note, d \in Statuses :
           /\ results'[m][d] >= results[m][d]
           /\ results[m][d] \in Nat /\ results'[m][d] \in Nat
    BY <1>2, PublishEffect DEF TypeOK
  <2> QED  BY <2>1
<1>3. UNCHANGED results \/ \E r \in Replica : PublishResult(r)
  BY DEF Next, Loop, Publish, Request, Rebalance, Crash, Fetch, SendNotification,
         Commit, vars
<1> QED  BY <1>1, <1>2, <1>3

\* So what has its results keeps them.
LEMMA UpToStays ==
    ASSUME TypeOK, [Next]_vars, NEW n \in 0 .. Len(log), UpTo(log, results, n)
    PROVE  UpTo(log', results', n)
<1>1. \A i \in 1 .. n : log'[i] = log[i]
  BY LogGrows DEF TypeOK
<1> QED  BY <1>1, ResultsGrow DEF UpTo

\* A replica that a step does not touch skips nothing.
LEMMA UntouchedSkipsNothing ==
    ASSUME TypeOK, [Next]_vars, NEW q \in Replica, SkipsNothing(q),
           pc'[q] = pc[q] \/ (pc[q] = "send" /\ pc'[q] = "publish"),
           cur'[q] = cur[q], pos'[q] = pos[q], owner' = q => owner = q
    PROVE  SkipsNothing(q)'
<1>1. /\ cur[q] \in 0 .. Len(log) /\ pos[q] \in 0 .. Len(log)
      /\ pc[q] # "fetch" => cur[q] - 1 \in 0 .. Len(log)
  BY DEF TypeOK
<1>2. /\ UpTo(log, results, cur[q]) => UpTo(log', results', cur[q])
      /\ UpTo(log, results, pos[q]) => UpTo(log', results', pos[q])
      /\ pc[q] # "fetch" /\ UpTo(log, results, cur[q] - 1) => UpTo(log', results', cur[q] - 1)
  BY <1>1, UpToStays
<1> QED  BY <1>2 DEF SkipsNothing

\* Neither does one that fetches the next message.
LEMMA FetchSkipsNothing ==
    ASSUME TypeOK, [Next]_vars, NEW r \in Replica, SkipsNothing(r), Fetch(r)
    PROVE  SkipsNothing(r)'
<1>1. /\ owner = r /\ pc[r] = "fetch" /\ owner' = r
      /\ pos[r] \in 0 .. Len(log) /\ pos'[r] = pos[r] + 1 /\ cur'[r] = pos[r] + 1
      /\ log' = log /\ results' = results
      /\ \/ log[pos[r] + 1] = Malformed /\ pc'[r] = "commit"
         \/ log[pos[r] + 1] # Malformed /\ pc'[r] = "send"
  BY DEF Fetch, GoTo, TypeOK
<1>2. UpTo(log, results, pos[r])
  BY <1>1 DEF SkipsNothing
<1>3. CASE log[pos[r] + 1] = Malformed /\ pc'[r] = "commit"
  <2>1. UpTo(log, results, pos[r] + 1)
    BY <1>1, <1>2, <1>3, ConstantsAssumption DEF UpTo
  <2> QED  BY <1>1, <1>3, <2>1 DEF SkipsNothing
<1>4. CASE log[pos[r] + 1] # Malformed /\ pc'[r] = "send"
  <2>1. cur'[r] - 1 = pos[r]
    BY <1>1
  <2> QED  BY <1>1, <1>2, <1>4, <2>1 DEF SkipsNothing
<1> QED  BY <1>1, <1>3, <1>4

\* Nor does one whose result reaches its topic.
LEMMA PublishSkipsNothing ==
    ASSUME TypeOK, [Next]_vars, NEW r \in Replica, SkipsNothing(r), PublishResult(r),
           Without({"produce_lost"})'
    PROVE  SkipsNothing(r)'
<1>1. /\ pc[r] = "publish" /\ pc'[r] = "commit"
      /\ cur' = cur /\ pos' = pos /\ owner' = owner /\ log' = log
  BY DEF PublishResult, GoTo, kafkaVars, TypeOK
<1>2. cur[r] \in 1 .. Len(log) /\ cur[r] - 1 \in 0 .. Len(log) /\ pos[r] \in 0 .. Len(log)
  BY <1>1 DEF TypeOK
<1>3. Current(r) \in Note /\ \E d \in Statuses : results'[Current(r)][d] > 0
  <2>1. Current(r) \in Note /\ StatusOf(r) \in Statuses
    BY PublishEffect
  <2>2. results[Current(r)][StatusOf(r)] \in Nat
    BY <2>1 DEF TypeOK
  <2>3. PICK m \in {1, 2} :
           results'[Current(r)][StatusOf(r)] = results[Current(r)][StatusOf(r)] + m
    BY PublishEffect DEF Without
  <2> QED  BY <2>1, <2>2, <2>3
<1>4. UpTo(log', results', cur[r] - 1)
  BY <1>1, <1>2, UpToStays DEF SkipsNothing
<1>5. UpTo(log', results', cur[r])
  BY <1>1, <1>2, <1>3, <1>4 DEF UpTo, Current
<1>6. UpTo(log, results, pos[r]) => UpTo(log', results', pos[r])
  BY <1>2, UpToStays
<1> QED  BY <1>1, <1>5, <1>6 DEF SkipsNothing

\* If every result can be published, then whatever crashes and whoever takes
\* the partition over, the committed offset never passes a notification that
\* has no result.
THEOREM NothingUnanswered == Spec => []CommittedHasResultIfProduced
<1>1. Init => NothingSkipped
  BY DEF Init, NothingSkipped, SkipsNothing, UpTo
<1>2. TypeOK /\ NothingSkipped /\ [Next]_vars => NothingSkipped'
  <2> SUFFICES ASSUME TypeOK, [Next]_vars, Without({"produce_lost"})',
                      UpTo(log, results, committed), \A r \in Replica : SkipsNothing(r)
               PROVE  UpTo(log', results', committed') /\ \A r \in Replica : SkipsNothing(r)'
    BY FaultsStep DEF NothingSkipped, Without, TypeOK
  <2> DEFINE Goal == UpTo(log', results', committed') /\ \A r \in Replica : SkipsNothing(r)'
  <2>1. UpTo(log', results', committed)
    BY UpToStays DEF TypeOK
  <2>2. ASSUME UNCHANGED <<pc, cur, pos, owner, committed>> PROVE Goal
    BY <2>1, <2>2, UntouchedSkipsNothing
  <2>3. ASSUME NEW r \in Replica, SkipsNothing(r)', UpTo(log', results', committed'),
               \A q \in Replica \ {r} : /\ pc'[q] = pc[q] /\ cur'[q] = cur[q]
                                        /\ pos'[q] = pos[q]
                                        /\ owner' = q => owner = q
        PROVE  Goal
    BY <2>3, UntouchedSkipsNothing
  <2>4. ASSUME NEW m \in Note \cup {Malformed}, Publish(m) PROVE Goal
    BY <2>2, <2>4 DEF Publish, loopVars
  <2>5. ASSUME NEW n \in Note, Request(n) PROVE Goal
    BY <2>2, <2>5 DEF Request, loopVars, kafkaVars
  <2>6. ASSUME NEW r \in Replica, Rebalance(r) PROVE Goal
    <3>1. /\ pc' = pc /\ cur' = cur /\ log' = log /\ results' = results
          /\ committed' = committed /\ owner' = r /\ pos'[r] = committed
          /\ \A q \in Replica \ {r} : pos'[q] = pos[q] /\ owner' # q
      BY <2>6 DEF Rebalance, loopVars, TypeOK
    <3>2. SkipsNothing(r)'
      BY <3>1 DEF SkipsNothing
    <3> QED  BY <2>1, <2>3, <3>1, <3>2
  <2>7. ASSUME NEW r \in Replica, Crash(r) PROVE Goal
    <3>1. /\ pc'[r] = "fetch" /\ owner' # r /\ committed' = committed /\ pos' = pos
          /\ \A q \in Replica \ {r} : /\ pc'[q] = pc[q] /\ cur'[q] = cur[q]
                                      /\ owner' = q => owner = q
      BY <2>7, ConstantsAssumption DEF Crash, GoTo, TypeOK
    <3>2. SkipsNothing(r)'
      BY <3>1 DEF SkipsNothing
    <3> QED  BY <2>1, <2>3, <3>1, <3>2
  <2>8. ASSUME NEW r \in Replica, Fetch(r) PROVE Goal
    <3>1. /\ owner' = owner /\ committed' = committed
          /\ \A q \in Replica \ {r} : pc'[q] = pc[q] /\ cur'[q] = cur[q] /\ pos'[q] = pos[q]
      BY <2>8 DEF Fetch, GoTo, TypeOK
    <3> QED  BY <2>1, <2>3, <2>8, <3>1, FetchSkipsNothing
  <2>9. ASSUME NEW r \in Replica, SendNotification(r) PROVE Goal
    <3>1. /\ owner' = owner /\ committed' = committed /\ cur' = cur /\ pos' = pos
          /\ pc[r] = "send" /\ pc'[r] = "publish"
          /\ \A q \in Replica \ {r} : pc'[q] = pc[q]
      BY <2>9 DEF SendNotification, GoTo, kafkaVars, TypeOK
    <3> QED  BY <2>1, <2>3, <3>1, UntouchedSkipsNothing
  <2>10. ASSUME NEW r \in Replica, PublishResult(r) PROVE Goal
    <3>1. /\ cur' = cur /\ pos' = pos /\ owner' = owner /\ committed' = committed
          /\ \A q \in Replica \ {r} : pc'[q] = pc[q]
      BY <2>10 DEF PublishResult, GoTo, kafkaVars, TypeOK
    <3> QED  BY <2>1, <2>3, <2>10, <3>1, PublishSkipsNothing
  <2>11. ASSUME NEW r \in Replica, Commit(r) PROVE Goal
    <3>1. /\ pc[r] = "commit" /\ pc'[r] = "fetch" /\ cur[r] \in 0 .. Len(log)
          /\ pos' = pos /\ owner' = owner /\ log' = log /\ results' = results
          /\ committed' = committed \/ committed' = cur[r]
          /\ \A q \in Replica \ {r} : pc'[q] = pc[q] /\ cur'[q] = cur[q]
      BY <2>11 DEF Commit, GoTo, TypeOK
    <3>2. UpTo(log', results', committed')
      BY <2>1, <3>1 DEF SkipsNothing
    <3>3. SkipsNothing(r)'
      BY <3>1 DEF SkipsNothing
    <3> QED  BY <2>3, <3>1, <3>2, <3>3
  <2>12. CASE UNCHANGED vars
    BY <2>2, <2>12 DEF vars, kafkaVars, loopVars
  <2> QED  BY <2>4, <2>5, <2>6, <2>7, <2>8, <2>9, <2>10, <2>11, <2>12 DEF Next, Loop
<1>3. NothingSkipped => CommittedHasResultIfProduced
  BY DEF NothingSkipped, CommittedHasResultIfProduced, UpTo
<1> QED  BY <1>1, <1>2, <1>3, TypeCorrect, PTL DEF Spec

-----------------------------------------------------------------------------
\* Nothing is sent twice unless it is delivered again.

\* No notification is in the outbox twice.
LogOnce == \A i, j \in 1 .. Len(log) : log[i] = log[j] /\ log[i] \in Note => i = j

\* Only the owner of the partition works, on the message it read last.
OneAtWork == \A r \in Replica : pc[r] # "fetch" => owner = r /\ cur[r] = pos[r]

\* How far the owner is past the calls that busy names.
Finished(busy) == IF pc[owner] \in busy THEN pos[owner] - 1 ELSE pos[owner]

Behind(n, busy) == owner # NoOwner /\ \E i \in 1 .. Finished(busy) : log[i] = n

HasResult(n) == \E s \in Statuses : results[n][s] > 0

DoneOnce(n) ==
    /\ tried[n] <= 1
    /\ tried[n] > 0 => Behind(n, {"send"})
    /\ HasResult(n) => Behind(n, {"send", "publish"})
    /\ results[n]["SENT"] = 0 \/ results[n]["FAILED"] = 0

\* What SentOnceUnlessRedelivered needs: what was sent, or has a result, is
\* behind the one replica at work, which meets no message a second time.
NothingTwice ==
    Without(Redelivering) => LogOnce /\ OneAtWork /\ \A n \in Note : DoneOnce(n)

\* What is behind the owner stays there while it does not go back.
LEMMA BehindStays ==
    ASSUME TypeOK, [Next]_vars, NEW n \in Note, NEW busy, Behind(n, busy),
           owner' = owner, Finished(busy)' >= Finished(busy)
    PROVE  Behind(n, busy)'
<1>1. owner \in Replica /\ Finished(busy) \in Int /\ Finished(busy) <= Len(log)
  BY DEF Behind, TypeOK, Finished
<1>2. PICK i \in 1 .. Finished(busy) : log[i] = n
  BY DEF Behind
<1>3. Finished(busy)' \in Int
  <2>1. TypeOK'
    BY TypeStep
  <2> QED  BY <1>1, <2>1 DEF TypeOK, Finished
<1>4. i \in 1 .. Len(log) /\ i \in 1 .. Finished(busy)'
  BY <1>1, <1>2, <1>3 DEF TypeOK
<1>5. log'[i] = n
  BY <1>2, <1>4, LogGrows
<1> QED  BY <1>1, <1>4, <1>5, ConstantsAssumption DEF Behind

\* A step that neither sends nor publishes, and does not take the owner back,
\* leaves what was done once done once.
LEMMA DoneOnceStays ==
    ASSUME TypeOK, [Next]_vars, NEW n \in Note, DoneOnce(n), owner' = owner,
           \/ tried'[n] = tried[n] /\ Finished({"send"})' >= Finished({"send"})
           \/ tried'[n] = 1 /\ Behind(n, {"send"})',
           \/ /\ UNCHANGED results
              /\ Finished({"send", "publish"})' >= Finished({"send", "publish"})
           \/ /\ results'[n]["SENT"] = 0 \/ results'[n]["FAILED"] = 0
              /\ Behind(n, {"send", "publish"})'
    PROVE  DoneOnce(n)'
<1>1. tried'[n] <= 1 /\ (tried'[n] > 0 => Behind(n, {"send"})')
  BY BehindStays DEF DoneOnce
<1>2. /\ results'[n]["SENT"] = 0 \/ results'[n]["FAILED"] = 0
      /\ HasResult(n)' => Behind(n, {"send", "publish"})'
  BY BehindStays DEF DoneOnce, HasResult
<1> QED  BY <1>1, <1>2 DEF DoneOnce

\* Whatever the calls of Redis and Kafka do, no notification is sent twice, or
\* reported both sent and failed, unless its message came again.
THEOREM NothingSentTwice == Spec => []SentOnceUnlessRedelivered
<1>1. Init => NothingTwice
  BY DEF Init, NothingTwice, LogOnce, OneAtWork, DoneOnce, HasResult, Statuses
<1>2. TypeOK /\ NothingTwice /\ [Next]_vars => NothingTwice'
  <2> SUFFICES ASSUME TypeOK, [Next]_vars, Without(Redelivering)',
                      LogOnce, OneAtWork, \A n \in Note : DoneOnce(n)
               PROVE  LogOnce' /\ OneAtWork' /\ \A n \in Note : DoneOnce(n)'
    BY FaultsStep DEF NothingTwice, Without, TypeOK
  <2> DEFINE Goal == LogOnce' /\ OneAtWork' /\ \A n \in Note : DoneOnce(n)'
  <2>1. \A k \in Redelivering : ~Fault(k)
    BY FaultIsNoted DEF Without
  <2>2. ASSUME UNCHANGED <<pc, cur, pos, owner, tried, results>>, LogOnce' PROVE Goal
    <3>1. OneAtWork'
      BY <2>2 DEF OneAtWork
    <3>2. \A busy : Finished(busy)' = Finished(busy)
      BY <2>2 DEF Finished
    <3>3. ASSUME NEW n \in Note PROVE DoneOnce(n)'
      <4>1. \A busy : Behind(n, busy) => Finished(busy) \in Int
        BY DEF Behind, Finished, TypeOK
      <4>2. \A busy : Behind(n, busy) => Finished(busy)' >= Finished(busy)
        BY <3>2, <4>1
      <4>3. \A busy : Behind(n, busy) => Behind(n, busy)'
        BY <2>2, <4>2, BehindStays
      <4> QED  BY <2>2, <4>3 DEF DoneOnce, HasResult
    <3> QED  BY <2>2, <3>1, <3>3
  <2>3. ASSUME NEW m \in Note \cup {Malformed}, Publish(m) PROVE Goal
    <3>1. /\ log' = Append(log, m) /\ Len(log') = Len(log) + 1
          /\ \A i \in 1 .. Len(log) : log'[i] = log[i]
          /\ log'[Len(log) + 1] = m
      BY <2>3 DEF Publish, TypeOK
    <3>2. m = Malformed \/ \A i \in 1 .. Len(log) : log[i] # m
      BY <2>1, <2>3 DEF Publish, Redelivering
    <3>3. LogOnce'
      BY <3>1, <3>2, ConstantsAssumption DEF LogOnce, TypeOK
    <3> QED  BY <2>2, <2>3, <3>3 DEF Publish, loopVars, sendVars
  <2>4. ASSUME NEW n \in Note, Request(n) PROVE Goal
    BY <2>2, <2>4 DEF Request, loopVars, kafkaVars, sendVars, LogOnce
  <2>5. ASSUME NEW r \in Replica, Rebalance(r) PROVE Goal
    <3>1. owner = NoOwner /\ UNCHANGED <<log, pc, cur, tried, results>>
      BY <2>1, <2>5 DEF Rebalance, Redelivering, loopVars, sendVars
    <3>2. LogOnce'
      BY <3>1 DEF LogOnce
    <3>3. OneAtWork'
      BY <3>1, ConstantsAssumption DEF OneAtWork
    <3>4. \A n \in Note : DoneOnce(n)'
      BY <3>1 DEF DoneOnce, HasResult, Behind
    <3> QED  BY <3>2, <3>3, <3>4
  <2>6. ASSUME NEW r \in Replica, Crash(r) PROVE Goal
    BY <2>1, <2>6 DEF Crash, Redelivering
  <2>7. ASSUME NEW r \in Replica, Fetch(r) PROVE Goal
    <3>1. /\ owner = r /\ owner' = r /\ log' = log /\ pc[r] = "fetch"
          /\ pos'[r] = pos[r] + 1 /\ cur'[r] = pos[r] + 1 /\ pos[r] \in Nat
          /\ pc'[r] \in {"commit", "send"}
          /\ \A q \in Replica \ {r} : pc'[q] = pc[q] /\ cur'[q] = cur[q] /\ pos'[q] = pos[q]
          /\ UNCHANGED <<tried, results>>
      BY <2>7 DEF Fetch, GoTo, TypeOK, sendVars
    <3>2. LogOnce' /\ OneAtWork'
      BY <3>1 DEF LogOnce, OneAtWork
    <3>3. \A busy \in {{"send"}, {"send", "publish"}} : Finished(busy)' >= Finished(busy)
      BY <3>1 DEF Finished
    <3>4. \A n \in Note : DoneOnce(n)'
      BY <3>1, <3>3, DoneOnceStays
    <3> QED  BY <3>2, <3>4
  <2>8. ASSUME NEW r \in Replica, SendNotification(r) PROVE Goal
    <3>1. /\ owner = r /\ cur[r] = pos[r] /\ pc[r] = "send" /\ pc'[r] = "publish"
          /\ UNCHANGED <<log, pos, cur, owner, results>>
          /\ \A q \in Replica \ {r} : pc'[q] = pc[q]
          /\ pos[r] \in 1 .. Len(log) /\ log[pos[r]] \in Note
      BY <2>8 DEF SendNotification, GoTo, TypeOK, kafkaVars, OneAtWork
    <3>2. LogOnce' /\ OneAtWork'
      BY <3>1 DEF LogOnce, OneAtWork
    <3>3. /\ Finished({"send"}) = pos[r] - 1 /\ Finished({"send"})' = pos[r]
          /\ Finished({"send", "publish"})' = Finished({"send", "publish"})
          /\ Finished({"send", "publish"}) = pos[r] - 1
      BY <3>1 DEF Finished
    <3>4. ~Behind(log[pos[r]], {"send"}) /\ Behind(log[pos[r]], {"send"})'
      BY <3>1, <3>3, ConstantsAssumption DEF Behind, LogOnce
    <3>5. tried[log[pos[r]]] = 0
      BY <3>1, <3>4 DEF DoneOnce, TypeOK
    <3>6. \A n \in Note : tried'[n] = IF n = log[pos[r]] THEN 1 ELSE tried[n]
      BY <2>8, <3>1, <3>5 DEF SendNotification, Current, TypeOK
    <3>7. Finished({"send"})' >= Finished({"send"})
          /\ Finished({"send", "publish"})' >= Finished({"send", "publish"})
      BY <3>1, <3>3
    <3>8. \A n \in Note : DoneOnce(n)'
      BY <3>1, <3>4, <3>6, <3>7, DoneOnceStays
    <3> QED  BY <3>2, <3>8
  <2>9. ASSUME NEW r \in Replica, PublishResult(r) PROVE Goal
    <3>1. /\ owner = r /\ cur[r] = pos[r] /\ pc[r] = "publish" /\ pc'[r] = "commit"
          /\ UNCHANGED <<log, pos, cur, owner, tried>>
          /\ \A q \in Replica \ {r} : pc'[q] = pc[q]
          /\ pos[r] \in 1 .. Len(log) /\ log[pos[r]] \in Note
      BY <2>9 DEF PublishResult, GoTo, TypeOK, kafkaVars, sendVars, OneAtWork
    <3>2. LogOnce' /\ OneAtWork'
      BY <3>1 DEF LogOnce, OneAtWork
    <3>3. /\ Finished({"send"}) = pos[r] /\ Finished({"send"})' = pos[r]
          /\ Finished({"send", "publish"}) = pos[r] - 1
          /\ Finished({"send", "publish"})' = pos[r]
      BY <3>1 DEF Finished
    <3>4. ~Behind(log[pos[r]], {"send", "publish"}) /\ Behind(log[pos[r]], {"send", "publish"})'
      BY <3>1, <3>3, ConstantsAssumption DEF Behind, LogOnce
    <3>5. /\ StatusOf(r) \in Statuses
          /\ \A n \in Note, d \in Statuses :
                results'[n][d] = results[n][d] \/ (n = log[pos[r]] /\ d = StatusOf(r))
      BY <2>9, <3>1, PublishEffect DEF Current
    <3>6. \A d \in Statuses : results[log[pos[r]]][d] = 0
      BY <3>1, <3>4 DEF DoneOnce, HasResult, TypeOK
    <3>7. results'[log[pos[r]]]["SENT"] = 0 \/ results'[log[pos[r]]]["FAILED"] = 0
      BY <3>1, <3>5, <3>6 DEF Statuses
    <3>8. Finished({"send"})' >= Finished({"send"})
          /\ Finished({"send", "publish"})' >= Finished({"send", "publish"})
      BY <3>1, <3>3
    <3>9. ASSUME NEW n \in Note PROVE DoneOnce(n)'
      <4>1. CASE n = log[pos[r]]
        BY <3>1, <3>4, <3>7, <3>8, <4>1, DoneOnceStays
      <4>2. CASE n # log[pos[r]]
        <5>1. \A d \in Statuses : results'[n][d] = results[n][d]
          BY <3>5, <4>2
        <5>2. \A busy \in {{"send"}, {"send", "publish"}} : Behind(n, busy) => Behind(n, busy)'
          BY <3>1, <3>8, BehindStays
        <5>3. HasResult(n)' = HasResult(n) /\ tried'[n] = tried[n]
          BY <3>1, <5>1 DEF HasResult
        <5> QED  BY <5>1, <5>2, <5>3 DEF DoneOnce, Statuses
      <4> QED  BY <4>1, <4>2
    <3> QED  BY <3>2, <3>9
  <2>10. ASSUME NEW r \in Replica, Commit(r) PROVE Goal
    <3>1. /\ owner = r /\ pc[r] = "commit" /\ pc'[r] = "fetch" /\ pos[r] \in Nat
          /\ UNCHANGED <<log, pos, owner, tried, results>>
          /\ \A q \in Replica \ {r} : pc'[q] = pc[q] /\ cur'[q] = cur[q]
      BY <2>10 DEF Commit, GoTo, TypeOK, sendVars, OneAtWork
    <3>2. LogOnce' /\ OneAtWork'
      BY <3>1 DEF LogOnce, OneAtWork
    <3>3. \A busy \in {{"send"}, {"send", "publish"}} : Finished(busy)' >= Finished(busy)
      BY <3>1 DEF Finished
    <3>4. \A n \in Note : DoneOnce(n)'
      BY <3>1, <3>3, DoneOnceStays
    <3> QED  BY <3>2, <3>4
  <2>11. CASE UNCHANGED vars
    BY <2>2, <2>11 DEF vars, kafkaVars, loopVars, sendVars, LogOnce
  <2> QED
    BY <2>3, <2>4, <2>5, <2>6, <2>7, <2>8, <2>9, <2>10, <2>11 DEF Next, Loop
<1>3. NothingTwice => SentOnceUnlessRedelivered
  BY DEF NothingTwice, DoneOnce, SentOnceUnlessRedelivered
<1> QED  BY <1>1, <1>2, <1>3, TypeCorrect, PTL DEF Spec
=============================================================================
