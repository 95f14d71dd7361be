---------------------------- MODULE LedgerProofs ----------------------------
(***************************************************************************)
(* Theorems about the ledger processor, for any number of replicas and     *)
(* transactions, any batch and channel size, and any faults: the type of   *)
(* the state, that the books balance, that no committed offset passes a    *)
(* transaction without its rows, and that Ledger implements LedgerPromise. *)
(***************************************************************************)
EXTENDS Ledger, SequenceTheorems, TLAPS

-----------------------------------------------------------------------------
\* Type correctness.

\* The record of faults keeps its type, and only grows.
LEMMA FaultsStep ==
    ASSUME FaultsOK, [Next]_vars
    PROVE  FaultsOK' /\ happened \subseteq happened'
<1>1. ASSUME NEW k, Fault(k) PROVE FaultsOK' /\ happened \subseteq happened'
  BY <1>1 DEF Fault, FaultsOK
<1>2. CASE UNCHANGED faultVars
  BY <1>2 DEF faultVars, FaultsOK
<1>3. UNCHANGED faultVars \/ \E k : Fault(k)
  BY DEF Next, MainLoop, Publish, Rebalance, Crash, Cancel, Fetch, Timer, Receive,
         Exit, Write, Commit, vars, NoFault
<1> QED  BY <1>1, <1>2, <1>3

\* Messages stay where they were appended.
LEMMA LogGrows ==
    ASSUME TypeOK, [Next]_vars
    PROVE  /\ log' \in Seq(Tx \cup {Malformed})
           /\ Len(log) \in Nat /\ Len(log') \in Nat /\ Len(log') >= Len(log)
           /\ \A i \in 1 .. Len(log) : log'[i] = log[i]
<1> log \in Seq(Tx \cup {Malformed})
  BY DEF TypeOK, TopicTypeOK
<1>1. ASSUME NEW m \in Tx \cup {Malformed}, log' = Append(log, m)
      PROVE  /\ log' \in Seq(Tx \cup {Malformed})
             /\ Len(log') = Len(log) + 1
             /\ \A i \in 1 .. Len(log) : log'[i] = log[i]
  BY <1>1, AppendProperties
<1>2. Len(log) \in Nat
  BY LenProperties
<1>3. log' = log \/ \E m \in Tx \cup {Malformed} : log' = Append(log, m)
  BY DEF Next, MainLoop, Publish, Rebalance, Crash, Cancel, Restart, Fetch, Timer,
         Receive, Exit, Write, Commit, vars, kafkaVars
<1> QED  BY <1>1, <1>2, <1>3

\* A replica whose batch is left alone keeps BatchOK.
LEMMA BatchFrame ==
    ASSUME TypeOK, [Next]_vars, NEW q \in Replica,
           batch'[q] = batch[q], pc'[q] = pc[q], next'[q] = next[q]
    PROVE  BatchOK(q)'
<1>1. batch[q] \in Seq(1 .. Len(log)) /\ BatchOK(q)
  BY DEF TypeOK, MemoryTypeOK
<1>2. \A i \in 1 .. Len(batch[q]) : batch[q][i] \in 1 .. Len(log)
  BY <1>1, ElementOfSeq
<1>3. \A i \in 1 .. Len(batch[q]) : log'[batch[q][i]] = log[batch[q][i]]
  BY <1>2, LogGrows
<1> QED  BY <1>1, <1>3 DEF BatchOK

\* The transaction that Write is about.
LEMMA WriteIsAboutTx ==
    ASSUME TypeOK, NEW r \in Replica, pc[r] = "write"
    PROVE  /\ Len(batch[r]) \in Nat
           /\ next[r] \in 1 .. Len(batch[r])
           /\ batch[r][next[r]] \in 1 .. Len(log)
           /\ log[batch[r][next[r]]] \in Tx
<1>1. batch[r] \in Seq(1 .. Len(log)) /\ next[r] \in Nat \ {0} /\ BatchOK(r)
  BY DEF TypeOK, MemoryTypeOK
<1>2. Len(batch[r]) \in Nat
  BY <1>1, LenProperties
<1>3. next[r] \in 1 .. Len(batch[r])
  BY <1>1, <1>2 DEF BatchOK
<1>4. batch[r][next[r]] \in 1 .. Len(log)
  BY <1>1, <1>3, ElementOfSeq
<1> QED  BY <1>1, <1>2, <1>3, <1>4 DEF BatchOK

\* The insert writes both rows of a transaction that had none, or nothing.
LEMMA InsertEffect ==
    ASSUME TypeOK, NEW t \in Tx, InsertBoth(t) \/ InsertNone
    PROVE  \/ debit' = debit /\ credit' = credit
           \/ /\ debit[t] = 0 /\ credit[t] = 0
              /\ debit' = [debit EXCEPT ![t] = 1]
              /\ credit' = [credit EXCEPT ![t] = 1]
  BY DEF InsertBoth, InsertNone, Insertable, TypeOK, RowTypeOK

\* What a flush of b leaves in r's memory.
LEMMA FlushEffect ==
    ASSUME TypeOK, NEW r \in Replica, NEW b \in Seq(1 .. Len(log)), Flush(r, b),
           Len(b) <= FlushSize, \A i \in 1 .. Len(b) : log[b[i]] \in Tx,
           log' = log
    PROVE  /\ batch' \in [Replica -> Seq(1 .. Len(log))]
           /\ pc' \in [Replica -> {"select", "write", "commit"}]
           /\ next' \in [Replica -> Nat \ {0}]
           /\ done' \in [Replica -> SUBSET (1 .. Len(log))]
           /\ \A q \in Replica \ {r} :
                 batch'[q] = batch[q] /\ pc'[q] = pc[q] /\ next'[q] = next[q]
           /\ BatchOK(r)'
<1>1. /\ batch' \in [Replica -> Seq(1 .. Len(log))]
      /\ pc' \in [Replica -> {"select", "write", "commit"}]
      /\ next' \in [Replica -> Nat \ {0}]
      /\ done' \in [Replica -> SUBSET (1 .. Len(log))]
      /\ \A q \in Replica \ {r} :
            batch'[q] = batch[q] /\ pc'[q] = pc[q] /\ next'[q] = next[q]
  BY DEF Flush, TypeOK, MemoryTypeOK
<1>2. /\ batch'[r] = b /\ next'[r] = 1
      /\ pc'[r] = IF b = <<>> THEN "select" ELSE "write"
  BY DEF Flush, TypeOK, MemoryTypeOK
<1>3. Len(b) \in Nat /\ (b # <<>> => Len(b) >= 1) /\ (b = <<>> => Len(b) = 0)
  BY LenProperties, EmptySeq
<1>4. BatchOK(r)'
  BY <1>2, <1>3, ConstantsAssumption DEF BatchOK
<1> QED  BY <1>1, <1>4

\* What processBatch leaves in r's memory after a write.
LEMMA PassEffect ==
    ASSUME TypeOK, NEW r \in Replica, pc[r] = "write", NEW ok \in BOOLEAN,
           Pass(r, ok), log' = log
    PROVE  /\ batch' \in [Replica -> Seq(1 .. Len(log))]
           /\ pc' \in [Replica -> {"select", "write", "commit"}]
           /\ next' \in [Replica -> Nat \ {0}]
           /\ done' \in [Replica -> SUBSET (1 .. Len(log))]
           /\ \A q \in Replica \ {r} :
                 batch'[q] = batch[q] /\ pc'[q] = pc[q] /\ next'[q] = next[q]
           /\ BatchOK(r)'
<1> DEFINE n == Len(batch[r])
<1>1. /\ n \in Nat /\ next[r] \in 1 .. n /\ batch[r][next[r]] \in 1 .. Len(log)
  BY WriteIsAboutTx
<1>2. /\ next' \in [Replica -> Nat \ {0}]
      /\ next'[r] = IF next[r] = n THEN 1 ELSE next[r] + 1
  BY <1>1 DEF Pass, TypeOK, MemoryTypeOK
<1>3. done' \in [Replica -> SUBSET (1 .. Len(log))]
  BY <1>1 DEF Pass, TypeOK, MemoryTypeOK
<1>4. /\ pc' \in [Replica -> {"select", "write", "commit"}]
      /\ \/ next[r] # n /\ pc'[r] = "write"
         \/ next[r] = n /\ pc'[r] \in {"select", "commit"}
  BY DEF Pass, TypeOK, MemoryTypeOK
<1>5. /\ batch' \in [Replica -> Seq(1 .. Len(log))]
      /\ \/ batch'[r] = batch[r] /\ pc'[r] # "select"
         \/ batch'[r] = <<>> /\ pc'[r] = "select"
  <2>1. <<>> \in Seq(1 .. Len(log))
    BY EmptySeq
  <2> QED  BY <2>1 DEF Pass, TypeOK, MemoryTypeOK
<1>6. \A q \in Replica \ {r} :
         batch'[q] = batch[q] /\ pc'[q] = pc[q] /\ next'[q] = next[q]
  BY DEF Pass, TypeOK, MemoryTypeOK
<1>7. BatchOK(r)'
  <2>1. BatchOK(r)
    BY DEF TypeOK
  <2>2. CASE batch'[r] = batch[r] /\ pc'[r] # "select"
    BY <1>1, <1>2, <1>4, <2>1, <2>2 DEF BatchOK
  <2>3. CASE batch'[r] = <<>> /\ pc'[r] = "select"
    <3>1. Len(batch'[r]) = 0
      BY <2>3, EmptySeq
    <3> QED  BY <2>3, <3>1, ConstantsAssumption DEF BatchOK
  <2> QED  BY <1>5, <2>2, <2>3
<1> QED  BY <1>2, <1>3, <1>4, <1>5, <1>6, <1>7

\* Every step keeps TypeOK.
LEMMA TypeStep == TypeOK /\ [Next]_vars => TypeOK'
<1> SUFFICES ASSUME TypeOK, [Next]_vars, FaultsOK' PROVE TypeOK'
  BY FaultsStep DEF TypeOK
<1>1. ASSUME NEW m \in Tx \cup {Malformed}, Publish(m) PROVE TypeOK'
  <2>2. /\ UNCHANGED <<committed, owner, pos, msgCh, batch, pc, next, done, stopping>>
        /\ UNCHANGED <<debit, credit>>
    BY <1>1 DEF Publish, loopVars
  <2>3. 1 .. Len(log) \subseteq 1 .. Len(log') /\ 0 .. Len(log) \subseteq 0 .. Len(log')
    BY LogGrows
  <2>4. TopicTypeOK'
    BY <2>2, <2>3, LogGrows DEF TypeOK, TopicTypeOK
  <2>5. \A s \in Seq(1 .. Len(log)) : s \in Seq(1 .. Len(log'))
    BY <2>3, SeqMonotonic
  <2>6. MemoryTypeOK'
    <3>1. /\ msgCh \in [Replica -> Seq(1 .. Len(log'))]
          /\ batch \in [Replica -> Seq(1 .. Len(log'))]
      BY <2>5 DEF TypeOK, MemoryTypeOK
    <3>2. done \in [Replica -> SUBSET (1 .. Len(log'))]
      BY <2>3 DEF TypeOK, MemoryTypeOK
    <3> QED  BY <2>2, <3>1, <3>2 DEF TypeOK, MemoryTypeOK
  <2>7. \A q \in Replica : ChannelOK(q)' /\ BatchOK(q)'
    BY <2>2, BatchFrame DEF TypeOK, ChannelOK
  <2> QED  BY <2>2, <2>4, <2>6, <2>7 DEF TypeOK, RowTypeOK
<1>2. ASSUME NEW r \in Replica, Rebalance(r) PROVE TypeOK'
  <2>2. UNCHANGED <<log, committed, msgCh, batch, pc, next, done, stopping, debit, credit>>
    BY <1>2 DEF Rebalance, loopVars
  <2>3. \A q \in Replica : ChannelOK(q)' /\ BatchOK(q)'
    BY <2>2, BatchFrame DEF TypeOK, ChannelOK
  <2>4. TopicTypeOK'
    BY <1>2, <2>2 DEF Rebalance, TypeOK, TopicTypeOK
  <2> QED  BY <2>2, <2>3, <2>4 DEF TypeOK, RowTypeOK, MemoryTypeOK
<1>3. ASSUME NEW r \in Replica, Restart(r) PROVE TypeOK'
  <2>1. <<>> \in Seq(1 .. Len(log)) /\ Len(<<>>) = 0
    BY EmptySeq
  <2>2. MemoryTypeOK'
    BY <1>3, <2>1 DEF Restart, TypeOK, MemoryTypeOK
  <2>3. TopicTypeOK'
    BY <1>3 DEF Restart, TypeOK, TopicTypeOK
  <2>4. \A q \in Replica : ChannelOK(q)'
    BY <1>3, <2>1, ConstantsAssumption DEF Restart, TypeOK, MemoryTypeOK, ChannelOK
  <2>5. BatchOK(r)'
    <3>1. batch'[r] = <<>> /\ pc'[r] = "select"
      BY <1>3 DEF Restart, TypeOK, MemoryTypeOK
    <3> QED  BY <2>1, <3>1, ConstantsAssumption DEF BatchOK
  <2>6. ASSUME NEW q \in Replica \ {r} PROVE BatchOK(q)'
    <3>1. batch'[q] = batch[q] /\ pc'[q] = pc[q] /\ next'[q] = next[q]
      BY <1>3 DEF Restart, TypeOK, MemoryTypeOK
    <3> QED  BY <3>1, BatchFrame
  <2> QED  BY <1>3, <2>2, <2>3, <2>4, <2>5, <2>6 DEF Restart, TypeOK, RowTypeOK
<1>4. ASSUME NEW r \in Replica, Cancel(r) PROVE TypeOK'
  <2>2. /\ UNCHANGED <<log, committed, owner, pos, msgCh, batch, pc, next, done>>
        /\ UNCHANGED <<debit, credit>>
    BY <1>4 DEF Cancel, kafkaVars, loopVars
  <2>3. \A q \in Replica : ChannelOK(q)' /\ BatchOK(q)'
    BY <2>2, BatchFrame DEF TypeOK, ChannelOK
  <2>4. MemoryTypeOK'
    BY <1>4, <2>2 DEF Cancel, TypeOK, MemoryTypeOK
  <2> QED  BY <2>2, <2>3, <2>4 DEF TypeOK, RowTypeOK, TopicTypeOK
<1>5. ASSUME NEW r \in Replica, Fetch(r) PROVE TypeOK'
  <2>1. UNCHANGED <<log, committed, owner, batch, pc, next, done, stopping, debit, credit>>
    BY <1>5 DEF Fetch, kafkaVars, loopVars
  <2>2. Len(log) \in Nat /\ pos[r] \in 0 .. Len(log) /\ msgCh[r] \in Seq(1 .. Len(log))
    BY LogGrows DEF TypeOK, TopicTypeOK, MemoryTypeOK
  <2>3. pos[r] + 1 \in 1 .. Len(log)
    BY <1>5, <2>2 DEF Fetch
  <2> DEFINE c == Append(msgCh[r], pos[r] + 1)
  <2>4. c \in Seq(1 .. Len(log)) /\ Len(c) = Len(msgCh[r]) + 1 /\ Len(msgCh[r]) \in Nat
    BY <2>2, <2>3, AppendProperties, LenProperties
  <2>5. msgCh' = [msgCh EXCEPT ![r] = c] /\ pos' = [pos EXCEPT ![r] = pos[r] + 1]
    BY <1>5 DEF Fetch
  <2>6. TopicTypeOK'
    BY <2>1, <2>3, <2>5 DEF TypeOK, TopicTypeOK
  <2>7. MemoryTypeOK'
    BY <2>1, <2>4, <2>5 DEF TypeOK, MemoryTypeOK
  <2>8. \A q \in Replica : ChannelOK(q)'
    <3>1. Len(c) <= ChanCap
      BY <1>5, <2>4, ConstantsAssumption DEF Fetch
    <3>2. \A q \in Replica : msgCh'[q] = IF q = r THEN c ELSE msgCh[q]
      BY <2>5 DEF TypeOK, MemoryTypeOK
    <3> HIDE DEF c
    <3> QED  BY <3>1, <3>2 DEF TypeOK, ChannelOK
  <2>9. \A q \in Replica : BatchOK(q)'
    BY <2>1, BatchFrame
  <2> QED  BY <2>1, <2>6, <2>7, <2>8, <2>9 DEF TypeOK, RowTypeOK
<1>6. ASSUME NEW r \in Replica, Timer(r) PROVE TypeOK'
  <2>1. /\ UNCHANGED <<log, committed, owner, pos, msgCh, stopping, debit, credit>>
        /\ Flush(r, batch[r])
    BY <1>6 DEF Timer, kafkaVars
  <2>2. batch[r] \in Seq(1 .. Len(log)) /\ BatchOK(r)
    BY DEF TypeOK, MemoryTypeOK
  <2>3. MemoryTypeOK' /\ BatchOK(r)'
    BY <2>1, <2>2, FlushEffect DEF BatchOK, TypeOK, MemoryTypeOK
  <2>4. ASSUME NEW q \in Replica \ {r} PROVE BatchOK(q)'
    BY <2>1, <2>2, FlushEffect, BatchFrame DEF BatchOK
  <2> QED  BY <2>1, <2>3, <2>4 DEF TypeOK, TopicTypeOK, RowTypeOK, ChannelOK
<1>7. ASSUME NEW r \in Replica, Receive(r) PROVE TypeOK'
  <2> DEFINE o == Head(msgCh[r])
             b == Append(batch[r], o)
  <2>1. UNCHANGED <<log, owner, pos, stopping, debit, credit>> /\ pc[r] = "select"
    BY <1>7 DEF Receive
  <2>2. /\ msgCh[r] \in Seq(1 .. Len(log)) /\ batch[r] \in Seq(1 .. Len(log))
        /\ Len(msgCh[r]) \in Nat /\ Len(msgCh[r]) <= ChanCap
        /\ BatchOK(r)
    BY LenProperties DEF TypeOK, MemoryTypeOK, ChannelOK
  <2>3. /\ o \in 1 .. Len(log) /\ Tail(msgCh[r]) \in Seq(1 .. Len(log))
        /\ Len(Tail(msgCh[r])) = Len(msgCh[r]) - 1
    BY <1>7, <2>2, HeadTailProperties DEF Receive
  <2>4. /\ msgCh' \in [Replica -> Seq(1 .. Len(log))]
        /\ \A q \in Replica : ChannelOK(q)'
    <3>1. msgCh' = [msgCh EXCEPT ![r] = Tail(msgCh[r])]
      BY <1>7 DEF Receive
    <3>2. Len(Tail(msgCh[r])) <= ChanCap
      BY <2>2, <2>3, ConstantsAssumption
    <3>3. \A q \in Replica : msgCh'[q] = IF q = r THEN Tail(msgCh[r]) ELSE msgCh[q]
      BY <3>1 DEF TypeOK, MemoryTypeOK
    <3> QED  BY <2>3, <3>1, <3>2, <3>3 DEF TypeOK, MemoryTypeOK, ChannelOK
  <2>6. CASE log[o] = Malformed
    <3>1. UNCHANGED <<batch, pc, next, done>> /\ (committed' = o \/ committed' = committed)
      BY <1>7, <2>6 DEF Receive, loopVars
    <3>2. \A q \in Replica : BatchOK(q)'
      BY <3>1, BatchFrame
    <3>3. TopicTypeOK'
      <4>1. o \in 0 .. Len(log)
        BY <2>3
      <4> HIDE DEF o
      <4> QED  BY <2>1, <3>1, <4>1 DEF TypeOK, TopicTypeOK
    <3> QED  BY <2>1, <2>4, <3>1, <3>2, <3>3 DEF TypeOK, RowTypeOK, MemoryTypeOK
  <2>7. CASE log[o] # Malformed
    <3>1. log[o] \in Tx
      <4>1. log[o] \in Tx \cup {Malformed}
        BY <2>3, ElementOfSeq DEF TypeOK, TopicTypeOK
      <4> QED  BY <2>7, <4>1
    <3>2. /\ b \in Seq(1 .. Len(log)) /\ Len(b) = Len(batch[r]) + 1
          /\ \A i \in 1 .. Len(batch[r]) : b[i] = batch[r][i]
          /\ b[Len(batch[r]) + 1] = o
          /\ Len(batch[r]) \in Nat
      BY <2>2, <2>3, AppendProperties, LenProperties
    <3>3. Len(b) <= FlushSize /\ \A i \in 1 .. Len(b) : log[b[i]] \in Tx
      <4> DEFINE n == Len(batch[r])
      <4>1. n \in Nat /\ Len(b) = n + 1
        BY <3>2
      <4>2. n < FlushSize /\ \A i \in 1 .. n : log[batch[r][i]] \in Tx
        BY <2>1, <2>2 DEF BatchOK
      <4>3. \A i \in 1 .. n : log[b[i]] \in Tx
        BY <3>2, <4>2
      <4>4. log[b[n + 1]] \in Tx
        BY <3>1, <3>2
      <4> HIDE DEF b, n
      <4>5. \A i \in 1 .. Len(b) : i \in 1 .. n \/ i = n + 1
        BY <4>1
      <4> QED  BY <4>1, <4>2, <4>3, <4>4, <4>5, ConstantsAssumption
    <3>4. /\ committed' = committed
          /\ \/ Flush(r, b)
             \/ /\ Len(b) < FlushSize /\ batch' = [batch EXCEPT ![r] = b]
                /\ UNCHANGED <<pc, next, done>>
      <4> HIDE DEF b
      <4>1. Len(b) \in Nat
        BY <3>2
      <4> QED  BY <1>7, <2>7, <4>1, ConstantsAssumption DEF Receive, Full, b
    <3> HIDE DEF b
    <3>5. /\ MemoryTypeOK' /\ BatchOK(r)'
          /\ \A q \in Replica \ {r} :
                batch'[q] = batch[q] /\ pc'[q] = pc[q] /\ next'[q] = next[q]
      <4>1. CASE Flush(r, b)
        BY <2>1, <2>4, <3>2, <3>3, <4>1, FlushEffect DEF TypeOK, MemoryTypeOK
      <4>2. CASE /\ Len(b) < FlushSize /\ batch' = [batch EXCEPT ![r] = b]
                 /\ UNCHANGED <<pc, next, done>>
        <5>1. MemoryTypeOK'
          BY <2>1, <2>4, <3>2, <4>2 DEF TypeOK, MemoryTypeOK
        <5>2. batch'[r] = b /\ pc'[r] = "select"
          BY <2>1, <4>2 DEF TypeOK, MemoryTypeOK
        <5>3. BatchOK(r)'
          BY <2>1, <3>3, <4>2, <5>2 DEF BatchOK
        <5> QED  BY <4>2, <5>1, <5>3 DEF TypeOK, MemoryTypeOK
      <4> QED  BY <3>4, <4>1, <4>2
    <3>6. \A q \in Replica \ {r} : BatchOK(q)'
      BY <3>5, BatchFrame
    <3>7. TopicTypeOK'
      BY <2>1, <3>4 DEF TypeOK, TopicTypeOK
    <3> QED  BY <2>1, <2>4, <3>5, <3>6, <3>7 DEF TypeOK, RowTypeOK
  <2> QED  BY <2>6, <2>7
<1>8. ASSUME NEW r \in Replica, Write(r) PROVE TypeOK'
  <2> DEFINE t == log[batch[r][next[r]]]
  <2>1. /\ UNCHANGED <<log, committed, owner, pos, msgCh, stopping>> /\ pc[r] = "write"
        /\ InsertBoth(t) \/ InsertNone
        /\ \E ok \in BOOLEAN : Pass(r, ok)
    BY <1>8 DEF Write, kafkaVars, FirstInsertSucceeds
  <2>2. t \in Tx
    BY <2>1, WriteIsAboutTx
  <2>4. RowTypeOK'
    BY <2>1, <2>2, InsertEffect DEF TypeOK, RowTypeOK
  <2>5. MemoryTypeOK' /\ BatchOK(r)'
    BY <2>1, PassEffect DEF TypeOK, MemoryTypeOK
  <2>6. \A q \in Replica \ {r} : BatchOK(q)'
    BY <2>1, PassEffect, BatchFrame
  <2> QED  BY <2>1, <2>4, <2>5, <2>6 DEF TypeOK, TopicTypeOK, ChannelOK
<1>9. ASSUME NEW r \in Replica, Commit(r) PROVE TypeOK'
  <2>1. /\ UNCHANGED <<log, owner, pos, msgCh, stopping, debit, credit>>
        /\ Flush(r, <<>>)
        /\ committed' \in done[r] \/ committed' = committed
    BY <1>9 DEF Commit
  <2>2. /\ <<>> \in Seq(1 .. Len(log)) /\ Len(<<>>) <= FlushSize
        /\ \A i \in 1 .. Len(<<>>) : log[(<<>>)[i]] \in Tx
    BY EmptySeq, ConstantsAssumption
  <2> DEFINE b == <<>>
  <2> HIDE DEF b
  <2>3. /\ b \in Seq(1 .. Len(log)) /\ Len(b) <= FlushSize /\ Flush(r, b)
        /\ \A i \in 1 .. Len(b) : log[b[i]] \in Tx
    BY <2>1, <2>2 DEF b
  <2>4. /\ MemoryTypeOK' /\ BatchOK(r)'
        /\ \A q \in Replica \ {r} : BatchOK(q)'
    BY <2>1, <2>3, FlushEffect, BatchFrame DEF TypeOK, MemoryTypeOK
  <2>5. TopicTypeOK'
    BY <2>1 DEF TypeOK, TopicTypeOK, MemoryTypeOK
  <2> QED  BY <2>1, <2>4, <2>5 DEF TypeOK, RowTypeOK, ChannelOK
<1>10. CASE UNCHANGED vars
  <2>1. \A q \in Replica : BatchOK(q)'
    BY <1>10, BatchFrame DEF vars, loopVars
  <2> QED  BY <1>10, <2>1
      DEF vars, kafkaVars, loopVars, TypeOK, TopicTypeOK, MemoryTypeOK, RowTypeOK, ChannelOK
<1>11. ASSUME NEW r \in Replica, Crash(r) \/ Exit(r) PROVE Restart(r)
  BY <1>11 DEF Crash, Exit
<1> QED
  BY <1>1, <1>2, <1>3, <1>4, <1>5, <1>6, <1>7, <1>8, <1>9, <1>10, <1>11
  DEF Next, MainLoop

\* The state always has its type: channel and batch keep their bounds and
\* hold offsets of the log, and only transactions are written.
THEOREM TypeCorrect == Spec => []TypeOK
<1>1. Init => TypeOK
  <2> SUFFICES ASSUME Init PROVE TypeOK
    OBVIOUS
  <2>1. /\ <<>> \in Seq(Tx \cup {Malformed}) /\ Len(<<>>) = 0
    BY EmptySeq
  <2>2. <<>> \in Seq(1 .. Len(log))
    BY EmptySeq
  <2>3. TopicTypeOK /\ MemoryTypeOK /\ RowTypeOK /\ FaultsOK
    BY <2>1, <2>2 DEF Init, TopicTypeOK, MemoryTypeOK, RowTypeOK, FaultsOK
  <2>4. ASSUME NEW r \in Replica PROVE ChannelOK(r) /\ BatchOK(r)
    <3>1. batch[r] = <<>> /\ msgCh[r] = <<>> /\ pc[r] = "select"
      BY DEF Init
    <3> QED  BY <2>1, <3>1, ConstantsAssumption DEF ChannelOK, BatchOK
  <2> QED  BY <2>3, <2>4 DEF TypeOK
<1> QED  BY <1>1, TypeStep, PTL DEF Spec

-----------------------------------------------------------------------------
\* Double entry, and the promise it is part of.

\* Only Write touches the rows, and then it posts a settled transaction.
LEMMA RowsChangeByPosting ==
    ASSUME TypeOK, [Next]_vars
    PROVE  \/ UNCHANGED <<debit, credit>>
           \/ \E t \in Tx : /\ t \in Settled /\ UNCHANGED log
                           /\ debit[t] = 0 /\ credit[t] = 0
                           /\ debit' = [debit EXCEPT ![t] = 1]
                           /\ credit' = [credit EXCEPT ![t] = 1]
<1>1. ASSUME NEW r \in Replica, Write(r)
      PROVE  \/ UNCHANGED <<debit, credit>>
             \/ \E t \in Tx : /\ t \in Settled /\ UNCHANGED log
                             /\ debit[t] = 0 /\ credit[t] = 0
                             /\ debit' = [debit EXCEPT ![t] = 1]
                             /\ credit' = [credit EXCEPT ![t] = 1]
  <2> DEFINE i == batch[r][next[r]]
  <2>1. UNCHANGED log /\ pc[r] = "write" /\ (InsertBoth(log[i]) \/ InsertNone)
    BY <1>1 DEF Write, kafkaVars
  <2>2. i \in 1 .. Len(log) /\ log[i] \in Tx
    BY <2>1, WriteIsAboutTx
  <2>3. log[i] \in Settled
    BY <2>2 DEF Settled
  <2> QED  BY <2>1, <2>2, <2>3, InsertEffect
<1>2. UNCHANGED <<debit, credit>> \/ \E r \in Replica : Write(r)
  BY DEF Next, MainLoop, Publish, Rebalance, Crash, Cancel, Restart, Fetch, Timer,
         Receive, Exit, Commit, vars
<1> QED  BY <1>1, <1>2

\* A transaction has its debit row exactly when it has its credit row, and
\* never more than one of each: processBatch, under any redelivery and any
\* error of the database, cannot unbalance the ledger.
THEOREM BooksBalance == Spec => []DoubleEntry
<1>1. Init => DoubleEntry
  BY DEF Init, DoubleEntry
<1>2. TypeOK /\ DoubleEntry /\ [Next]_vars => DoubleEntry'
  <2> SUFFICES ASSUME TypeOK, DoubleEntry, [Next]_vars PROVE DoubleEntry'
    OBVIOUS
  <2>1. CASE UNCHANGED <<debit, credit>>
    BY <2>1 DEF DoubleEntry
  <2>2. ASSUME NEW t \in Tx,
               debit' = [debit EXCEPT ![t] = 1], credit' = [credit EXCEPT ![t] = 1]
        PROVE  DoubleEntry'
    BY <2>2 DEF DoubleEntry, TypeOK, RowTypeOK
  <2> QED  BY <2>1, <2>2, RowsChangeByPosting
<1> QED  BY <1>1, <1>2, TypeCorrect, PTL DEF Spec

\* The ledger implements its promise under every fault: each step settles a
\* transaction, posts one that is settled and unposted, both rows at once, or
\* changes neither the topic nor the rows.
THEOREM LedgerKeepsPromise == Spec => PromiseSpec
<1>1. Init => Promise!Init
  <2> SUFFICES ASSUME Init PROVE Promise!Init
    OBVIOUS
  <2>1. Settled = {}
    BY EmptySeq DEF Init, Settled
  <2> QED  BY <2>1 DEF Init, Promise!Init
<1>2. TypeOK /\ [Next]_vars => [Promise!Next]_<<Settled, debit, credit>>
  <2> SUFFICES ASSUME TypeOK, [Next]_vars
               PROVE  [Promise!Next]_<<Settled, debit, credit>>
    OBVIOUS
  <2>1. ASSUME NEW m \in Tx \cup {Malformed}, Publish(m)
        PROVE  [Promise!Next]_<<Settled, debit, credit>>
    <3>1. UNCHANGED <<debit, credit>> /\ log' = Append(log, m)
      BY <2>1 DEF Publish
    <3>2. /\ Len(log) \in Nat /\ Len(log') = Len(log) + 1
          /\ \A i \in 1 .. Len(log) : log'[i] = log[i]
          /\ log'[Len(log) + 1] = m
      BY <3>1, AppendProperties, LenProperties DEF TypeOK, TopicTypeOK
    <3>3. \A t \in Tx : t \in Settled' <=> t \in Settled \/ t = m
      <4>1. ASSUME NEW t \in Tx, t \in Settled' PROVE t \in Settled \/ t = m
        BY <3>2, <4>1 DEF Settled
      <4>2. ASSUME NEW t \in Tx, t \in Settled \/ t = m PROVE t \in Settled'
        BY <3>2, <4>2 DEF Settled
      <4> QED  BY <4>1, <4>2
    <3>4. Settled \subseteq Tx /\ Settled' \subseteq Tx
      BY DEF Settled
    <3>5. CASE m \in Tx
      <4>1. Settled' = Settled \cup {m}
        BY <3>3, <3>4, <3>5
      <4> QED  BY <3>1, <3>5, <4>1 DEF Promise!Next, Promise!Settle
    <3>6. CASE m \notin Tx
      BY <3>1, <3>3, <3>4, <3>6
    <3> QED  BY <3>5, <3>6
  <2>2. ASSUME UNCHANGED log PROVE [Promise!Next]_<<Settled, debit, credit>>
    <3>1. Settled' = Settled
      BY <2>2 DEF Settled
    <3> QED  BY <3>1, RowsChangeByPosting DEF Promise!Next, Promise!Post
  <2>3. UNCHANGED log \/ \E m \in Tx \cup {Malformed} : Publish(m)
    BY DEF Next, MainLoop, Rebalance, Crash, Cancel, Restart, Fetch, Timer,
           Receive, Exit, Write, Commit, vars, kafkaVars
  <2> QED  BY <2>1, <2>2, <2>3
<1> QED  BY <1>1, <1>2, TypeCorrect, PTL DEF Spec, PromiseSpec, Promise!Spec

-----------------------------------------------------------------------------
\* No offset is committed past a transaction without its entries.

\* The offsets that are no reason to hold a commit back: those of transactions
\* that are posted or that the database refuses.
Accounted ==
    {i \in 1 .. Len(log) : log[i] \in Tx /\ Refused[log[i]] = "no" => Posted(log[i])}

\* What a replica has in memory and has still to write: the rest of its batch,
\* then its channel.
FirstLeft(r) ==
    CASE pc[r] = "select" -> 1
      [] pc[r] = "write"  -> next[r]
      [] pc[r] = "commit" -> Len(batch[r]) + 1

BatchLeft(r) == Len(batch[r]) + 1 - FirstLeft(r)

InMemory(r) == BatchLeft(r) + Len(msgCh[r])

Held(r) ==
    [k \in 1 .. InMemory(r) |->
        IF k <= BatchLeft(r) THEN batch[r][FirstLeft(r) + k - 1] ELSE msgCh[r][k - BatchLeft(r)]]

\* Each of the n offsets of h is preceded by offsets of A, or of h before it.
Ordered(h, n, A) == \A k \in 1 .. n : 1 .. h[k] - 1 \subseteq A \cup {h[j] : j \in 1 .. k - 1}

\* So are the first p offsets of the topic.
Reaches(h, n, A, p) == 1 .. p \subseteq A \cup {h[j] : j \in 1 .. n}

InOrder(r) ==
    /\ Ordered(Held(r), InMemory(r), Accounted)
    /\ owner = r => Reaches(Held(r), InMemory(r), Accounted, pos[r])

\* What CommittedIsPostedIfWritable needs: nothing unaccounted for lies before a
\* committed offset, or one that is about to be committed; and a replica that
\* still writes has in memory, in order, whatever it has read and not written.
NothingSkippedBy(r) ==
    /\ \A o \in done[r] : 1 .. o \subseteq Accounted
    /\ stopping[r] \/ InOrder(r)

NothingSkipped ==
    /\ \A i \in 1 .. Len(log) : log[i] \in Tx
    /\ 1 .. committed \subseteq Accounted
    /\ \A r \in Replica : NothingSkippedBy(r)

\* More that is accounted for does no harm.
LEMMA OrderedGrows ==
    ASSUME NEW h, NEW n, NEW A, NEW B, NEW p, A \subseteq B
    PROVE  /\ Ordered(h, n, A) => Ordered(h, n, B)
           /\ Reaches(h, n, A, p) => Reaches(h, n, B, p)
  BY DEF Ordered, Reaches

\* What only depends on the offsets in memory.
LEMMA OrderedSame ==
    ASSUME NEW h, NEW g, NEW n \in Nat, NEW A, NEW p, \A k \in 1 .. n : g[k] = h[k]
    PROVE  /\ Ordered(h, n, A) => Ordered(g, n, A)
           /\ Reaches(h, n, A, p) => Reaches(g, n, A, p)
<1>1. ASSUME NEW k \in 1 .. n
      PROVE  {g[j] : j \in 1 .. k - 1} = {h[j] : j \in 1 .. k - 1}
  <2>1. \A j \in 1 .. k - 1 : j \in 1 .. n
    OBVIOUS
  <2> QED  BY <2>1
<1>2. {g[j] : j \in 1 .. n} = {h[j] : j \in 1 .. n}
  OBVIOUS
<1> QED  BY <1>1, <1>2 DEF Ordered, Reaches

\* The next offset read joins the end.
LEMMA OrderedAppend ==
    ASSUME NEW h, NEW g, NEW n \in Nat, NEW A, NEW p \in Nat,
           Ordered(h, n, A), Reaches(h, n, A, p),
           \A k \in 1 .. n : g[k] = h[k], g[n + 1] = p + 1
    PROVE  Ordered(g, n + 1, A) /\ Reaches(g, n + 1, A, p + 1)
<1>1. Ordered(g, n, A) /\ Reaches(g, n, A, p)
  BY OrderedSame
<1>2. ASSUME NEW k \in 1 .. n + 1
      PROVE  1 .. g[k] - 1 \subseteq A \cup {g[j] : j \in 1 .. k - 1}
  <2>1. CASE k \in 1 .. n
    BY <1>1, <2>1 DEF Ordered
  <2>2. CASE k = n + 1
    <3>1. g[k] - 1 = p /\ k - 1 = n
      BY <2>2
    <3> QED  BY <1>1, <3>1 DEF Reaches
  <2> QED  BY <2>1, <2>2
<1>3. ASSUME NEW i \in 1 .. p + 1 PROVE i \in A \cup {g[j] : j \in 1 .. n + 1}
  <2>1. CASE i \in 1 .. p
    BY <1>1, <2>1 DEF Reaches
  <2>2. CASE i = p + 1
    BY <2>2
  <2> QED  BY <2>1, <2>2
<1> QED  BY <1>2, <1>3 DEF Ordered, Reaches

\* What has been written leaves the front.
LEMMA OrderedTail ==
    ASSUME NEW h, NEW g, NEW n \in Nat \ {0}, NEW A, NEW p, Ordered(h, n, A), h[1] \in A,
           \A k \in 1 .. n - 1 : g[k] = h[k + 1]
    PROVE  /\ Ordered(g, n - 1, A)
           /\ Reaches(h, n, A, p) => Reaches(g, n - 1, A, p)
<1>1. ASSUME NEW m \in 1 .. n, NEW i \in A \cup {h[j] : j \in 1 .. m}
      PROVE  i \in A \cup {g[j] : j \in 1 .. m - 1}
  <2>1. CASE i \in A
    BY <2>1
  <2>2. ASSUME NEW j \in 1 .. m, i = h[j], i \notin A PROVE i \in {g[l] : l \in 1 .. m - 1}
    <3>1. j - 1 \in 1 .. m - 1 /\ j - 1 \in 1 .. n - 1
      BY <2>2
    <3>2. i = g[j - 1]
      BY <2>2, <3>1
    <3> QED  BY <3>1, <3>2
  <2> QED  BY <2>1, <2>2
<1>2. ASSUME NEW k \in 1 .. n - 1
      PROVE  1 .. g[k] - 1 \subseteq A \cup {g[j] : j \in 1 .. k - 1}
  <2>1. k + 1 \in 1 .. n /\ k \in 1 .. n /\ (k + 1) - 1 = k /\ g[k] = h[k + 1]
    OBVIOUS
  <2>2. 1 .. h[k + 1] - 1 \subseteq A \cup {h[j] : j \in 1 .. k}
    BY <2>1 DEF Ordered
  <2> QED  BY <1>1, <2>1, <2>2
<1>3. n \in 1 .. n
  OBVIOUS
<1> QED  BY <1>1, <1>2, <1>3 DEF Ordered, Reaches

\* What the memory of a replica is made of.
LEMMA MemoryType ==
    ASSUME TypeOK, NEW r \in Replica
    PROVE  /\ Len(batch[r]) \in Nat /\ Len(msgCh[r]) \in Nat
           /\ FirstLeft(r) \in 1 .. Len(batch[r]) + 1
           /\ BatchLeft(r) \in Nat /\ InMemory(r) \in Nat
           /\ \A k \in 1 .. InMemory(r) : Held(r)[k] \in 1 .. Len(log)
<1>1. /\ batch[r] \in Seq(1 .. Len(log)) /\ msgCh[r] \in Seq(1 .. Len(log))
      /\ pc[r] \in {"select", "write", "commit"} /\ next[r] \in Nat \ {0} /\ BatchOK(r)
  BY DEF TypeOK, MemoryTypeOK
<1>2. Len(batch[r]) \in Nat /\ Len(msgCh[r]) \in Nat
  BY <1>1, LenProperties
<1>3. FirstLeft(r) \in 1 .. Len(batch[r]) + 1
  BY <1>1, <1>2 DEF FirstLeft, BatchOK
<1>4. BatchLeft(r) \in Nat /\ InMemory(r) \in Nat
  BY <1>2, <1>3 DEF BatchLeft, InMemory
<1>5. ASSUME NEW k \in 1 .. InMemory(r) PROVE Held(r)[k] \in 1 .. Len(log)
  <2>1. CASE k <= BatchLeft(r)
    <3>1. FirstLeft(r) + k - 1 \in 1 .. Len(batch[r])
      BY <1>2, <1>3, <1>4, <2>1 DEF BatchLeft
    <3> QED  BY <1>1, <2>1, <3>1, ElementOfSeq DEF Held
  <2>2. CASE ~(k <= BatchLeft(r))
    <3>1. k - BatchLeft(r) \in 1 .. Len(msgCh[r])
      BY <1>2, <1>4, <2>2 DEF InMemory
    <3> QED  BY <1>1, <2>2, <3>1, ElementOfSeq DEF Held
  <2> QED  BY <2>1, <2>2
<1> QED  BY <1>2, <1>3, <1>4, <1>5

\* What is accounted for stays so.
LEMMA AccountedGrows ==
    ASSUME TypeOK, [Next]_vars
    PROVE  Accounted \subseteq Accounted'
<1> SUFFICES ASSUME NEW i \in Accounted PROVE i \in Accounted'
  OBVIOUS
<1>1. i \in 1 .. Len(log) /\ i \in 1 .. Len(log') /\ log'[i] = log[i]
  BY LogGrows DEF Accounted
<1>2. \A t \in Tx : Posted(t) => Posted(t)'
  BY RowsChangeByPosting DEF Posted, TypeOK, RowTypeOK
<1> QED  BY <1>1, <1>2 DEF Accounted

\* A replica whose memory a step leaves alone skips nothing.
LEMMA UntouchedSkipsNothing ==
    ASSUME TypeOK, [Next]_vars, NEW q \in Replica, NothingSkippedBy(q),
           batch'[q] = batch[q], pc'[q] = pc[q], next'[q] = next[q], msgCh'[q] = msgCh[q],
           done'[q] = done[q], stopping'[q] = stopping[q],
           owner' = q => \/ owner = q /\ pos'[q] = pos[q]
                         \/ 1 .. pos'[q] \subseteq Accounted
    PROVE  NothingSkippedBy(q)'
<1>1. Accounted \subseteq Accounted'
  BY AccountedGrows
<1>2. FirstLeft(q)' = FirstLeft(q)
  BY DEF FirstLeft
<1>3. BatchLeft(q)' = BatchLeft(q)
  BY <1>2 DEF BatchLeft
<1>4. InMemory(q)' = InMemory(q)
  BY <1>3 DEF InMemory
<1>5. Held(q)' = Held(q)
  BY <1>2, <1>3, <1>4 DEF Held
<1>6. ASSUME InOrder(q) PROVE InOrder(q)'
  <2>1. Ordered(Held(q)', InMemory(q)', Accounted')
    BY <1>1, <1>4, <1>5, <1>6, OrderedGrows DEF InOrder
  <2>2. ASSUME owner' = q PROVE Reaches(Held(q)', InMemory(q)', Accounted', pos'[q])
    <3>1. CASE owner = q /\ pos'[q] = pos[q]
      BY <1>1, <1>4, <1>5, <1>6, <3>1, OrderedGrows DEF InOrder
    <3>2. CASE 1 .. pos'[q] \subseteq Accounted
      BY <1>1, <3>2 DEF Reaches
    <3> QED  BY <2>2, <3>1, <3>2
  <2> QED  BY <2>1, <2>2 DEF InOrder
<1> QED  BY <1>1, <1>6 DEF NothingSkippedBy

\* Nor does one with nothing in memory, whose partition is another's.
LEMMA EmptySkipsNothing ==
    ASSUME NEW r \in Replica, Restart(r), TypeOK
    PROVE  NothingSkippedBy(r)'
<1>1. /\ batch'[r] = <<>> /\ msgCh'[r] = <<>> /\ pc'[r] = "select" /\ done'[r] = {}
      /\ owner' # r
  BY ConstantsAssumption DEF Restart, TypeOK, TopicTypeOK, MemoryTypeOK
<1>2. InMemory(r)' = 0
  BY <1>1, EmptySeq DEF InMemory, BatchLeft, FirstLeft
<1>3. InOrder(r)'
  BY <1>1, <1>2 DEF InOrder, Ordered
<1> QED  BY <1>1, <1>3 DEF NothingSkippedBy

\* A step that leaves r's memory, as a whole, as it is.
LEMMA SameMemorySkipsNothing ==
    ASSUME TypeOK, [Next]_vars, NEW r \in Replica, NothingSkippedBy(r),
           InMemory(r)' = InMemory(r),
           \A k \in 1 .. InMemory(r) : Held(r)'[k] = Held(r)[k],
           owner' = owner, pos'[r] = pos[r], stopping' = stopping,
           done'[r] \subseteq done[r]
    PROVE  NothingSkippedBy(r)'
<1>1. Accounted \subseteq Accounted'
  BY AccountedGrows
<1>2. InMemory(r) \in Nat
  BY MemoryType
<1>3. ASSUME InOrder(r) PROVE InOrder(r)'
  <2>1. /\ Ordered(Held(r)', InMemory(r)', Accounted)
        /\ owner = r => Reaches(Held(r)', InMemory(r)', Accounted, pos[r])
    BY <1>2, <1>3, OrderedSame DEF InOrder
  <2> QED  BY <1>1, <2>1, OrderedGrows DEF InOrder
<1> QED  BY <1>1, <1>3 DEF NothingSkippedBy

\* FetchMessage and the send to msgCh.
LEMMA FetchSkipsNothing ==
    ASSUME TypeOK, [Next]_vars, NEW r \in Replica, NothingSkippedBy(r), Fetch(r)
    PROVE  NothingSkippedBy(r)'
<1>1. /\ owner = r /\ owner' = r /\ pos'[r] = pos[r] + 1 /\ pos[r] \in Nat
      /\ msgCh'[r] = Append(msgCh[r], pos[r] + 1)
      /\ UNCHANGED <<batch, pc, next, done, stopping>>
  BY DEF Fetch, kafkaVars, loopVars, TypeOK, TopicTypeOK, MemoryTypeOK
<1>2. /\ Len(msgCh'[r]) = Len(msgCh[r]) + 1
      /\ \A k \in 1 .. Len(msgCh[r]) : msgCh'[r][k] = msgCh[r][k]
      /\ msgCh'[r][Len(msgCh[r]) + 1] = pos[r] + 1
  BY <1>1, AppendProperties DEF TypeOK, MemoryTypeOK
<1>3. FirstLeft(r)' = FirstLeft(r) /\ BatchLeft(r)' = BatchLeft(r)
  BY <1>1 DEF BatchLeft, FirstLeft
<1>4. /\ InMemory(r) \in Nat /\ InMemory(r)' = InMemory(r) + 1
      /\ BatchLeft(r) \in Nat /\ Len(msgCh[r]) \in Nat
      /\ InMemory(r) = BatchLeft(r) + Len(msgCh[r])
  BY <1>2, <1>3, MemoryType DEF InMemory
<1>5. \A k \in 1 .. InMemory(r) : Held(r)'[k] = Held(r)[k]
  BY <1>1, <1>2, <1>3, <1>4 DEF Held
<1>6. Held(r)'[InMemory(r) + 1] = pos[r] + 1
  BY <1>1, <1>2, <1>3, <1>4 DEF Held
<1>7. ASSUME InOrder(r) PROVE InOrder(r)'
  <2>1. Ordered(Held(r)', InMemory(r) + 1, Accounted)
        /\ Reaches(Held(r)', InMemory(r) + 1, Accounted, pos[r] + 1)
    BY <1>1, <1>4, <1>5, <1>6, <1>7, OrderedAppend DEF InOrder
  <2> QED  BY <1>1, <1>4, <2>1, OrderedGrows, AccountedGrows DEF InOrder
<1> QED  BY <1>1, <1>7, AccountedGrows DEF NothingSkippedBy

\* The timer, and a message that joins the batch, leave the memory as it is.
LEMMA SelectSkipsNothing ==
    ASSUME TypeOK, [Next]_vars, NEW r \in Replica, NothingSkippedBy(r),
           Timer(r) \/ (Receive(r) /\ log[Head(msgCh[r])] # Malformed)
    PROVE  NothingSkippedBy(r)'
<1>1. /\ batch[r] \in Seq(1 .. Len(log)) /\ msgCh[r] \in Seq(1 .. Len(log))
      /\ Len(batch[r]) \in Nat /\ Len(msgCh[r]) \in Nat
  BY MemoryType DEF TypeOK, MemoryTypeOK
<1>2. /\ pc[r] = "select" /\ UNCHANGED <<owner, pos, stopping>>
  BY DEF Timer, Receive, kafkaVars
<1>3. FirstLeft(r) = 1 /\ BatchLeft(r) = Len(batch[r])
  BY <1>1, <1>2 DEF FirstLeft, BatchLeft
<1>4. CASE Timer(r)
  <2>1. /\ batch'[r] = batch[r] /\ msgCh' = msgCh /\ next'[r] = 1 /\ done'[r] = {}
        /\ pc'[r] \in {"select", "write"}
    BY <1>4 DEF Timer, Flush, TypeOK, MemoryTypeOK
  <2>2. FirstLeft(r)' = 1
    BY <2>1 DEF FirstLeft
  <2>3. BatchLeft(r)' = BatchLeft(r)
    BY <1>3, <2>1, <2>2 DEF BatchLeft
  <2>4. InMemory(r)' = InMemory(r) /\ Held(r)' = Held(r)
    BY <1>3, <2>1, <2>2, <2>3 DEF InMemory, Held
  <2> QED  BY <1>2, <2>1, <2>4, SameMemorySkipsNothing
<1>5. CASE Receive(r) /\ log[Head(msgCh[r])] # Malformed
  <2> DEFINE o == Head(msgCh[r])
             b == Append(batch[r], o)
  <2>1. msgCh[r] # <<>> /\ msgCh'[r] = Tail(msgCh[r])
    BY <1>5 DEF Receive, TypeOK, MemoryTypeOK
  <2>2. /\ o \in 1 .. Len(log) /\ o = msgCh[r][1] /\ Len(msgCh[r]) >= 1
        /\ Len(msgCh'[r]) = Len(msgCh[r]) - 1
        /\ \A k \in 1 .. Len(msgCh[r]) - 1 : msgCh'[r][k] = msgCh[r][k + 1]
    <3>1. /\ o \in 1 .. Len(log) /\ Len(Tail(msgCh[r])) = Len(msgCh[r]) - 1
          /\ \A k \in 1 .. Len(Tail(msgCh[r])) : Tail(msgCh[r])[k] = msgCh[r][k + 1]
      BY <1>1, <2>1, HeadTailProperties
    <3>2. o = msgCh[r][1] /\ Len(msgCh[r]) # 0
      BY <1>1, <2>1, EmptySeq
    <3> QED  BY <1>1, <2>1, <3>1, <3>2
  <2>3. /\ Len(b) = Len(batch[r]) + 1
        /\ \A k \in 1 .. Len(batch[r]) : b[k] = batch[r][k]
        /\ b[Len(batch[r]) + 1] = o
    BY <1>1, <2>2, AppendProperties
  <2>4. /\ batch'[r] = b
        /\ \/ pc'[r] = "select" /\ done'[r] = {}
           \/ pc'[r] = "select" /\ done' = done
           \/ pc'[r] = "write" /\ next'[r] = 1 /\ done'[r] = {}
    <3> HIDE DEF b
    <3> USE <1>5 DEF TypeOK, MemoryTypeOK
    <3>1. \/ Flush(r, b)
          \/ batch' = [batch EXCEPT ![r] = b] /\ UNCHANGED <<pc, next, done>>
      BY DEF Receive, b
    <3> QED  BY <1>2, <3>1 DEF Flush
  <2>5. FirstLeft(r)' = 1
    BY <2>4 DEF FirstLeft
  <2>6. BatchLeft(r)' = BatchLeft(r) + 1
    BY <1>1, <1>3, <2>3, <2>4, <2>5 DEF BatchLeft
  <2>7. InMemory(r)' = InMemory(r)
    <3>1. /\ InMemory(r) = BatchLeft(r) + Len(msgCh[r])
          /\ InMemory(r)' = BatchLeft(r)' + Len(msgCh'[r])
      BY DEF InMemory
    <3>2. Len(msgCh'[r]) = Len(msgCh[r]) - 1 /\ BatchLeft(r) \in Nat
      BY <2>2, MemoryType
    <3> QED  BY <1>1, <2>6, <3>1, <3>2
  <2>8. ASSUME NEW k \in 1 .. InMemory(r) PROVE Held(r)'[k] = Held(r)[k]
    <3>1. /\ Held(r)[k] = IF k <= Len(batch[r]) THEN batch[r][k] ELSE msgCh[r][k - Len(batch[r])]
          /\ Held(r)'[k] = IF k <= Len(batch[r]) + 1 THEN b[k]
                           ELSE msgCh'[r][k - (Len(batch[r]) + 1)]
      <4> HIDE DEF b, o
      <4>1. \A m \in Nat : 1 + m - 1 = m
        OBVIOUS
      <4>2. BatchLeft(r)' = Len(batch[r]) + 1 /\ k \in Nat /\ k \in 1 .. InMemory(r)'
        BY <1>3, <2>6, <2>7
      <4> QED  BY <1>3, <2>4, <2>5, <4>1, <4>2 DEF Held
    <3> DEFINE n == Len(batch[r])
               c == Len(msgCh[r])
    <3>2. InMemory(r) = n + c
      BY <1>3 DEF InMemory
    <3>3. CASE k <= Len(batch[r])
      BY <1>1, <2>3, <3>1, <3>3
    <3>4. CASE k = Len(batch[r]) + 1
      BY <1>1, <2>2, <2>3, <3>1, <3>4
    <3>5. CASE k > n + 1
      <4>1. n \in Nat /\ c \in Nat
        BY <1>1
      <4>2. msgCh'[r][k - (n + 1)] = msgCh[r][k - (n + 1) + 1] \/ k - (n + 1) \notin 1 .. c - 1
        BY <2>2
      <4> HIDE DEF n, c
      <4>3. k \in Nat /\ k <= n + c
        BY <3>2, <4>1
      <4>4. k - (n + 1) \in 1 .. c - 1
        BY <3>5, <4>1, <4>3
      <4>5. k - (n + 1) + 1 = k - n /\ ~(k <= n) /\ ~(k <= n + 1)
        BY <3>5, <4>1, <4>3
      <4>6. msgCh'[r][k - (n + 1)] = msgCh[r][k - n]
        BY <4>2, <4>4, <4>5
      <4> QED  BY <3>1, <4>5, <4>6 DEF n
    <3>6. k <= Len(batch[r]) \/ k = Len(batch[r]) + 1 \/ k > n + 1
      <4>1. n \in Nat /\ k \in Int
        BY <1>1
      <4> QED  BY <4>1
    <3> QED  BY <3>3, <3>4, <3>5, <3>6
  <2>9. done'[r] \subseteq done[r]
    BY <2>4
  <2> QED  BY <1>2, <2>7, <2>8, <2>9, SameMemorySkipsNothing
<1> QED  BY <1>4, <1>5

\* processBatch passes over a transaction of a replica that is not stopping: it
\* leaves the memory at the front.
LEMMA PassShortens ==
    ASSUME TypeOK, NEW r \in Replica, pc[r] = "write", NEW ok, Pass(r, ok), msgCh' = msgCh
    PROVE  /\ InMemory(r) \in Nat \ {0} /\ InMemory(r)' = InMemory(r) - 1
           /\ Held(r)[1] = batch[r][next[r]]
           /\ \A k \in 1 .. InMemory(r) - 1 : Held(r)'[k] = Held(r)[k + 1]
<1> DEFINE n == Len(batch[r])
           f == next[r]
<1>1. n \in Nat /\ f \in 1 .. n /\ Len(msgCh[r]) \in Nat
  BY WriteIsAboutTx, MemoryType
<1>2. FirstLeft(r) = f /\ BatchLeft(r) = n + 1 - f /\ InMemory(r) = n + 1 - f + Len(msgCh[r])
  BY DEF FirstLeft, BatchLeft, InMemory
<1>3. \/ f # n /\ batch'[r] = batch[r] /\ pc'[r] = "write" /\ next'[r] = f + 1
      \/ f = n /\ batch'[r] = batch[r] /\ pc'[r] = "commit"
      \/ f = n /\ batch'[r] = <<>> /\ pc'[r] = "select"
  BY DEF Pass, TypeOK, MemoryTypeOK
<1>4. BatchLeft(r)' = n - f
  <2>1. CASE f # n /\ batch'[r] = batch[r] /\ pc'[r] = "write" /\ next'[r] = f + 1
    BY <1>1, <2>1 DEF BatchLeft, FirstLeft
  <2>3. CASE f = n /\ batch'[r] = batch[r] /\ pc'[r] = "commit"
    BY <1>1, <2>3 DEF BatchLeft, FirstLeft
  <2>2. CASE f = n /\ batch'[r] = <<>> /\ pc'[r] = "select"
    <3>1. Len(batch'[r]) = 0
      BY <2>2, EmptySeq
    <3> QED  BY <1>1, <2>2, <3>1 DEF BatchLeft, FirstLeft
  <2> QED  BY <1>3, <2>1, <2>2, <2>3
<1>5. n - f > 0 => batch'[r] = batch[r] /\ FirstLeft(r)' = f + 1
  BY <1>1, <1>3 DEF FirstLeft
<1>6. InMemory(r)' = n - f + Len(msgCh[r])
  BY <1>4 DEF InMemory
<1>7. ASSUME NEW k \in 1 .. InMemory(r) - 1 PROVE Held(r)'[k] = Held(r)[k + 1]
  <2>1. k \in 1 .. InMemory(r)' /\ k + 1 \in 1 .. InMemory(r)
    BY <1>1, <1>2, <1>6
  <2>2. Held(r)'[k] = IF k <= n - f THEN batch'[r][FirstLeft(r)' + k - 1] ELSE msgCh[r][k - (n - f)]
    BY <1>4, <2>1 DEF Held
  <2>3. Held(r)[k + 1] = IF k + 1 <= n + 1 - f THEN batch[r][f + (k + 1) - 1]
                         ELSE msgCh[r][(k + 1) - (n + 1 - f)]
    BY <1>2, <2>1 DEF Held
  <2>4. k \in Int /\ n \in Int /\ f \in Int
    BY <1>1, <1>2
  <2> HIDE DEF n, f
  <2>5. CASE k <= n - f
    <3>1. f + 1 + k - 1 = f + (k + 1) - 1 /\ k + 1 <= n + 1 - f /\ n - f > 0
      BY <2>4, <2>5
    <3>2. FirstLeft(r)' + k - 1 = f + (k + 1) - 1
      BY <1>5, <3>1
    <3> QED  BY <1>5, <2>2, <2>3, <2>5, <3>1, <3>2
  <2>6. CASE ~(k <= n - f)
    <3>1. ~(k + 1 <= n + 1 - f) /\ (k + 1) - (n + 1 - f) = k - (n - f)
      BY <2>4, <2>6
    <3> QED  BY <2>2, <2>3, <2>6, <3>1
  <2> QED  BY <2>5, <2>6
<1>8. Held(r)[1] = batch[r][f]
  <2>1. 1 \in 1 .. InMemory(r) /\ 1 <= BatchLeft(r) /\ f + 1 - 1 = f
    BY <1>1, <1>2
  <2> QED  BY <1>2, <2>1 DEF Held
<1>9. /\ InMemory(r) \in Nat \ {0} /\ InMemory(r)' = InMemory(r) - 1
  BY <1>1, <1>2, <1>6
<1> QED  BY <1>7, <1>8, <1>9

\* A write that meets no error of the database leaves the transaction posted or
\* refused.
LEMMA WriteAccounts ==
    ASSUME TypeOK, DoubleEntry, NEW r \in Replica, pc[r] = "write", log' = log,
           InsertBoth(log[batch[r][next[r]]])
    PROVE  batch[r][next[r]] \in Accounted'
<1>0. PICK i, t : i = batch[r][next[r]] /\ t = log[i]
  OBVIOUS
<1>1. t \in Tx /\ i \in 1 .. Len(log)
  BY <1>0, WriteIsAboutTx
<1>2. ASSUME Refused[t] = "no" PROVE Posted(t)'
  <2>1. CASE debit[t] = 0
    <3>1. Insertable(t)
      BY <1>1, <1>2, <2>1 DEF Insertable, DoubleEntry
    <3>2. debit' = [debit EXCEPT ![t] = debit[t] + 1]
          /\ credit' = [credit EXCEPT ![t] = credit[t] + 1]
      BY <1>0, <3>1 DEF InsertBoth
    <3> QED  BY <1>1, <2>1, <3>2 DEF Posted, DoubleEntry, TypeOK, RowTypeOK
  <2>2. CASE debit[t] # 0
    <3>1. debit[t] = 1 /\ credit[t] = 1
      BY <1>1, <2>2 DEF DoubleEntry, TypeOK, RowTypeOK
    <3>2. debit' = debit /\ credit' = credit
      BY <1>0, <2>2 DEF InsertBoth, Insertable
    <3> QED  BY <3>1, <3>2 DEF Posted
  <2> QED  BY <2>1, <2>2
<1> QED  BY <1>0, <1>1, <1>2 DEF Accounted

\* processBatch, one transaction of it.
LEMMA WriteSkipsNothing ==
    ASSUME TypeOK, DoubleEntry, [Next]_vars, NEW r \in Replica, NothingSkippedBy(r),
           Write(r), ~Fault("db_error")
    PROVE  NothingSkippedBy(r)'
<1> DEFINE i == batch[r][next[r]]
<1>1. /\ pc[r] = "write" /\ UNCHANGED <<log, owner, pos, msgCh, stopping>>
      /\ \/ stopping[r] /\ Pass(r, FALSE)
         \/ /\ ~stopping[r] /\ InsertBoth(log[i])
            /\ Pass(r, FirstInsertSucceeds(log[i])) \/ Pass(r, FALSE)
  BY DEF Write, kafkaVars
<1>2. Accounted \subseteq Accounted'
  BY AccountedGrows
<1>3. CASE stopping[r] /\ Pass(r, FALSE)
  <2>1. done'[r] = done[r]
    BY <1>3 DEF Pass, TypeOK, MemoryTypeOK
  <2> QED  BY <1>1, <1>2, <1>3, <2>1 DEF NothingSkippedBy
<1>4. CASE /\ ~stopping[r] /\ InsertBoth(log[i])
           /\ Pass(r, FirstInsertSucceeds(log[i])) \/ Pass(r, FALSE)
  <2>1. i \in Accounted'
    BY <1>1, <1>4, WriteAccounts
  <2>2. /\ InMemory(r) \in Nat \ {0} /\ InMemory(r)' = InMemory(r) - 1
        /\ Held(r)[1] = i
        /\ \A k \in 1 .. InMemory(r) - 1 : Held(r)'[k] = Held(r)[k + 1]
    BY <1>1, <1>4, PassShortens
  <2>3. /\ Ordered(Held(r), InMemory(r), Accounted')
        /\ owner = r => Reaches(Held(r), InMemory(r), Accounted', pos[r])
    BY <1>2, <1>4, OrderedGrows DEF NothingSkippedBy, InOrder
  <2>4. /\ Ordered(Held(r)', InMemory(r)', Accounted')
        /\ owner = r => Reaches(Held(r)', InMemory(r)', Accounted', pos[r])
    BY <2>1, <2>2, <2>3, OrderedTail
  <2>5. 1 .. i \subseteq Accounted'
    <3>1. 1 .. i - 1 \subseteq Accounted'
      <4>1. 1 \in 1 .. InMemory(r) /\ 1 .. 1 - 1 = {}
        BY <2>2
      <4>2. 1 .. Held(r)[1] - 1 \subseteq Accounted' \cup {Held(r)[j] : j \in 1 .. 1 - 1}
        BY <2>3, <4>1 DEF Ordered
      <4> QED  BY <2>2, <4>1, <4>2
    <3>2. i \in Nat
      BY <1>1, WriteIsAboutTx
    <3> QED  BY <2>1, <3>1, <3>2
  <2>6. done'[r] \subseteq done[r] \cup {i}
    BY <1>4 DEF Pass, TypeOK, MemoryTypeOK
  <2>7. \A o \in done'[r] : 1 .. o \subseteq Accounted'
    BY <1>2, <2>5, <2>6 DEF NothingSkippedBy
  <2> QED  BY <1>1, <2>4, <2>7 DEF NothingSkippedBy, InOrder
<1> QED  BY <1>1, <1>3, <1>4

\* CommitMessages: the batch is behind the replica already.
LEMMA CommitSkipsNothing ==
    ASSUME TypeOK, [Next]_vars, NEW r \in Replica, NothingSkippedBy(r), Commit(r)
    PROVE  NothingSkippedBy(r)'
<1>1. /\ pc[r] = "commit" /\ UNCHANGED <<owner, pos, msgCh, stopping>>
      /\ batch'[r] = <<>> /\ pc'[r] = "select" /\ done'[r] = {}
  BY DEF Commit, Flush, TypeOK, MemoryTypeOK
<1>2. BatchLeft(r) = 0 /\ BatchLeft(r)' = 0
  <2>1. Len(batch'[r]) = 0 /\ Len(batch[r]) \in Nat
    BY <1>1, EmptySeq, MemoryType
  <2> QED  BY <1>1, <2>1 DEF BatchLeft, FirstLeft
<1>3. InMemory(r)' = InMemory(r)
  BY <1>1, <1>2 DEF InMemory
<1>4. \A k \in 1 .. InMemory(r) : Held(r)'[k] = Held(r)[k]
  BY <1>1, <1>2, <1>3, MemoryType DEF Held
<1> QED  BY <1>1, <1>3, <1>4, SameMemorySkipsNothing

Writable == {"db_error", "foreign"}
NothingSkippedIfWritable == Without(Writable) => NothingSkipped

\* As long as queries do not fail and every message parses, then whatever
\* crashes, is shut down half-way through a batch, or takes the partition over,
\* the committed offset never passes a transaction that the database accepts and
\* the ledger does not have.
THEOREM NothingUnposted == Spec => []CommittedIsPostedIfWritable
<1>1. Init => NothingSkippedIfWritable
  <2> SUFFICES ASSUME Init PROVE NothingSkipped
    BY DEF NothingSkippedIfWritable
  <2>1. Len(log) = 0 /\ committed = 0
    BY EmptySeq DEF Init
  <2>2. ASSUME NEW r \in Replica PROVE NothingSkippedBy(r)
    <3>1. batch[r] = <<>> /\ msgCh[r] = <<>> /\ pc[r] = "select" /\ done[r] = {} /\ pos[r] = 0
      BY <2>2 DEF Init
    <3>2. InMemory(r) = 0
      BY <3>1, EmptySeq DEF InMemory, BatchLeft, FirstLeft
    <3> QED  BY <3>1, <3>2 DEF NothingSkippedBy, InOrder, Ordered, Reaches
  <2> QED  BY <2>1, <2>2 DEF NothingSkipped
<1>2. TypeOK /\ DoubleEntry /\ NothingSkippedIfWritable /\ [Next]_vars
         => NothingSkippedIfWritable'
  <2> SUFFICES ASSUME TypeOK, DoubleEntry, NothingSkipped, [Next]_vars, Without(Writable)'
               PROVE  NothingSkipped'
    BY FaultsStep DEF NothingSkippedIfWritable, Without, TypeOK
  <2>1. ~Fault("db_error") /\ ~Fault("foreign")
    BY DEF Without, Writable, Fault
  <2>2. Accounted \subseteq Accounted'
    BY AccountedGrows
  <2>3. \A i \in 1 .. Len(log') : log'[i] \in Tx
    <3>1. ASSUME NEW m \in Tx \cup {Malformed}, Publish(m)
          PROVE  \A i \in 1 .. Len(log') : log'[i] \in Tx
      <4>1. m \in Tx /\ log' = Append(log, m)
        BY <2>1, <3>1 DEF Publish
      <4>2. /\ Len(log) \in Nat /\ Len(log') = Len(log) + 1
            /\ \A i \in 1 .. Len(log) : log'[i] = log[i]
            /\ log'[Len(log) + 1] = m
        BY <4>1, AppendProperties, LenProperties DEF TypeOK, TopicTypeOK
      <4>3. \A i \in 1 .. Len(log') : i \in 1 .. Len(log) \/ i = Len(log) + 1
        BY <4>2
      <4> QED  BY <4>1, <4>2, <4>3 DEF NothingSkipped
    <3>2. log' = log \/ \E m \in Tx \cup {Malformed} : Publish(m)
      BY DEF Next, MainLoop, Rebalance, Crash, Cancel, Restart, Fetch, Timer,
             Receive, Exit, Write, Commit, vars, kafkaVars
    <3> QED  BY <3>1, <3>2 DEF NothingSkipped
  <2>4. \A i \in 1 .. Len(log) : log[i] # Malformed
    BY ConstantsAssumption DEF NothingSkipped
  <2> DEFINE Goal == 1 .. committed' \subseteq Accounted' /\ \A q \in Replica : NothingSkippedBy(q)'
  <2>5. ASSUME UNCHANGED <<committed, batch, pc, next, msgCh, done, owner, pos, stopping>>
        PROVE  Goal
    BY <2>2, <2>5, UntouchedSkipsNothing DEF NothingSkipped
  <2>6. ASSUME NEW r \in Replica, NothingSkippedBy(r)', 1 .. committed' \subseteq Accounted',
               \A q \in Replica \ {r} :
                  /\ batch'[q] = batch[q] /\ pc'[q] = pc[q] /\ next'[q] = next[q]
                  /\ msgCh'[q] = msgCh[q] /\ done'[q] = done[q] /\ stopping'[q] = stopping[q]
                  /\ pos'[q] = pos[q] /\ (owner' = q => owner = q)
        PROVE  Goal
    <3>1. \A q \in Replica \ {r} : NothingSkippedBy(q)'
      BY <2>6, UntouchedSkipsNothing DEF NothingSkipped
    <3> QED  BY <2>6, <3>1
  <2>7. committed' = committed => 1 .. committed' \subseteq Accounted'
    BY <2>2 DEF NothingSkipped
  <2>8. ASSUME NEW m \in Tx \cup {Malformed}, Publish(m) PROVE Goal
    BY <2>5, <2>8 DEF Publish, loopVars
  <2>9. ASSUME NEW r \in Replica, Rebalance(r) PROVE Goal
    <3>1. /\ UNCHANGED <<committed, batch, pc, next, msgCh, done, stopping>>
          /\ owner' = r /\ pos'[r] = committed
          /\ \A q \in Replica \ {r} : pos'[q] = pos[q]
      BY <2>9 DEF Rebalance, loopVars, TypeOK, TopicTypeOK
    <3>2. NothingSkippedBy(r)'
      BY <3>1, UntouchedSkipsNothing DEF NothingSkipped
    <3> QED  BY <2>6, <2>7, <3>1, <3>2
  <2>10. ASSUME NEW r \in Replica, Crash(r) \/ Exit(r) PROVE Goal
    <3>1. Restart(r)
      BY <2>10 DEF Crash, Exit
    <3>2. /\ committed' = committed /\ pos' = pos
          /\ \A q \in Replica \ {r} :
                /\ batch'[q] = batch[q] /\ pc'[q] = pc[q] /\ next'[q] = next[q]
                /\ msgCh'[q] = msgCh[q] /\ done'[q] = done[q] /\ stopping'[q] = stopping[q]
                /\ owner' = q => owner = q
      BY <3>1, ConstantsAssumption DEF Restart, TypeOK, MemoryTypeOK
    <3> QED  BY <2>6, <2>7, <3>1, <3>2, EmptySkipsNothing
  <2>11. ASSUME NEW r \in Replica, Cancel(r) PROVE Goal
    <3>1. /\ UNCHANGED <<committed, owner, pos, batch, pc, next, msgCh, done>>
          /\ stopping'[r] /\ \A q \in Replica \ {r} : stopping'[q] = stopping[q]
      BY <2>11 DEF Cancel, kafkaVars, loopVars, TypeOK, MemoryTypeOK
    <3>2. NothingSkippedBy(r)'
      BY <2>2, <3>1 DEF NothingSkipped, NothingSkippedBy
    <3> QED  BY <2>6, <2>7, <3>1, <3>2
  <2>12. ASSUME NEW r \in Replica, Fetch(r) PROVE Goal
    <3>1. /\ UNCHANGED <<committed, owner, batch, pc, next, done, stopping>>
          /\ \A q \in Replica \ {r} : msgCh'[q] = msgCh[q] /\ pos'[q] = pos[q]
      BY <2>12 DEF Fetch, kafkaVars, loopVars, TypeOK, TopicTypeOK, MemoryTypeOK
    <3>2. NothingSkippedBy(r)'
      BY <2>12, FetchSkipsNothing DEF NothingSkipped
    <3> QED  BY <2>6, <2>7, <3>1, <3>2
  <2>13. ASSUME NEW r \in Replica, Timer(r) \/ Receive(r) PROVE Goal
    <3>1. Receive(r) => log[Head(msgCh[r])] # Malformed
      <4>1. msgCh[r] \in Seq(1 .. Len(log))
        BY DEF TypeOK, MemoryTypeOK
      <4>2. Receive(r) => Head(msgCh[r]) \in 1 .. Len(log)
        BY <4>1, HeadTailProperties DEF Receive
      <4> QED  BY <2>4, <4>2
    <3>2. NothingSkippedBy(r)'
      BY <2>13, <3>1, SelectSkipsNothing DEF NothingSkipped
    <3>3. /\ UNCHANGED <<committed, owner, pos, stopping>>
          /\ \A q \in Replica \ {r} :
                /\ batch'[q] = batch[q] /\ pc'[q] = pc[q] /\ next'[q] = next[q]
                /\ msgCh'[q] = msgCh[q] /\ done'[q] = done[q]
      <4>1. CASE Timer(r)
        BY <4>1 DEF Timer, Flush, kafkaVars, TypeOK, MemoryTypeOK
      <4>2. CASE Receive(r)
        <5> DEFINE b == Append(batch[r], Head(msgCh[r]))
        <5>1. /\ UNCHANGED <<committed, owner, pos, stopping>>
              /\ msgCh' = [msgCh EXCEPT ![r] = Tail(msgCh[r])]
              /\ \/ Flush(r, b)
                 \/ batch' = [batch EXCEPT ![r] = b] /\ UNCHANGED <<pc, next, done>>
          BY <3>1, <4>2 DEF Receive
        <5> HIDE DEF b
        <5> QED  BY <5>1 DEF Flush, TypeOK, MemoryTypeOK
      <4> QED  BY <2>13, <4>1, <4>2
    <3> QED  BY <2>6, <2>7, <3>2, <3>3
  <2>14. ASSUME NEW r \in Replica, Write(r) PROVE Goal
    <3>1. /\ UNCHANGED <<committed, owner, pos, msgCh, stopping>>
          /\ \A q \in Replica \ {r} :
                /\ batch'[q] = batch[q] /\ pc'[q] = pc[q] /\ next'[q] = next[q]
                /\ done'[q] = done[q]
      BY <2>14 DEF Write, Pass, kafkaVars, TypeOK, MemoryTypeOK
    <3>2. NothingSkippedBy(r)'
      BY <2>1, <2>14, WriteSkipsNothing DEF NothingSkipped
    <3> QED  BY <2>6, <2>7, <3>1, <3>2
  <2>15. ASSUME NEW r \in Replica, Commit(r) PROVE Goal
    <3>1. /\ UNCHANGED <<owner, pos, msgCh, stopping>>
          /\ committed' \in done[r] \/ committed' = committed
          /\ \A q \in Replica \ {r} :
                /\ batch'[q] = batch[q] /\ pc'[q] = pc[q] /\ next'[q] = next[q]
                /\ done'[q] = done[q]
      BY <2>15 DEF Commit, Flush, TypeOK, MemoryTypeOK
    <3>2. 1 .. committed' \subseteq Accounted'
      BY <2>2, <2>7, <3>1 DEF NothingSkipped, NothingSkippedBy
    <3>3. NothingSkippedBy(r)'
      BY <2>15, CommitSkipsNothing DEF NothingSkipped
    <3> QED  BY <2>6, <3>1, <3>2, <3>3
  <2>16. ASSUME UNCHANGED vars PROVE Goal
    <3>1. UNCHANGED <<committed, batch, pc, next, msgCh, done, owner, pos, stopping>>
      BY <2>16 DEF vars, kafkaVars, loopVars
    <3> QED  BY <2>5, <3>1
  <2>17. Goal
    BY <2>8, <2>9, <2>10, <2>11, <2>12, <2>13, <2>14, <2>15, <2>16 DEF Next, MainLoop
  <2> QED  BY <2>3, <2>17 DEF NothingSkipped
<1>3. TypeOK /\ NothingSkippedIfWritable => CommittedIsPostedIfWritable
  BY DEF NothingSkippedIfWritable, NothingSkipped, Accounted, Writable,
         CommittedIsPostedIfWritable, TypeOK, TopicTypeOK
<1> QED  BY <1>1, <1>2, <1>3, TypeCorrect, BooksBalance, PTL DEF Spec
=============================================================================
