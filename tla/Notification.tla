---------------------------- MODULE Notification ----------------------------
(***************************************************************************)
(* The notification service: cmd/notification-service/main.go.             *)
(*                                                                         *)
(* Replicas of one consumer group read notifications.outbox, send each     *)
(* notification, publish the result on notifications.sent or               *)
(* notifications.failed, and commit the offset whatever became of it.      *)
(* Beside the loop, an HTTP handler takes notifications to be queued; the  *)
(* writer it is given is that of notifications.sent.  One partition of the *)
(* outbox is modelled, as in Authorization.  SIGTERM is not handled: it is *)
(* a crash.                                                                *)
(***************************************************************************)
EXTENDS Integers, Sequences

CONSTANTS
    Note,       \* notifications
    Replica,    \* members of the consumer group (pods)
    Key,        \* Note -> the Redis key of its user and type
    Malformed,  \* a message json.Unmarshal refuses
    NoOwner,    \* the partition is assigned to no replica
    Faults,     \* the kinds of fault the environment may inject
    MaxFaults,  \* bound: faults in one behaviour
    MaxLog      \* bound: messages in the outbox

FaultKinds ==
    {"redis_error", "reply_lost", "produce_lost", "produce_retry", "produce_error",
     "commit_error", "crash", "rebalance", "duplicate", "foreign"}

ASSUME ConstantsAssumption ==
    /\ DOMAIN Key = Note
    /\ Malformed \notin Note
    /\ NoOwner \notin Replica
    /\ Faults \subseteq FaultKinds
    /\ MaxFaults \in Nat /\ MaxLog \in Nat

VARIABLES
    log,        \* notifications.outbox: the partition's messages
    committed,  \* the group's committed offset
    owner,      \* the replica the partition is assigned to
    pos,        \* per replica: the reader's position in memory
    pc,         \* per replica: the next call of the loop
    cur,        \* per replica: index in log of the message in hand
    failing,    \* per replica: sendNotification returned an error
    processed,  \* Redis: the keys notification:processed:... that were set
    tried,      \* history: calls of sendNotification for each notification
    results,    \* notifications.sent and .failed: results of each notification
    accepted,   \* notifications that POST /notifications/send answered with 202
    raw,        \* notifications.sent: those the handler wrote there
    faults,     \* history: number of faults so far
    happened    \* history: their kinds

kafkaVars == <<log, committed, owner, pos>>
loopVars  == <<pc, cur, failing>>
sendVars  == <<processed, tried>>
httpVars  == <<accepted, raw>>
faultVars == <<faults, happened>>
vars == <<kafkaVars, loopVars, sendVars, results, httpVars, faultVars>>

Statuses == {"SENT", "FAILED"}

-----------------------------------------------------------------------------

Init ==
    /\ log = <<>>
    /\ committed = 0
    /\ owner = NoOwner
    /\ pos = [r \in Replica |-> 0]
    /\ pc = [r \in Replica |-> "fetch"]
    /\ cur = [r \in Replica |-> 0]
    /\ failing = [r \in Replica |-> FALSE]
    /\ processed = {}
    /\ tried = [n \in Note |-> 0]
    /\ results = [n \in Note |-> [s \in Statuses |-> 0]]
    /\ accepted = {}
    /\ raw = {}
    /\ faults = 0
    /\ happened = {}

Fault(kind) ==
    /\ kind \in Faults
    /\ faults < MaxFaults
    /\ faults' = faults + 1
    /\ happened' = happened \cup {kind}

NoFault == UNCHANGED faultVars

\* No fault of these kinds has happened so far.
Without(kinds) == happened \cap kinds = {}

GoTo(r, step) == pc' = [pc EXCEPT ![r] = step]

-----------------------------------------------------------------------------
\* What surrounds the process.

\* Another program puts a notification in the outbox, and may do so twice.
Publish(m) ==
    /\ Len(log) < MaxLog
    /\ log' = Append(log, m)
    /\ CASE m = Malformed -> Fault("foreign")
         [] m # Malformed /\ (\E i \in 1 .. Len(log) : log[i] = m) -> Fault("duplicate")
         [] OTHER -> NoFault
    /\ UNCHANGED <<committed, owner, pos, loopVars, sendVars, results, httpVars>>

\* The coordinator assigns the partition to r, which reads on from the
\* committed offset; a message in some replica's hand stays there.
Rebalance(r) ==
    /\ owner' = r
    /\ pos' = [pos EXCEPT ![r] = committed]
    /\ IF owner = NoOwner THEN NoFault ELSE Fault("rebalance")
    /\ UNCHANGED <<log, committed, loopVars, sendVars, results, httpVars>>

\* r is gone and its pod starts again.
Crash(r) ==
    /\ Fault("crash")
    /\ owner' = IF owner = r THEN NoOwner ELSE owner
    /\ GoTo(r, "fetch")
    /\ cur' = [cur EXCEPT ![r] = 0]
    /\ failing' = [failing EXCEPT ![r] = FALSE]
    /\ UNCHANGED <<log, committed, pos, sendVars, results, httpVars>>

-----------------------------------------------------------------------------
\* POST /notifications/send and enqueueNotification.  The answer is "queued" if
\* WriteMessages reports no error, whether or not the message has arrived.
Request(n) ==
    /\ n \notin accepted \cup raw
    /\ \/ raw' = raw \cup {n} /\ accepted' = accepted \cup {n} /\ NoFault
       \/ UNCHANGED raw /\ accepted' = accepted \cup {n} /\ Fault("produce_lost")
       \/ raw' = raw \cup {n} /\ UNCHANGED accepted /\ Fault("produce_error")
    /\ UNCHANGED <<kafkaVars, loopVars, sendVars, results>>

-----------------------------------------------------------------------------
\* processNotifications, one action per call.

\* Mutant: ReadMessage, which commits as it fetches.
FetchCommitting(r) ==
    /\ pc[r] = "fetch"
    /\ owner = r
    /\ pos[r] < Len(log)
    /\ pos' = [pos EXCEPT ![r] = @ + 1]
    /\ cur' = [cur EXCEPT ![r] = pos[r] + 1]
    /\ GoTo(r, IF log[pos[r] + 1] = Malformed THEN "commit" ELSE "send")
    /\ committed' = pos[r] + 1
    /\ UNCHANGED <<log, owner, failing, sendVars, results, httpVars, faultVars>>

\* FetchMessage and json.Unmarshal; a message that does not parse is only
\* committed.
Fetch(r) ==
    /\ pc[r] = "fetch"
    /\ owner = r
    /\ pos[r] < Len(log)
    /\ pos' = [pos EXCEPT ![r] = @ + 1]
    /\ cur' = [cur EXCEPT ![r] = pos[r] + 1]
    /\ GoTo(r, IF log[pos[r] + 1] = Malformed THEN "commit" ELSE "send")
    /\ UNCHANGED <<log, committed, owner, failing, sendVars, results, httpVars, faultVars>>

\* The notification in hand.
Current(r) == log[cur[r]]

Mark(r) == processed' = processed \cup {Key[Current(r)]}

\* Mutant: the error of the Redis call is not returned.
SendUnchecked(r) ==
    /\ pc[r] = "send"
    /\ tried' = [tried EXCEPT ![Current(r)] = @ + 1]
    /\ failing' = [failing EXCEPT ![r] = FALSE]
    /\ \/ Mark(r) /\ NoFault
       \/ UNCHANGED processed /\ Fault("redis_error")
    /\ GoTo(r, "publish")
    /\ UNCHANGED <<kafkaVars, cur, results, httpVars>>

\* sendNotification sets the key, whether or not it is set already.
SendNotification(r) ==
    /\ pc[r] = "send"
    /\ tried' = [tried EXCEPT ![Current(r)] = @ + 1]
    /\ \/ Mark(r) /\ failing' = [failing EXCEPT ![r] = FALSE] /\ NoFault
       \/ UNCHANGED processed /\ failing' = [failing EXCEPT ![r] = TRUE] /\ Fault("redis_error")
       \/ Mark(r) /\ failing' = [failing EXCEPT ![r] = TRUE] /\ Fault("reply_lost")
    /\ GoTo(r, "publish")
    /\ UNCHANGED <<kafkaVars, cur, results, httpVars>>

\* n results of the notification in hand reach the topic of their status.
Result(r, status, n) == results' = [results EXCEPT ![Current(r)][status] = @ + n]

StatusOf(r) == IF failing[r] THEN "FAILED" ELSE "SENT"

\* Mutant: a failed notification is only logged.
PublishSentOnly(r) ==
    /\ pc[r] = "publish"
    /\ IF failing[r] THEN UNCHANGED results ELSE Result(r, "SENT", 1)
    /\ NoFault
    /\ GoTo(r, "commit")
    /\ UNCHANGED <<kafkaVars, cur, failing, sendVars, httpVars>>

\* Mutant: what could not be published is sent again.
PublishOrSendAgain(r) ==
    /\ pc[r] = "publish"
    /\ \/ Result(r, StatusOf(r), 1) /\ GoTo(r, "commit") /\ NoFault
       \/ UNCHANGED results /\ GoTo(r, "send") /\ Fault("produce_lost")
    /\ UNCHANGED <<kafkaVars, cur, failing, sendVars, httpVars>>

\* publishResult.  The message can be lost, with an error or without, and the
\* writer may write it twice; the commit follows.
PublishResult(r) ==
    /\ pc[r] = "publish"
    /\ \/ Result(r, StatusOf(r), 1) /\ NoFault
       \/ Result(r, StatusOf(r), 2) /\ Fault("produce_retry")
       \/ UNCHANGED results /\ Fault("produce_lost")
    /\ GoTo(r, "commit")
    /\ UNCHANGED <<kafkaVars, cur, failing, sendVars, httpVars>>

\* Mutant: one is added to the offset, as CommitMessages does by itself.
CommitOneTooFar(r) ==
    /\ pc[r] = "commit"
    /\ committed' = cur[r] + 1
    /\ NoFault
    /\ GoTo(r, "fetch")
    /\ cur' = [cur EXCEPT ![r] = 0]
    /\ UNCHANGED <<log, owner, pos, failing, sendVars, results, httpVars>>

\* CommitMessages; an error is logged.
Commit(r) ==
    /\ pc[r] = "commit"
    /\ \/ committed' = cur[r] /\ NoFault
       \/ UNCHANGED committed /\ Fault("commit_error")
    /\ GoTo(r, "fetch")
    /\ cur' = [cur EXCEPT ![r] = 0]
    /\ UNCHANGED <<log, owner, pos, failing, sendVars, results, httpVars>>

-----------------------------------------------------------------------------

Loop(r) == Fetch(r) \/ SendNotification(r) \/ PublishResult(r) \/ Commit(r)

Next ==
    \/ \E m \in Note \cup {Malformed} : Publish(m)
    \/ \E n \in Note : Request(n)
    \/ \E r \in Replica : Rebalance(r) \/ Crash(r) \/ Loop(r)

Spec == Init /\ [][Next]_vars

\* The loop runs, and a partition without an owner is assigned.
FairSpec ==
    /\ Spec
    /\ \A r \in Replica : WF_vars(Loop(r))
    /\ WF_vars(owner = NoOwner /\ \E r \in Replica : Rebalance(r))

-----------------------------------------------------------------------------
\* Properties.

FaultsOK == faults \in Nat /\ happened \subseteq Faults

\* The type of the state: offsets stay within the log, and what is being sent
\* is a notification.
TypeOK ==
    /\ log \in Seq(Note \cup {Malformed})
    /\ committed \in 0 .. Len(log)
    /\ owner \in Replica \cup {NoOwner}
    /\ pos \in [Replica -> 0 .. Len(log)]
    /\ pc \in [Replica -> {"fetch", "send", "publish", "commit"}]
    /\ cur \in [Replica -> 0 .. Len(log)]
    /\ failing \in [Replica -> BOOLEAN]
    /\ processed \subseteq {Key[n] : n \in Note}
    /\ tried \in [Note -> Nat]
    /\ results \in [Note -> [Statuses -> Nat]]
    /\ accepted \subseteq Note /\ raw \subseteq Note
    /\ FaultsOK
    /\ \A r \in Replica :
          pc[r] # "fetch" => /\ cur[r] # 0
                             /\ pc[r] \in {"send", "publish"} => log[cur[r]] \in Note

\* A result says what happened: SENT only of what Redis has been told of, FAILED
\* only after a Redis error.
ResultFitsSend ==
    \A n \in Note :
        /\ results[n]["SENT"] > 0 => Key[n] \in processed
        /\ results[n]["FAILED"] > 0 => ~Without({"redis_error", "reply_lost"})

\* Nothing is sent twice, and nothing has results of both kinds, unless the
\* message was delivered again: nothing that happens at the Redis or Kafka calls
\* makes the loop repeat one.
Redelivering == {"crash", "rebalance", "duplicate"}

SentOnceUnlessRedelivered ==
    Without(Redelivering) =>
        \A n \in Note :
            /\ tried[n] <= 1
            /\ results[n]["SENT"] = 0 \/ results[n]["FAILED"] = 0

\* No offset is committed past a notification without a result, unless a
\* result was lost on its way out.
CommittedHasResultIfProduced ==
    Without({"produce_lost"}) =>
        \A i \in 1 .. committed :
            log[i] \in Note => \E s \in Statuses : results[log[i]][s] > 0

\* Every notification of the outbox gets a result, those of one user and type
\* included, unless a result was lost.
EveryNotificationAnswered ==
    \A n \in Note : (\E i \in 1 .. Len(log) : log[i] = n)
        ~> ((\E s \in Statuses : results[n][s] > 0) \/ ~Without({"produce_lost"}))
=============================================================================
