------------------------------ MODULE Gateway ------------------------------
(***************************************************************************)
(* The gateway: cmd/api-gateway/main.go, with the Avro serializer of       *)
(* internal/kafka/schema.go and internal/schema/schema.go.                 *)
(*                                                                         *)
(* A client posts a request.  The handler gives it a new transaction id,   *)
(* encodes it, writes it to transactions.pending and answers 202, or 500   *)
(* if the write failed.  A client that got a 500 or no answer may post the *)
(* request again; nothing but the idempotency key it carries, which        *)
(* nobody reads, says that it is the same.                                 *)
(*                                                                         *)
(* Pods of the gateway share nothing, so they are not told apart.          *)
(***************************************************************************)
EXTENDS Integers, Sequences, FiniteSets

CONSTANTS
    Request,      \* what clients want done, one idempotency key each
    Bound,        \* the requests ShouldBindJSON accepts
    Transfer,     \* those posted to /api/v1/transfers
    WithTarget,   \* those that name a target account
    InEnum,       \* those whose transaction_type is a symbol of the Avro enum
    SchemasDir,   \* "unset", "broken" or "loaded": cfg.Schema.SchemasDir
    Malformed,    \* a message json.Unmarshal refuses
    MaxAttempts,  \* bound: times a client posts each request
    Faults,       \* the kinds of fault the environment may inject
    MaxFaults     \* bound: faults in one behaviour

FaultKinds ==
    {"write_refused", "write_in_doubt", "write_timeout", "produce_lost",
     "produce_retry", "reply_lost", "crash"}

\* uuid.New() for each request posted: an id tells the attempt.
Tx == UNION {{k} \X (1 .. MaxAttempts[k]) : k \in Request}

KeyOf(t) == t[1]

ASSUME ConstantsAssumption ==
    /\ Bound \subseteq Request /\ Transfer \subseteq Request /\ WithTarget \subseteq Request
    /\ InEnum \subseteq Request
    /\ SchemasDir \in {"unset", "broken", "loaded"}
    /\ MaxAttempts \in [Request -> Nat] /\ MaxFaults \in Nat
    /\ Faults \subseteq FaultKinds
    /\ Malformed \notin Tx

VARIABLES
    pending,   \* transactions.pending: the partition's messages
    attempts,  \* per request: times it was posted
    call,      \* per transaction: where its handler is
    buffered,  \* transactions in the writer that no handler waits for
    answer,    \* per transaction: what the client got
    faults,    \* history: number of faults so far
    happened   \* history: their kinds

faultVars == <<faults, happened>>
vars == <<pending, attempts, call, buffered, answer, faultVars>>

Answers == {"none", "202", "400", "500", "lost"}

Init ==
    /\ pending = <<>>
    /\ attempts = [k \in Request |-> 0]
    /\ call = [t \in Tx |-> "none"]
    /\ buffered = {}
    /\ answer = [t \in Tx |-> "none"]
    /\ faults = 0
    /\ happened = {}

Fault(kind) ==
    /\ kind \in Faults
    /\ faults < MaxFaults
    /\ faults' = faults + 1
    /\ happened' = happened \cup {kind}

NoFault == UNCHANGED faultVars

\* No fault of these kinds has happened so far.
Without(kinds) == happened \cap kinds = {}

-----------------------------------------------------------------------------
\* The payload.

\* transaction.avsc: the type of each field, a union of null and another as
\* "union", and the fields that have a default.
Schema ==
    ({"transaction_id", "idempotency_key", "source_account_id", "currency",
      "initiated_at", "created_at"} \X {"string"})
    \cup ({"transaction_type", "status"} \X {"enum"})
    \cup ({"amount", "fee_amount"} \X {"double"})
    \cup ({"target_account_id", "fraud_score", "risk_level"} \X {"union"})

Defaulted == {"target_account_id", "fee_amount", "fraud_score", "risk_level"}

\* createTransaction's tx for a request: the Go type of each field; those the
\* schema does not name, the codec does not look at.  A "symbol" is a string
\* that the field's enum lists, as it lists PENDING and CreateTransfer's
\* TRANSFER.
Record(k) ==
    ({"transaction_id", "idempotency_key", "source_account_id", "target_account_id",
      "currency"} \X {"string"})
    \cup {<<"transaction_type", IF k \in InEnum \cup Transfer THEN "symbol" ELSE "string">>,
          <<"status", "symbol">>, <<"initiated_at", "time">>}
    \cup ({"amount", "fee_amount"} \X {"float64"})

\* The Go types goavro encodes as an Avro type: a union takes nil, or a map from
\* the name of its member, and no plain string.
Encodes ==
    {<<"string", "string">>, <<"enum", "symbol">>, <<"double", "float64">>,
     <<"union", "nil">>, <<"union", "map">>}

\* NewAvroSerializer: there is a serializer if every schema file loads.
HasSerializer == SchemasDir = "loaded"

\* BinaryFromNative: each field of the schema is given a value it can encode, or
\* none and has a default.  It refuses every tx: target_account_id is a plain
\* string, initiated_at a time, and created_at is missing.
Serializes(k) ==
    \A field \in Schema :
        LET given == {v \in Record(k) : v[1] = field[1]}
        IN  IF given = {}
            THEN field[1] \in Defaulted
            ELSE \A v \in given : <<field[2], v[2]>> \in Encodes

\* Mutant: what the serializer returns is sent without a look at its error.
PayloadUnchecked(t) == IF HasSerializer THEN Malformed ELSE t

\* What goes on the topic: Avro bytes, which json.Unmarshal of the fraud
\* service refuses, if they can be made, else JSON.
Payload(t) == IF HasSerializer /\ Serializes(KeyOf(t)) THEN Malformed ELSE t

-----------------------------------------------------------------------------
\* The client.

\* CreateTransfer asks for a target too; CreateTransaction does not.
BadRequest(k) == k \notin Bound \/ (k \in Transfer /\ k \notin WithTarget)

\* The first time, or again after a 500 or no answer.  The handler binds the
\* request and answers 400, or goes on to the write.
Post(k) ==
    LET n == attempts[k]
        t == <<k, n + 1>>
    IN  /\ n < MaxAttempts[k]
        /\ n > 0 => answer[<<k, n>>] \in {"500", "lost"}
        /\ attempts' = [attempts EXCEPT ![k] = n + 1]
        /\ IF BadRequest(k)
           THEN answer' = [answer EXCEPT ![t] = "400"] /\ UNCHANGED call
           ELSE call' = [call EXCEPT ![t] = "write"] /\ UNCHANGED answer
        /\ NoFault
        /\ UNCHANGED <<pending, buffered>>

-----------------------------------------------------------------------------
\* The handler.

\* n copies of what was made of t reach the topic.
Deliver(t, n) == pending' = pending \o [i \in 1 .. n |-> Payload(t)]

\* producer.WriteMessages returns nil: the message is on the topic, or twice
\* after a retry of the writer, or, as no acknowledgement is waited for, not.
Write(t) ==
    /\ call[t] = "write"
    /\ \/ Deliver(t, 1) /\ NoFault
       \/ Deliver(t, 2) /\ Fault("produce_retry")
       \/ Deliver(t, 0) /\ Fault("produce_lost")
    /\ call' = [call EXCEPT ![t] = "202"]
    /\ UNCHANGED <<attempts, buffered, answer>>

\* Mutant: a write that is refused stays in the writer.
WriteErrorKept(t) ==
    /\ call[t] = "write"
    /\ Deliver(t, 0)
    /\ Fault("write_refused") \/ Fault("write_timeout")
    /\ buffered' = buffered \cup {t}
    /\ call' = [call EXCEPT ![t] = "500"]
    /\ UNCHANGED <<attempts, answer>>

\* It returns an error: the message is not on the topic, or it is, or the 5
\* seconds are over and it is still in the writer.
WriteError(t) ==
    /\ call[t] = "write"
    /\ \/ Deliver(t, 0) /\ Fault("write_refused") /\ UNCHANGED buffered
       \/ Deliver(t, 1) /\ Fault("write_in_doubt") /\ UNCHANGED buffered
       \/ Deliver(t, 0) /\ Fault("write_timeout") /\ buffered' = buffered \cup {t}
    /\ call' = [call EXCEPT ![t] = "500"]
    /\ UNCHANGED <<attempts, answer>>

\* The writer delivers, late, what a handler has given up.
WriteLate(t) ==
    /\ t \in buffered
    /\ buffered' = buffered \ {t}
    /\ Deliver(t, 1)
    /\ NoFault
    /\ UNCHANGED <<attempts, call, answer>>

\* The client gets the answer, or the connection breaks.
Reply(t) ==
    /\ call[t] \in {"202", "500"}
    /\ \/ answer' = [answer EXCEPT ![t] = call[t]] /\ NoFault
       \/ answer' = [answer EXCEPT ![t] = "lost"] /\ Fault("reply_lost")
    /\ call' = [call EXCEPT ![t] = "none"]
    /\ UNCHANGED <<pending, attempts, buffered>>

\* A pod dies, with the calls it was handling and what its writer held.
Crash(S) ==
    /\ S # {}
    /\ \A t \in S : call[t] # "none" \/ t \in buffered
    /\ Fault("crash")
    /\ answer' = [t \in Tx |-> IF t \in S /\ call[t] # "none" THEN "lost" ELSE answer[t]]
    /\ call' = [t \in Tx |-> IF t \in S THEN "none" ELSE call[t]]
    /\ buffered' = buffered \ S
    /\ UNCHANGED <<pending, attempts>>

Handle(t) == Write(t) \/ WriteError(t) \/ WriteLate(t) \/ Reply(t)

Next ==
    \/ \E k \in Request : Post(k)
    \/ \E t \in Tx : Handle(t)
    \/ \E S \in SUBSET Tx : Crash(S)

Spec == Init /\ [][Next]_vars

-----------------------------------------------------------------------------

\* The type of the state: a handler works for a transaction that was posted.
TypeOK ==
    /\ pending \in Seq(Tx \cup {Malformed})
    /\ attempts \in [Request -> Nat]
    /\ \A k \in Request : attempts[k] <= MaxAttempts[k]
    /\ call \in [Tx -> {"none", "write", "202", "500"}]
    /\ buffered \subseteq Tx
    /\ answer \in [Tx -> Answers]
    /\ faults \in Nat /\ happened \subseteq Faults
    /\ \A t \in Tx : call[t] # "none" \/ t \in buffered => t[2] <= attempts[t[1]]
=============================================================================
