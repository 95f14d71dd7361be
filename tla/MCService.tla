----------------------------- MODULE MCService -----------------------------
(***************************************************************************)
(* An instance of Service for TLC: every service, with the environment of  *)
(* its manifest, with none, and with values that read as nothing.          *)
(***************************************************************************)
EXTENDS Service

Bare == [f \in Fields |-> Unset]

Manifest(s) ==
    [Bare EXCEPT !["APP_PORT"] = Main[s].port,
                 !["KAFKA_BROKERS"] = <<"kafka-0:9092", "", "kafka-1:9092">>,
                 !["REDIS_ADDR"] = "redis:6379",
                 !["DATABASE_HOST"] = "postgres"]

Envs ==
    [s \in DOMAIN Main |->
        {Bare, Manifest(s),
         [Manifest(s) EXCEPT !["KAFKA_BROKERS"] = <<"", "">>],
         [Manifest(s) EXCEPT !["APP_PORT"] = NotANumber]}]

\* A file complete but for the database, with a port of its own.
Written ==
    [Zero EXCEPT !["APP_PORT"] = 9090, !["KAFKA_BROKERS"] = <<"localhost:9092">>,
                 !["REDIS_ADDR"] = "localhost:6379"]

SomeFiles ==
    {[is |-> kind, fields |-> Written] : kind \in {"unset", "missing", "unreadable", "bad", "yaml"}}

AllFaults == FaultKinds
=============================================================================
