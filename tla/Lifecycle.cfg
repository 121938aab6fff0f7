SPECIFICATION Spec
CONSTANTS
  ShardCount = "SHARD_COUNT"
  Setting = {"SHARD_COUNT", "PER_ACTOR_QUERY_LIMIT"}
  Default <- Defaults
  Broker = {"localhost"}
  Env <- EnvValues
  ServerCount = 2
  KafkaEnabled = TRUE
  MaxRequests = 2
INVARIANTS
  TypeOK
  ServesSoundSettings
  GracefulIsDrained
  NoSenderWaits
PROPERTIES
  SignalEnds
  FailureEnds
\* When run has returned, the process is gone.
CHECK_DEADLOCK FALSE
