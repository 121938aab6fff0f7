------------------------------ MODULE Settings ------------------------------
(***************************************************************************)
(* The settings of the service: what config.Load makes of the environment, *)
(* and which of them aggregator.New, NewWindow and ConsumerConfig.Validate *)
(* let through.  Texts, the token and durations are taken as they are.     *)
(***************************************************************************)
EXTENDS Integers

CONSTANTS
  Setting,     \* the numbers: MAX_UNIQUE_QUERIES and the other limits
  ShardCount,  \* SHARD_COUNT, which is one of them
  Default,     \* Default[s], the same in config.go and in the aggregator
  Broker       \* addresses KAFKA_BROKERS may name

ASSUME SettingsAssumption ==
  /\ ShardCount \in Setting
  /\ Default \in [Setting -> Nat \ {0}]

\* An environment variable: not set or empty, no integer, or an integer.
Unset == [kind |-> "unset"]

NotInteger == [kind |-> "text"]

Integer(n) == [kind |-> "integer", value |-> n]

\* What is not set and what does not parse is the fallback.
getIntEnv(raw, fallback) == IF raw.kind = "integer" THEN raw.value ELSE fallback

\* Load, of the numbers.
Load(env) == [s \in Setting |-> getIntEnv(env[s], Default[s])]

\* Fault: a zero is taken for what it says.
withDefaultsKeepingZero(config) == config

\* withDefaultAggregatorConfig and withDefaults: a zero stands for the default.
withDefaults(config) == [s \in Setting |-> IF config[s] = 0 THEN Default[s] ELSE config[s]]

\* The checks of New and NewWindow, behind the defaults.
Valid(config) == config[ShardCount] > 0 /\ \A s \in Setting : config[s] >= 0
=============================================================================
