------------------------------ MODULE MCKafka ------------------------------
(* A small instance of KafkaConsumer for TLC. *)
EXTENDS KafkaConsumer

CONSTANTS p1, p2

\* The first record of p1 does not decode; the others do.
FirstMalformed == {<<p1, 0>>}
=============================================================================
