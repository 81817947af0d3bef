---------------------------- MODULE MCKafkaConsumer ----------------------------
(* Two control topics, whose order matters, and one of data or none. *)
EXTENDS KafkaConsumer

CONSTANTS a, b, d

MCControl == {a, b}
MCData == {d}
MCNoData == {}
================================================================================
