--------------------------- MODULE MCActiveSource ---------------------------
(* ActiveSource over two recordings, a live feed and a plain history. *)
EXTENDS ActiveSource

CONSTANTS rec, alt, pmu, plain

MCKind == [s \in Sources |-> IF s = pmu THEN "live" ELSE IF s = plain THEN "history" ELSE "playable"]
=============================================================================
