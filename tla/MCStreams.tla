----------------------------- MODULE MCStreams -----------------------------
(* A small instance of Streams for TLC.                                    *)
EXTENDS Streams

CONSTANTS c1, c2, k1, k2

\* One client reads what is new under one key and everything under the other,
\* until a deadline; the second follows the first key, or looks at it once.
Reading ==
    [c \in {c1, c2} |->
        IF c = c1
        THEN {[reads |-> [k \in {k1, k2} |-> IF k = k1 THEN Dollar ELSE Zero], wait |-> "until"]}
        ELSE [reads : [{k1} -> {Dollar}], wait : {"now", "forever"}]]
=============================================================================
