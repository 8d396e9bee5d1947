--------------------------- MODULE MCEmailDelivery ---------------------------
(* Values for the constants of EmailDelivery. *)
EXTENDS EmailDelivery

CONSTANTS e1, w1, w2

OneEvent   == {e1}
TwoWorkers == {w1, w2}
=============================================================================
