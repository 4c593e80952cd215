------------------------------- MODULE MCAgent -------------------------------
EXTENDS Agent

CONSTANTS t1, p1, e1, e2

MCFirstPort == [tg \in {t1} |-> p1]

(* One endpoint is added next to the first and the first is removed; and,  *)
(* in the second set, the weight of the first is changed.                  *)
MCEvents == {[ep |-> e1, w |-> 0], [ep |-> e2, w |-> 1]}
MCWeights == {[ep |-> e1, w |-> 1], [ep |-> e1, w |-> 2]}
=============================================================================
