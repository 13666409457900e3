------------------------------- MODULE MCPlay -------------------------------
(* Play.tla on small instances: two cosmetics of one slot, of which one or    *)
(* the other can be afforded to begin with.                                  *)
EXTENDS Play

CONSTANTS bar, dots

MCSlotOf == [c \in {bar, dots} |-> "bar"]
MCPrice == [c \in {bar, dots} |-> IF c = bar THEN 12 ELSE 10]
MCSaved == [a \in {Own, Other} |-> 12]
=============================================================================
