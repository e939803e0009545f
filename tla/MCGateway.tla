------------------------------ MODULE MCGateway ------------------------------
(* Gateway with an order and two reads on two permits: the budget of 0.9 * 3 *)
(* admits one read and one order, the exchange's own limit of 4 can be hit.  *)
EXTENDS Gateway

CONSTANTS o1, r1, r2

MCCalls == {o1, r1, r2}
MCOrders == {o1}
MCWeight == [c \in MCCalls |-> IF c = o1 THEN 1 ELSE 2]
==============================================================================
