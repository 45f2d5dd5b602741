------------------------ MODULE MCConcurrentQueueCpp ------------------------
(***************************************************************************)
(* Instances of ConcurrentQueueCpp for TLC: the threads of the demo have   *)
(* one role each, producing or consuming.                                  *)
(***************************************************************************)
EXTENDS ConcurrentQueueCpp

CONSTANTS p1, p2, c1, c2, x, y

MCThreads == {p1, p2, c1, c2}
Producing == [t \in MCThreads |->
                CASE t = p1 -> {"push"}
                  [] t = p2 -> {"push", "reset", "count"}
                  [] t = c1 -> {"pop", "popTicks"}
                  [] OTHER -> {"pop"}]

Own == [t \in MCThreads |-> CASE t = p1 -> {x} [] t = p2 -> {y} [] OTHER -> {}]

CountingThreads == {p1, p2, c1}
Counting == [t \in CountingThreads |->
               CASE t = p1 -> {"push"} [] t = p2 -> {"count"} [] OTHER -> {"pop"}]
PushingX == [t \in CountingThreads |-> {x}]
=============================================================================
