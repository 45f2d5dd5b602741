------------------------------ MODULE MCCmsisOs2 ------------------------------
(***************************************************************************)
(* An instance of CmsisOs2 for TLC: the pool and the mailbox of one actor, *)
(* both of pointers to messages, with main, which also creates them, the   *)
(* actor and an interrupt routine.                                         *)
(***************************************************************************)
EXTENDS CmsisOs2, TLC

CONSTANTS main, actor, isr, b1, b2, b3, b4

PoolAndMailbox == <<"pool", "mailbox">>
OnePointer == [q \in {"pool", "mailbox"} |-> 8]
Roles == [t \in {main, actor, isr} |->
            CASE t = main -> {"push", "reset"}
              [] t = actor -> {"pop", "popTicks"}
              [] OTHER -> {"push", "popTicks"}]
TwoOrOne == [t \in {main, actor, isr} |-> IF t = isr THEN 1 ELSE 2]
Addresses == {b1, b2, b3, b4}
Symmetry == Permutations(Addresses)
=============================================================================
