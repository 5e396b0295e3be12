---------------------------- MODULE BoundedStack ----------------------------
(***************************************************************************)
(* What both producer/consumer programs promise: a stack of at most        *)
(* Capacity items.  (Neither is a queue: a consumer gets the item that was *)
(* produced last.)                                                         *)
(***************************************************************************)
EXTENDS Integers, Sequences

CONSTANTS Capacity, Items
VARIABLE stack

Init == stack = <<>>

Push ==
    /\ Len(stack) < Capacity
    /\ \E v \in Items : stack' = Append(stack, v)

Pop ==
    /\ stack # <<>>
    /\ stack' = SubSeq(stack, 1, Len(stack) - 1)

Next == Push \/ Pop

Spec == Init /\ [][Next]_stack

=============================================================================
