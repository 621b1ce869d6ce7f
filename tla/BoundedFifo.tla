------------------------------ MODULE BoundedFifo ------------------------------
(* A queue that holds at most Capacity items and gives them in order.      *)
EXTENDS Naturals, Sequences

CONSTANTS Items, Capacity
VARIABLES contents, given        \* what it holds; the item given last

Init == contents = <<>> /\ given = <<>>

Enqueue(x) == /\ Len(contents) < Capacity
              /\ contents' = Append(contents, x) /\ given' = <<>>

Dequeue == /\ contents # <<>>
           /\ given' = <<Head(contents)>> /\ contents' = Tail(contents)

Refuse == given' = <<>> /\ UNCHANGED contents

Next == (\E x \in Items : Enqueue(x)) \/ Dequeue
          \/ (Refuse /\ (contents = <<>> \/ Len(contents) = Capacity))

Spec == Init /\ [][Next]_<<contents, given>>
=============================================================================
