--------------------------------- MODULE Heap ---------------------------------
(* What an allocator promises to the program: blocks that do not overlap.  *)
EXTENDS Integers

CONSTANTS Addresses, Lengths
VARIABLES live,                    \* blocks of the program: [at, len]
          granted                  \* their number, counted call by call

Disjoint(a, b) == a.at + a.len <= b.at \/ b.at + b.len <= a.at

Init == live = {} /\ granted = 0

Malloc == \E b \in [at : Addresses, len : Lengths] :
            (\A c \in live : Disjoint(b, c)) /\ live' = live \cup {b} /\ granted' = granted + 1

Free == (\E b \in live : live' = live \ {b}) /\ granted' = granted - 1

Next == Malloc \/ Free

Spec == Init /\ [][Next]_<<live, granted>>
=============================================================================
