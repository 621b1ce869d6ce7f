------------------------------- MODULE FifoCache -------------------------------
(* A set-associative cache with first-in first-out replacement.            *)
EXTENDS Naturals, Sequences, SequencesExt

CONSTANTS Addresses, SetOf(_), Ways
VARIABLES resident, hits         \* set -> addresses, oldest first; number of hits

Init == resident = [s \in {SetOf(a) : a \in Addresses} |-> <<>>] /\ hits = 0

Access(a) ==
  LET q == resident[SetOf(a)]
  IN IF Contains(q, a) THEN hits' = hits + 1 /\ UNCHANGED resident
     ELSE /\ resident' = [resident EXCEPT ![SetOf(a)] =
                            Append(IF Len(q) = Ways THEN Tail(q) ELSE q, a)]
          /\ UNCHANGED hits

Next == \E a \in Addresses : Access(a)

Spec == Init /\ [][Next]_<<resident, hits>>
=============================================================================
