----------------------------- MODULE BlockStore -----------------------------
(***************************************************************************)
(* What the buffer cache promises: each disk block is a variable that one  *)
(* process at a time may use, and every user finds the value that the last *)
(* one left.                                                               *)
(***************************************************************************)
CONSTANTS Procs, Blocks, Vals, Nobody
VARIABLES contents, user,
          bad     \* blocks that the disk has failed on

storevars == <<contents, user, bad>>

Fresh == contents \in [Blocks -> Vals] /\ user = [k \in Blocks |-> Nobody] /\ bad = {}

Take(p, k) == /\ user[k] = Nobody
              /\ user' = [user EXCEPT ![k] = p]
              /\ UNCHANGED <<contents, bad>>

Update(p, k) == /\ user[k] = p
                /\ \E v \in Vals : contents' = [contents EXCEPT ![k] = v]
                /\ UNCHANGED <<user, bad>>

Give(p, k) == /\ user[k] = p
              /\ user' = [user EXCEPT ![k] = Nobody]
              /\ UNCHANGED <<contents, bad>>

\* A block that the disk has failed on may hold anything.
Spoil(k) == /\ bad' = bad \cup {k}
            /\ \E v \in Vals : contents' = [contents EXCEPT ![k] = v]
            /\ UNCHANGED user

Use == \/ \E p \in Procs, k \in Blocks : Take(p, k) \/ Update(p, k) \/ Give(p, k)
       \/ \E k \in Blocks : Spoil(k)

Store == Fresh /\ [][Use]_storevars
=============================================================================
