----------------------------- MODULE AtomicDisk -----------------------------
(***************************************************************************)
(* What the xv6 log promises to the file system: a disk on which the       *)
(* writes of all operations that run together become stable in one step,   *)
(* taken only when no operation is active, and a crash loses exactly the   *)
(* writes that are not stable.  Log.tla is shown to implement it.          *)
(***************************************************************************)
CONSTANTS Procs, Block, Val

VARIABLES active,   \* operations between begin_op() and end_op()
          current,  \* the contents that file system code reads
          stable    \* the contents that survive a crash

vars == <<active, current, stable>>

Init == /\ active = {}
        /\ current \in [Block -> Val]
        /\ stable = current

Begin(p) == /\ p \notin active
            /\ active' = active \cup {p}
            /\ UNCHANGED <<current, stable>>

Write(p, b, v) == /\ p \in active
                  /\ current' = [current EXCEPT ![b] = v]
                  /\ UNCHANGED <<active, stable>>

End(p) == /\ p \in active
          /\ active' = active \ {p}
          /\ UNCHANGED <<current, stable>>

Commit == /\ active = {}
          /\ stable' = current
          /\ UNCHANGED <<active, current>>

Crash == /\ active' = {}
         /\ current' = stable
         /\ UNCHANGED stable

Next == \/ \E p \in Procs : Begin(p) \/ End(p)
        \/ \E p \in Procs, b \in Block, v \in Val : Write(p, b, v)
        \/ Commit
        \/ Crash

Spec == Init /\ [][Next]_vars
=============================================================================
