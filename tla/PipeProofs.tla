----------------------------- MODULE PipeProofs -----------------------------
(***************************************************************************)
(* Proofs about the pipe (Pipe.tla), for every size of the ring, every     *)
(* modulus of the counters that is a multiple of it, and any processes.    *)
(***************************************************************************)
EXTENDS Pipe, Remainders, SequenceTheorems, FiniteSetTheorems, TLAPS

-----------------------------------------------------------------------------
(* The inductive invariant. *)

Critical == {"rtest", "rsleep", "rcopy", "wloop", "wsleep"}
Reading == {"racquire", "rtest", "rsleep", "rasleep", "rcopy"}
Writing == {"wacquire", "wloop", "wsleep", "wasleep"}

\* The lock is held by the process that is between acquire() and release().
LockInv == \A p \in Procs : pc[p] \in Critical <=> lock = p

\* A process in a call has the end open that it uses.
CallInv == \A p \in Procs :
              /\ fds[p] \subseteq Holds[p]
              /\ pc[p] \in Reading => "r" \in fds[p]
              /\ pc[p] \in Writing => "w" \in fds[p]

\* An end is closed by one process, when no process has it open.
Closing(open, e, at) ==
    \A p \in Procs :
        /\ pc[p] = at => open = 1 /\ \A q \in Procs : e \notin fds[q] /\ (pc[q] = at => q = p)
        /\ open = 0 => e \notin fds[p] /\ pc[p] # at
CloseInv == Closing(readopen, "r", "close r") /\ Closing(writeopen, "w", "close w")

\* The pipe is freed by one process, when both ends are closed.
FreeInv ==
    /\ \A p \in Procs : pc[p] = "free" => /\ readopen = 0 /\ writeopen = 0 /\ freed = 0
                                          /\ \A q \in Procs : pc[q] = "free" => q = p
    /\ freed = 1 => readopen = 0 /\ writeopen = 0 /\ \A p \in Procs : pc[p] # "free"

ControlInv == TypeOK /\ LockInv /\ CallInv /\ CloseInv /\ FreeInv

\* The bytes in the ring, without a remainder.
Used == IF nread <= nwrite THEN nwrite - nread ELSE nwrite - nread + UintMod
RingInv == Used <= PIPESIZE

\* What a process saw before it calls sleep() holds until it sleeps.
SleepInv == \A p \in Procs : /\ pc[p] = "rsleep" => Empty /\ writeopen = 1
                             /\ pc[p] = "wsleep" => Full /\ readopen = 1

WakeInv == SleepInv /\ NoLostWakeup

PipeInv == ControlInv /\ RingInv /\ WakeInv
-----------------------------------------------------------------------------
(* Control: the lock, the ends and the freeing. *)

\* The assumptions that control rests on.
LEMMA Constants ==
  /\ PIPESIZE \in Nat /\ PIPESIZE > 0 /\ UintMod \in Nat /\ UintMod > PIPESIZE
  /\ 0 \notin Procs /\ Holds \in [Procs -> SUBSET {"r", "w"}]
  /\ Counts \subseteq Nat /\ Killable \subseteq Procs
BY PipeAssumption

\* A remainder stays below the divisor.
LEMMA Below ==
  \A x \in Nat : (x + 1) % UintMod \in 0 .. UintMod - 1 /\ x % PIPESIZE \in 0 .. PIPESIZE - 1
BY PipeAssumption, Z3

\* Steps that leave the ends alone and neither begin nor finish a close.
EndsAlone ==
    /\ UNCHANGED ends
    /\ \A q \in Procs : \A at \in {"close r", "close w", "free"} : pc'[q] = at <=> pc[q] = at

\* They keep what the invariant says of closing and freeing.
LEMMA EndsKept ==
  ASSUME ControlInv, EndsAlone
  PROVE  CloseInv' /\ FreeInv'
<1>1. CloseInv'
  BY Zenon DEF ControlInv, EndsAlone, CloseInv, Closing, ends
<1>2. FreeInv'
  BY Zenon DEF ControlInv, EndsAlone, FreeInv, ends
<1>3. QED
  BY Zenon, <1>1, <1>2

\* The parts of TypeOK that steps change together.
CallType == /\ left \in [Procs -> Nat] /\ killed \in [Procs -> {0, 1}]
            /\ lock \in Procs \cup {0} /\ unwoken \in SUBSET Procs
RingType == /\ data \in [0 .. PIPESIZE - 1 -> Bytes]
            /\ nread \in 0 .. UintMod - 1 /\ nwrite \in 0 .. UintMod - 1
EndsType == /\ readopen \in {0, 1} /\ writeopen \in {0, 1} /\ freed \in {0, 1}
            /\ fds \in [Procs -> SUBSET {"r", "w"}]

\* Every step keeps the invariant of control.
LEMMA ControlStep == ControlInv /\ [Next]_vars => ControlInv'
<1> SUFFICES ASSUME ControlInv, [Next]_vars
             PROVE  ControlInv'
  BY Zenon
<1> USE Constants
<1>1. ASSUME NEW p \in Procs, NEW k \in Counts, call(p, k)
      PROVE  ControlInv'
  <2>1. TypeOK'
    <3>1. pc' \in [Procs -> PCs]
      BY Zenon, <1>1 DEF ControlInv, TypeOK, PCs, call
    <3>2. CallType'
      BY Zenon, <1>1 DEF CallType, ControlInv, TypeOK, call
    <3>3. RingType'
      BY Zenon, <1>1, Below DEF RingType, ControlInv, TypeOK, call, ring
    <3>4. EndsType'
      BY Zenon, <1>1 DEF EndsType, ControlInv, TypeOK, FreeInv, call, ends
    <3>5. QED
      BY Zenon, <3>1, <3>2, <3>3, <3>4 DEF TypeOK, CallType, RingType, EndsType
  <2>2. LockInv'
    BY Zenon, <1>1 DEF ControlInv, TypeOK, PCs, LockInv, Critical, call
  <2>3. CallInv'
    <3>1. fds' = fds /\ \A q \in Procs : q # p => pc'[q] = pc[q]
      BY Zenon, <1>1 DEF ControlInv, TypeOK, call, ends
    <3>2. \/ pc'[p] = "racquire" /\ "r" \in fds[p]
          \/ pc'[p] = "wacquire" /\ "w" \in fds[p]
      BY Zenon, <1>1 DEF ControlInv, TypeOK, call
    <3>3. QED
      BY Zenon, <3>1, <3>2 DEF ControlInv, CallInv, Reading, Writing
  <2>4. EndsAlone
    BY Zenon, <1>1 DEF ControlInv, TypeOK, EndsAlone, call
  <2>5. QED
    BY Zenon, <2>1, <2>2, <2>3, <2>4, EndsKept DEF ControlInv
<1>2. ASSUME NEW p \in Procs, acquire(p)
      PROVE  ControlInv'
  <2>1. TypeOK'
    <3>1. pc' \in [Procs -> PCs]
      BY Zenon, <1>2 DEF ControlInv, TypeOK, PCs, acquire
    <3>2. CallType'
      BY Zenon, <1>2 DEF CallType, ControlInv, TypeOK, acquire
    <3>3. RingType'
      BY Zenon, <1>2, Below DEF RingType, ControlInv, TypeOK, acquire, ring
    <3>4. EndsType'
      BY Zenon, <1>2 DEF EndsType, ControlInv, TypeOK, FreeInv, acquire, ends
    <3>5. QED
      BY Zenon, <3>1, <3>2, <3>3, <3>4 DEF TypeOK, CallType, RingType, EndsType
  <2>2. LockInv'
    BY Zenon, <1>2 DEF ControlInv, TypeOK, PCs, LockInv, Critical, acquire
  <2>3. CallInv'
    BY ZenonT(40), <1>2 DEF ControlInv, TypeOK, PCs, CallInv, Reading, Writing, acquire, ends
  <2>4. EndsAlone
    BY Zenon, <1>2 DEF ControlInv, TypeOK, EndsAlone, acquire
  <2>5. QED
    BY Zenon, <2>1, <2>2, <2>3, <2>4, EndsKept DEF ControlInv
<1>3. ASSUME NEW p \in Procs, piperead_test(p)
      PROVE  ControlInv'
  <2>1. TypeOK'
    <3>1. pc' \in [Procs -> PCs]
      BY Zenon, <1>3 DEF ControlInv, TypeOK, PCs, piperead_test, return
    <3>2. CallType'
      BY <1>3 DEF CallType, ControlInv, TypeOK, piperead_test, return
    <3>3. RingType'
      BY Zenon, <1>3, Below DEF RingType, ControlInv, TypeOK, piperead_test, return, ring
    <3>4. EndsType'
      BY Zenon, <1>3 DEF EndsType, ControlInv, TypeOK, FreeInv, piperead_test, return, ends
    <3>5. QED
      BY Zenon, <3>1, <3>2, <3>3, <3>4 DEF TypeOK, CallType, RingType, EndsType
  <2>2. LockInv'
    <3>1. pc[p] = "rtest" /\ \A q \in Procs : q # p => pc'[q] = pc[q]
      BY Zenon, <1>3 DEF ControlInv, TypeOK, piperead_test, return
    <3>2. \/ pc'[p] = "user" /\ lock' = 0
          \/ pc'[p] \in {"rsleep", "rcopy"} /\ lock' = lock
      BY Zenon, <1>3 DEF ControlInv, TypeOK, piperead_test, return
    <3>3. QED
      BY Zenon, <3>1, <3>2 DEF ControlInv, LockInv, Critical
  <2>3. CallInv'
    <3>1. pc[p] = "rtest" /\ fds' = fds /\ \A q \in Procs : q # p => pc'[q] = pc[q]
      BY Zenon, <1>3 DEF ControlInv, TypeOK, piperead_test, return, ends
    <3>2. pc'[p] \in {"user", "rsleep", "rcopy"}
      BY Zenon, <1>3 DEF ControlInv, TypeOK, piperead_test, return
    <3>3. QED
      BY Zenon, <3>1, <3>2 DEF ControlInv, CallInv, Reading, Writing
  <2>4. EndsAlone
    BY Zenon, <1>3 DEF ControlInv, TypeOK, EndsAlone, piperead_test, return
  <2>5. QED
    BY Zenon, <2>1, <2>2, <2>3, <2>4, EndsKept DEF ControlInv
<1>4. ASSUME NEW p \in Procs, piperead_copy(p)
      PROVE  ControlInv'
  <2>1. TypeOK'
    <3>1. pc' \in [Procs -> PCs]
      BY Zenon, <1>4 DEF ControlInv, TypeOK, PCs, piperead_copy
    <3>2. CallType'
      BY <1>4 DEF CallType, ControlInv, TypeOK, piperead_copy
    <3>3. RingType'
      BY <1>4, Below DEF RingType, ControlInv, TypeOK, piperead_copy, ring
    <3>4. EndsType'
      BY Zenon, <1>4 DEF EndsType, ControlInv, TypeOK, FreeInv, piperead_copy, ends
    <3>5. QED
      BY Zenon, <3>1, <3>2, <3>3, <3>4 DEF TypeOK, CallType, RingType, EndsType
  <2>2. LockInv'
    BY Zenon, <1>4 DEF ControlInv, TypeOK, PCs, LockInv, Critical, piperead_copy
  <2>3. CallInv'
    BY Zenon, <1>4 DEF ControlInv, TypeOK, PCs, CallInv, Reading, Writing, piperead_copy, ends
  <2>4. EndsAlone
    BY Zenon, <1>4 DEF ControlInv, TypeOK, EndsAlone, piperead_copy
  <2>5. QED
    BY Zenon, <2>1, <2>2, <2>3, <2>4, EndsKept DEF ControlInv
<1>5. ASSUME NEW p \in Procs, piperead_return(p)
      PROVE  ControlInv'
  <2>1. TypeOK'
    <3>1. pc' \in [Procs -> PCs]
      BY Zenon, <1>5 DEF ControlInv, TypeOK, PCs, piperead_return, return, wakeup_writers, wakeup
    <3>2. CallType'
      BY <1>5 DEF CallType, ControlInv, TypeOK, piperead_return, return, wakeup_writers, wakeup
    <3>3. RingType'
      BY Zenon, <1>5, Below DEF RingType, ControlInv, TypeOK, ring,
             piperead_return, return, wakeup_writers, wakeup
    <3>4. EndsType'
      BY Zenon, <1>5 DEF EndsType, ControlInv, TypeOK, FreeInv, piperead_return, return, wakeup_writers,
             wakeup, ends
    <3>5. QED
      BY Zenon, <3>1, <3>2, <3>3, <3>4 DEF TypeOK, CallType, RingType, EndsType
  <2>2. LockInv'
    BY Zenon, <1>5 DEF ControlInv, TypeOK, PCs, LockInv, Critical, piperead_return, return,
           wakeup_writers, wakeup
  <2>3. CallInv'
    BY Zenon, <1>5 DEF ControlInv, TypeOK, PCs, CallInv, Reading, Writing, piperead_return, return,
           wakeup_writers, wakeup, ends
  <2>4. EndsAlone
    BY Zenon, <1>5 DEF ControlInv, TypeOK, EndsAlone, piperead_return, return, wakeup_writers, wakeup
  <2>5. QED
    BY Zenon, <2>1, <2>2, <2>3, <2>4, EndsKept DEF ControlInv
<1>6. ASSUME NEW p \in Procs, NEW b \in Bytes, pipewrite_copy(p, b)
      PROVE  ControlInv'
  <2>1. TypeOK'
    <3>1. pc' \in [Procs -> PCs]
      BY Zenon, <1>6 DEF ControlInv, TypeOK, PCs, pipewrite_copy
    <3>2. CallType'
      BY <1>6 DEF CallType, ControlInv, TypeOK, pipewrite_copy
    <3>3. RingType'
      BY <1>6, Below DEF RingType, ControlInv, TypeOK, pipewrite_copy, ring
    <3>4. EndsType'
      BY Zenon, <1>6 DEF EndsType, ControlInv, TypeOK, FreeInv, pipewrite_copy, ends
    <3>5. QED
      BY Zenon, <3>1, <3>2, <3>3, <3>4 DEF TypeOK, CallType, RingType, EndsType
  <2>2. LockInv'
    BY Zenon, <1>6 DEF ControlInv, TypeOK, PCs, LockInv, Critical, pipewrite_copy
  <2>3. CallInv'
    BY Zenon, <1>6 DEF ControlInv, TypeOK, PCs, CallInv, Reading, Writing, pipewrite_copy, ends
  <2>4. EndsAlone
    BY Zenon, <1>6 DEF ControlInv, TypeOK, EndsAlone, pipewrite_copy
  <2>5. QED
    BY Zenon, <2>1, <2>2, <2>3, <2>4, EndsKept DEF ControlInv
<1>7. ASSUME NEW p \in Procs, pipewrite_full(p)
      PROVE  ControlInv'
  <2>1. TypeOK'
    <3>1. pc' \in [Procs -> PCs]
      <4>1. pc \in [Procs -> PCs] /\ wakeup_readers \in [Procs -> PCs]
        BY Zenon DEF ControlInv, TypeOK, PCs, wakeup_readers, wakeup
      <4>2. \/ pc' = [pc EXCEPT ![p] = "user"]
            \/ pc' = [wakeup_readers EXCEPT ![p] = "wsleep"]
        BY Zenon, <1>7 DEF pipewrite_full, return
      <4>3. "user" \in PCs /\ "wsleep" \in PCs
        BY Zenon DEF PCs
      <4>4. QED
        BY Zenon, <4>1, <4>2, <4>3
    <3>2. CallType'
      BY SMTT(30), <1>7 DEF CallType, ControlInv, TypeOK, pipewrite_full, return, wakeup_readers, wakeup
    <3>3. RingType'
      BY Zenon, <1>7, Below DEF RingType, ControlInv, TypeOK, ring,
             pipewrite_full, return, wakeup_readers, wakeup
    <3>4. EndsType'
      BY Zenon, <1>7 DEF EndsType, ControlInv, TypeOK, FreeInv, pipewrite_full, return, wakeup_readers,
             wakeup, ends
    <3>5. QED
      BY Zenon, <3>1, <3>2, <3>3, <3>4 DEF TypeOK, CallType, RingType, EndsType
  <2>2. LockInv'
    <3>1. ASSUME NEW q \in Procs, q # p
          PROVE  pc'[q] = pc[q] \/ (pc[q] = "rasleep" /\ pc'[q] = "racquire")
      BY Zenon, <1>7, <3>1 DEF ControlInv, TypeOK, pipewrite_full, return, wakeup_readers, wakeup
    <3>2. /\ pc[p] = "wloop"
          /\ \/ pc'[p] = "user" /\ lock' = 0
             \/ pc'[p] = "wsleep" /\ lock' = lock
      BY Zenon, <1>7 DEF ControlInv, TypeOK, pipewrite_full, return, wakeup_readers, wakeup
    <3>3. QED
      BY Zenon, <3>1, <3>2 DEF ControlInv, LockInv, Critical
  <2>3. CallInv'
    <3>1. ASSUME NEW q \in Procs, q # p
          PROVE  pc'[q] = pc[q] \/ (pc[q] = "rasleep" /\ pc'[q] = "racquire")
      BY Zenon, <1>7, <3>1 DEF ControlInv, TypeOK, pipewrite_full, return, wakeup_readers, wakeup
    <3>2. pc[p] = "wloop" /\ pc'[p] \in {"user", "wsleep"} /\ fds' = fds
      BY Zenon, <1>7 DEF ControlInv, TypeOK, pipewrite_full, return, wakeup_readers, wakeup, ends
    <3>3. QED
      BY Zenon, <3>1, <3>2 DEF ControlInv, CallInv, Reading, Writing
  <2>4. EndsAlone
    BY Zenon, <1>7 DEF ControlInv, TypeOK, EndsAlone, pipewrite_full, return, wakeup_readers, wakeup
  <2>5. QED
    BY Zenon, <2>1, <2>2, <2>3, <2>4, EndsKept DEF ControlInv
<1>8. ASSUME NEW p \in Procs, pipewrite_return(p)
      PROVE  ControlInv'
  <2>1. TypeOK'
    <3>1. pc' \in [Procs -> PCs]
      BY Zenon, <1>8 DEF ControlInv, TypeOK, PCs, pipewrite_return, return, wakeup_readers, wakeup
    <3>2. CallType'
      BY Zenon, <1>8 DEF CallType, ControlInv, TypeOK, pipewrite_return, return, wakeup_readers, wakeup
    <3>3. RingType'
      BY Zenon, <1>8, Below DEF RingType, ControlInv, TypeOK, pipewrite_return, return, wakeup_readers,
             wakeup, ring
    <3>4. EndsType'
      BY Zenon, <1>8 DEF EndsType, ControlInv, TypeOK, FreeInv, pipewrite_return, return, wakeup_readers,
             wakeup, ends
    <3>5. QED
      BY Zenon, <3>1, <3>2, <3>3, <3>4 DEF TypeOK, CallType, RingType, EndsType
  <2>2. LockInv'
    BY Zenon, <1>8 DEF ControlInv, TypeOK, PCs, LockInv, Critical, pipewrite_return, return,
           wakeup_readers, wakeup
  <2>3. CallInv'
    BY Zenon, <1>8 DEF ControlInv, TypeOK, PCs, CallInv, Reading, Writing, pipewrite_return, return,
           wakeup_readers, wakeup, ends
  <2>4. EndsAlone
    BY Zenon, <1>8 DEF ControlInv, TypeOK, EndsAlone, pipewrite_return, return, wakeup_readers, wakeup
  <2>5. QED
    BY Zenon, <2>1, <2>2, <2>3, <2>4, EndsKept DEF ControlInv
<1>9. ASSUME NEW p \in Procs, sleep(p)
      PROVE  ControlInv'
  <2>1. TypeOK'
    <3>1. pc' \in [Procs -> PCs]
      BY Zenon, <1>9 DEF ControlInv, TypeOK, PCs, sleep
    <3>2. CallType'
      BY Zenon, <1>9 DEF CallType, ControlInv, TypeOK, sleep
    <3>3. RingType'
      BY Zenon, <1>9, Below DEF RingType, ControlInv, TypeOK, sleep, ring
    <3>4. EndsType'
      BY Zenon, <1>9 DEF EndsType, ControlInv, TypeOK, FreeInv, sleep, ends
    <3>5. QED
      BY Zenon, <3>1, <3>2, <3>3, <3>4 DEF TypeOK, CallType, RingType, EndsType
  <2>2. LockInv'
    BY Zenon, <1>9 DEF ControlInv, TypeOK, PCs, LockInv, Critical, sleep
  <2>3. CallInv'
    <3>1. fds' = fds /\ \A q \in Procs : q # p => pc'[q] = pc[q]
      BY Zenon, <1>9 DEF ControlInv, TypeOK, sleep, ends
    <3>2. \/ pc[p] = "rsleep" /\ pc'[p] = "rasleep"
          \/ pc[p] = "wsleep" /\ pc'[p] = "wasleep"
      BY Zenon, <1>9 DEF ControlInv, TypeOK, sleep
    <3>3. QED
      BY Zenon, <3>1, <3>2 DEF ControlInv, CallInv, Reading, Writing
  <2>4. EndsAlone
    BY Zenon, <1>9 DEF ControlInv, TypeOK, EndsAlone, sleep
  <2>5. QED
    BY Zenon, <2>1, <2>2, <2>3, <2>4, EndsKept DEF ControlInv
<1>10. ASSUME NEW p \in Procs, NEW e \in {"r", "w"}, fileclose(p, e)
      PROVE  ControlInv'
  <2>1. TypeOK'
    <3>1. pc' \in [Procs -> PCs]
      BY Zenon, <1>10 DEF ControlInv, TypeOK, PCs, fileclose
    <3>2. CallType'
      BY Zenon, <1>10 DEF CallType, ControlInv, TypeOK, fileclose
    <3>3. RingType'
      BY Zenon, <1>10, Below DEF RingType, ControlInv, TypeOK, fileclose, ring
    <3>4. EndsType'
      BY Zenon, <1>10 DEF EndsType, ControlInv, TypeOK, FreeInv, fileclose, ends
    <3>5. QED
      BY Zenon, <3>1, <3>2, <3>3, <3>4 DEF TypeOK, CallType, RingType, EndsType
  <2>2. LockInv'
    BY Zenon, <1>10 DEF ControlInv, TypeOK, PCs, LockInv, Critical, fileclose
  <2>3. CallInv'
    <3>1. \A q \in Procs : q # p => pc'[q] = pc[q] /\ fds'[q] = fds[q]
      BY Zenon, <1>10 DEF ControlInv, TypeOK, fileclose
    <3>2. pc'[p] \in {"user", "close r", "close w"}
      BY Zenon, <1>10 DEF ControlInv, TypeOK, fileclose
    <3>3. fds'[p] \subseteq fds[p]
      BY Zenon, <1>10 DEF ControlInv, TypeOK, fileclose
    <3>4. QED
      BY Zenon, <3>1, <3>2, <3>3 DEF ControlInv, CallInv, Reading, Writing
  <2>4. CloseInv'
    <3>1. ASSUME NEW q \in Procs
          PROVE  fds'[q] \subseteq fds[q] /\ (q # p => fds'[q] = fds[q] /\ pc'[q] = pc[q])
      BY Zenon, <1>10 DEF ControlInv, TypeOK, fileclose
    <3>2. CASE e = "r"
      <4>1. /\ "r" \notin fds'[p] /\ ("w" \in fds'[p] <=> "w" \in fds[p])
            /\ pc'[p] \in {"user", "close r"}
        BY Zenon, <1>10, <3>2 DEF ControlInv, TypeOK, fileclose
      <4>2. pc'[p] = "close r" => \A q \in Procs : "r" \notin fds'[q]
        BY Zenon, <1>10, <3>2 DEF ControlInv, TypeOK, fileclose
      <4>3. readopen = 1 /\ \A q \in Procs : pc[q] # "close r"
        BY Zenon, <1>10, <3>2 DEF ControlInv, TypeOK, CloseInv, Closing, fileclose
      <4>4. Closing(readopen, "r", "close r")'
        <5>1. readopen' = 1
          BY Zenon, <1>10, <4>3 DEF fileclose
        <5>2. \A q \in Procs : pc'[q] = "close r" => q = p
          BY Zenon, <3>1, <4>3
        <5>3. ASSUME NEW q \in Procs, pc'[q] = "close r"
              PROVE  \A r \in Procs : "r" \notin fds'[r] /\ (pc'[r] = "close r" => r = q)
          BY <4>2, <5>2, <5>3, Zenon
        <5>4. readopen' # 0
          BY <5>1
        <5>5. QED
          BY <5>1, <5>3, <5>4, Zenon DEF Closing
      <4>5. Closing(writeopen, "w", "close w")'
        <5>1. writeopen' = writeopen /\ pc[p] = "user"
          BY Zenon, <1>10 DEF fileclose
        <5>2. \A q \in Procs : /\ "w" \in fds'[q] <=> "w" \in fds[q]
                               /\ pc'[q] = "close w" <=> pc[q] = "close w"
          BY Zenon, <3>1, <4>1, <5>1
        <5>3. Closing(writeopen, "w", "close w")
          BY Zenon DEF ControlInv, CloseInv
        <5>4. QED
          BY Zenon, <5>1, <5>2, <5>3 DEF Closing
      <4>6. QED
        BY Zenon, <4>4, <4>5 DEF CloseInv
    <3>3. CASE e = "w"
      <4>1. /\ "w" \notin fds'[p] /\ ("r" \in fds'[p] <=> "r" \in fds[p])
            /\ pc'[p] \in {"user", "close w"}
        BY Zenon, <1>10, <3>3 DEF ControlInv, TypeOK, fileclose
      <4>2. pc'[p] = "close w" => \A q \in Procs : "w" \notin fds'[q]
        BY Zenon, <1>10, <3>3 DEF ControlInv, TypeOK, fileclose
      <4>3. writeopen = 1 /\ \A q \in Procs : pc[q] # "close w"
        BY Zenon, <1>10, <3>3 DEF ControlInv, TypeOK, CloseInv, Closing, fileclose
      <4>4. Closing(writeopen, "w", "close w")'
        <5>1. writeopen' = 1
          BY Zenon, <1>10, <4>3 DEF fileclose
        <5>2. \A q \in Procs : pc'[q] = "close w" => q = p
          BY Zenon, <3>1, <4>3
        <5>3. ASSUME NEW q \in Procs, pc'[q] = "close w"
              PROVE  \A r \in Procs : "w" \notin fds'[r] /\ (pc'[r] = "close w" => r = q)
          BY <4>2, <5>2, <5>3, Zenon
        <5>4. writeopen' # 0
          BY <5>1
        <5>5. QED
          BY <5>1, <5>3, <5>4, Zenon DEF Closing
      <4>5. Closing(readopen, "r", "close r")'
        <5>1. readopen' = readopen /\ pc[p] = "user"
          BY Zenon, <1>10 DEF fileclose
        <5>2. \A q \in Procs : /\ "r" \in fds'[q] <=> "r" \in fds[q]
                               /\ pc'[q] = "close r" <=> pc[q] = "close r"
          BY Zenon, <3>1, <4>1, <5>1
        <5>3. Closing(readopen, "r", "close r")
          BY Zenon DEF ControlInv, CloseInv
        <5>4. QED
          BY Zenon, <5>1, <5>2, <5>3 DEF Closing
      <4>6. QED
        BY Zenon, <4>4, <4>5 DEF CloseInv
    <3>4. QED
      BY Zenon, <3>2, <3>3
  <2>5. FreeInv'
    <3>1. \A q \in Procs : pc'[q] = "free" <=> pc[q] = "free"
      BY Zenon, <1>10 DEF ControlInv, TypeOK, fileclose
    <3>2. UNCHANGED <<readopen, writeopen, freed>>
      BY Zenon, <1>10 DEF fileclose
    <3>3. QED
      BY Zenon, <3>1, <3>2 DEF ControlInv, FreeInv
  <2>6. QED
    BY Zenon, <2>1, <2>2, <2>3, <2>4, <2>5 DEF ControlInv
<1>11. ASSUME NEW p \in Procs, pipeclose(p)
      PROVE  ControlInv'
  <2>1. TypeOK'
    <3>1. pc' \in [Procs -> PCs]
      BY Zenon, <1>11 DEF ControlInv, TypeOK, PCs, pipeclose, wakeup_writers, wakeup_readers, wakeup
    <3>2. CallType'
      BY Zenon, <1>11 DEF CallType, ControlInv, TypeOK, pipeclose, wakeup_writers, wakeup_readers, wakeup
    <3>3. RingType'
      BY Zenon, <1>11, Below DEF RingType, ControlInv, TypeOK, pipeclose, wakeup_writers, wakeup_readers,
             wakeup, ring
    <3>4. EndsType'
      BY Zenon, <1>11 DEF EndsType, ControlInv, TypeOK, FreeInv, pipeclose, wakeup_writers, wakeup_readers,
             wakeup, ends
    <3>5. QED
      BY Zenon, <3>1, <3>2, <3>3, <3>4 DEF TypeOK, CallType, RingType, EndsType
  <2>2. LockInv'
    BY ZenonT(40), <1>11 DEF ControlInv, TypeOK, PCs, LockInv, Critical, pipeclose, wakeup_writers,
           wakeup_readers, wakeup
  <2>3. CallInv'
    <3>1. pc'[p] \in {"user", "free"} /\ fds' = fds
      BY Zenon, <1>11 DEF ControlInv, TypeOK, pipeclose, wakeup_writers, wakeup_readers, wakeup
    <3>2. ASSUME NEW q \in Procs, q # p
          PROVE  pc'[q] = pc[q] \/ (pc[q] = "rasleep" /\ pc'[q] = "racquire")
                                \/ (pc[q] = "wasleep" /\ pc'[q] = "wacquire")
      BY Zenon, <1>11, <3>2 DEF ControlInv, TypeOK, pipeclose, wakeup_writers, wakeup_readers, wakeup
    <3>3. QED
      BY Zenon, <3>1, <3>2 DEF ControlInv, CallInv, Reading, Writing
  <2>4. CloseInv'
    <3>1. pc'[p] \in {"user", "free"} /\ pc[p] \in {"close r", "close w"}
      BY Zenon, <1>11 DEF ControlInv, TypeOK, pipeclose, wakeup_writers, wakeup_readers, wakeup
    <3>2. ASSUME NEW q \in Procs, q # p
          PROVE  \A at \in {"close r", "close w"} : pc'[q] = at <=> pc[q] = at
      BY Zenon, <1>11, <3>2 DEF ControlInv, TypeOK, pipeclose, wakeup_writers, wakeup_readers, wakeup
    <3>3. CASE pc[p] = "close r"
      <4>1. readopen' = 0 /\ writeopen' = writeopen /\ fds' = fds
        BY Zenon, <1>11, <3>3 DEF pipeclose
      <4>2. \A q \in Procs : "r" \notin fds[q] /\ (pc[q] = "close r" => q = p)
        BY Zenon, <3>3 DEF ControlInv, CloseInv, Closing
      <4>3. \A q \in Procs : pc'[q] # "close r" /\ (pc'[q] = "close w" <=> pc[q] = "close w")
        BY Zenon, <3>1, <3>2, <3>3, <4>2
      <4>4. Closing(readopen, "r", "close r")'
        BY Zenon, <4>1, <4>2, <4>3 DEF Closing
      <4>5. Closing(writeopen, "w", "close w")'
        BY Zenon, <4>1, <4>3 DEF ControlInv, CloseInv, Closing
      <4>6. QED
        BY Zenon, <4>4, <4>5 DEF CloseInv
    <3>4. CASE pc[p] = "close w"
      <4>1. writeopen' = 0 /\ readopen' = readopen /\ fds' = fds
        BY Zenon, <1>11, <3>4 DEF pipeclose
      <4>2. \A q \in Procs : "w" \notin fds[q] /\ (pc[q] = "close w" => q = p)
        BY Zenon, <3>4 DEF ControlInv, CloseInv, Closing
      <4>3. \A q \in Procs : pc'[q] # "close w" /\ (pc'[q] = "close r" <=> pc[q] = "close r")
        BY Zenon, <3>1, <3>2, <3>4, <4>2
      <4>4. Closing(writeopen, "w", "close w")'
        BY Zenon, <4>1, <4>2, <4>3 DEF Closing
      <4>5. Closing(readopen, "r", "close r")'
        BY Zenon, <4>1, <4>3 DEF ControlInv, CloseInv, Closing
      <4>6. QED
        BY Zenon, <4>4, <4>5 DEF CloseInv
    <3>5. QED
      BY Zenon, <3>1, <3>3, <3>4
  <2>5. FreeInv'
    <3>1. freed = 0 /\ \A q \in Procs : pc[q] # "free"
      BY Zenon, <1>11 DEF ControlInv, TypeOK, CloseInv, Closing, FreeInv, pipeclose
    <3>2. \A q \in Procs : q # p => pc'[q] # "free"
      BY Zenon, <1>11, <3>1 DEF ControlInv, TypeOK, pipeclose, wakeup_writers, wakeup_readers, wakeup
    <3>3. freed' = 0 /\ (pc'[p] = "free" => readopen' = 0 /\ writeopen' = 0)
      BY ZenonT(40), <1>11, <3>1 DEF ControlInv, TypeOK, pipeclose, wakeup_writers, wakeup_readers, wakeup
    <3>4. QED
      BY <3>2, <3>3 DEF FreeInv
  <2>6. QED
    BY Zenon, <2>1, <2>2, <2>3, <2>4, <2>5 DEF ControlInv
<1>12. ASSUME NEW p \in Procs, pipeclose_kfree(p)
      PROVE  ControlInv'
  <2>1. TypeOK'
    <3>1. pc' \in [Procs -> PCs]
      BY Zenon, <1>12 DEF ControlInv, TypeOK, PCs, pipeclose_kfree
    <3>2. CallType'
      BY Zenon, <1>12 DEF CallType, ControlInv, TypeOK, pipeclose_kfree
    <3>3. RingType'
      BY Zenon, <1>12, Below DEF RingType, ControlInv, TypeOK, pipeclose_kfree, ring
    <3>4. EndsType'
      BY <1>12 DEF EndsType, ControlInv, TypeOK, FreeInv, pipeclose_kfree, ends
    <3>5. QED
      BY Zenon, <3>1, <3>2, <3>3, <3>4 DEF TypeOK, CallType, RingType, EndsType
  <2>2. LockInv'
    BY Zenon, <1>12 DEF ControlInv, TypeOK, PCs, LockInv, Critical, pipeclose_kfree
  <2>3. CallInv'
    BY Zenon, <1>12 DEF ControlInv, TypeOK, PCs, CallInv, Reading, Writing, pipeclose_kfree, ends
  <2>4. CloseInv'
    BY Zenon, <1>12 DEF ControlInv, TypeOK, CloseInv, Closing, pipeclose_kfree
  <2>5. FreeInv'
    BY ZenonT(40), <1>12 DEF ControlInv, TypeOK, CloseInv, Closing, FreeInv, pipeclose_kfree
  <2>6. QED
    BY Zenon, <2>1, <2>2, <2>3, <2>4, <2>5 DEF ControlInv
<1>13. ASSUME NEW p \in Procs, kill(p)
      PROVE  ControlInv'
  <2>1. TypeOK'
    <3>1. pc' \in [Procs -> PCs]
      BY Zenon, <1>13 DEF ControlInv, TypeOK, PCs, kill
    <3>2. CallType'
      BY Zenon, <1>13 DEF CallType, ControlInv, TypeOK, kill
    <3>3. RingType'
      BY Zenon, <1>13, Below DEF RingType, ControlInv, TypeOK, kill, ring
    <3>4. EndsType'
      BY Zenon, <1>13 DEF EndsType, ControlInv, TypeOK, FreeInv, kill, ends
    <3>5. QED
      BY Zenon, <3>1, <3>2, <3>3, <3>4 DEF TypeOK, CallType, RingType, EndsType
  <2>2. LockInv'
    BY Zenon, <1>13 DEF ControlInv, TypeOK, PCs, LockInv, Critical, kill
  <2>3. CallInv'
    BY Zenon, <1>13 DEF ControlInv, TypeOK, PCs, CallInv, Reading, Writing, kill, ends
  <2>4. EndsAlone
    BY Zenon, <1>13 DEF ControlInv, TypeOK, EndsAlone, kill
  <2>5. QED
    BY Zenon, <2>1, <2>2, <2>3, <2>4, EndsKept DEF ControlInv
<1>14. CASE UNCHANGED vars
  BY Zenon, <1>14 DEF vars, ring, ends, ControlInv, TypeOK, LockInv, CallInv, CloseInv, Closing,
         FreeInv
<1>15. QED
  BY Zenon, <1>1, <1>2, <1>3, <1>4, <1>5, <1>6, <1>7, <1>8, <1>9, <1>10, <1>11, <1>12, <1>13, <1>14 DEF 
         Next, step
-----------------------------------------------------------------------------
(* The ring: the two counters. *)

\* A counter that has been advanced by less than the modulus.
Wrap(x) == IF x < UintMod THEN x ELSE x - UintMod

\* % UintMod is Wrap on the sums of two counters.
LEMMA Wraps ==
  ASSUME NEW x \in 0 .. (2 * UintMod - 1)
  PROVE  x % UintMod = Wrap(x)
BY OnceRound, Constants DEF Wrap

\* What the code's tests say of the number of bytes in the ring.
RingOk == /\ Used \in 0 .. PIPESIZE
          /\ Count = Used
          /\ Empty <=> Used = 0
          /\ Full <=> Used = PIPESIZE

\* The subtraction of unsigned counters counts the bytes, and the two tests of
\* pipe.c compare that number with 0 and PIPESIZE.
LEMMA RingFacts == TypeOK /\ RingInv => RingOk
<1> SUFFICES ASSUME TypeOK, RingInv
             PROVE  RingOk
  BY Zenon
<1> USE Constants
<1>1. nread \in 0 .. UintMod - 1 /\ nwrite \in 0 .. UintMod - 1
  BY Zenon DEF TypeOK
<1>2. Used \in 0 .. PIPESIZE /\ (Empty <=> Used = 0)
  BY <1>1 DEF RingInv, Used, Empty
<1>3. Full <=> Used = PIPESIZE
  <2>1. nread + PIPESIZE \in 0 .. (2 * UintMod - 1)
    BY <1>1
  <2>2. (nread + PIPESIZE) % UintMod = Wrap(nread + PIPESIZE)
    BY <2>1, Wraps, Zenon
  <2>3. Full <=> nwrite = Wrap(nread + PIPESIZE)
    BY <2>2, Zenon DEF Full
  <2>4. QED
    BY <1>1, <2>3 DEF Wrap, Used
<1>4. Count = Used
  <2>1. CASE nread <= nwrite
    <3>1. nwrite - nread \in 0 .. (2 * UintMod - 1) /\ Wrap(nwrite - nread) = nwrite - nread
      BY <1>1, <2>1 DEF Wrap
    <3>2. (nwrite - nread) % UintMod = Wrap(nwrite - nread)
      BY <3>1, Wraps, Zenon
    <3>3. QED
      BY Zenon, <2>1, <3>1, <3>2 DEF Count, Used
  <2>2. CASE ~(nread <= nwrite)
    <3>1. /\ nwrite - nread + UintMod \in 0 .. (2 * UintMod - 1)
          /\ Wrap(nwrite - nread + UintMod) = nwrite - nread + UintMod
          /\ nwrite - nread \in Int /\ UintMod > 0 /\ 1 \in Int
          /\ nwrite - nread + UintMod * 1 = nwrite - nread + UintMod
      BY <1>1, <2>2 DEF Wrap
    <3>2. (nwrite - nread + UintMod) % UintMod = Wrap(nwrite - nread + UintMod)
      BY <3>1, Wraps, Zenon
    <3>3. (nwrite - nread + UintMod * 1) % UintMod = (nwrite - nread) % UintMod
      BY <3>1, RemainderPlus, Zenon
    <3>4. Count = nwrite - nread + UintMod
      BY <3>1, <3>2, <3>3, Zenon DEF Count
    <3>5. QED
      BY Zenon, <2>2, <3>4 DEF Used
  <2>3. QED
    BY Zenon, <2>1, <2>2
<1>5. QED
  BY Zenon, <1>2, <1>3, <1>4 DEF RingOk

\* piperead() takes one byte from a ring that is not empty.
LEMMA ReadUsed ==
  ASSUME TypeOK, RingInv, ~Empty, nread' = (nread + 1) % UintMod, nwrite' = nwrite
  PROVE  Used' = Used - 1
<1>1. /\ nread \in 0 .. UintMod - 1 /\ nwrite \in 0 .. UintMod - 1
      /\ nread + 1 \in 0 .. (2 * UintMod - 1)
  BY Constants DEF TypeOK
<1>2. nread' = Wrap(nread + 1)
  BY <1>1, Wraps, Zenon
<1>3. QED
  BY <1>1, <1>2, Constants DEF Wrap, Used, Empty

\* pipewrite() adds one byte to a ring that is not full.
LEMMA WriteUsed ==
  ASSUME TypeOK, RingInv, ~Full, nwrite' = (nwrite + 1) % UintMod, nread' = nread
  PROVE  Used' = Used + 1 /\ Used < PIPESIZE
<1>1. /\ nread \in 0 .. UintMod - 1 /\ nwrite \in 0 .. UintMod - 1
      /\ nwrite + 1 \in 0 .. (2 * UintMod - 1)
  BY Constants DEF TypeOK
<1>2. nwrite' = Wrap(nwrite + 1)
  BY <1>1, Wraps, Zenon
<1>3. Used \in 0 .. PIPESIZE /\ Used # PIPESIZE
  BY Zenon, RingFacts DEF RingOk
<1>4. QED
  BY <1>1, <1>2, <1>3, Constants DEF Wrap, Used

\* The ring changes where a byte is copied, and nowhere else.
LEMMA RingSteps ==
  ASSUME [Next]_vars
  PROVE  \/ UNCHANGED ring
         \/ \E p \in Procs : piperead_copy(p)
         \/ \E p \in Procs : \E b \in Bytes : pipewrite_copy(p, b)
BY Zenon DEF Next, vars, step, call, acquire, piperead_test, piperead_return, pipewrite_full,
       pipewrite_return, sleep, fileclose, pipeclose, pipeclose_kfree, kill

\* The ring never holds more than PIPESIZE bytes.
LEMMA RingStep == ControlInv /\ RingInv /\ [Next]_vars => RingInv'
<1> SUFFICES ASSUME ControlInv, RingInv, [Next]_vars
             PROVE  RingInv'
  BY Zenon
<1>1. CASE UNCHANGED ring
  BY Zenon, <1>1 DEF RingInv, Used, ring
<1>2. ASSUME NEW p \in Procs, piperead_copy(p)
      PROVE  RingInv'
  <2>1. Used' = Used - 1
    BY Zenon, <1>2, ReadUsed DEF ControlInv, piperead_copy
  <2>2. QED
    BY <2>1, RingFacts, Constants DEF ControlInv, RingOk, RingInv
<1>3. ASSUME NEW p \in Procs, NEW b \in Bytes, pipewrite_copy(p, b)
      PROVE  RingInv'
  <2>1. Used' = Used + 1 /\ Used < PIPESIZE
    BY Zenon, <1>3, WriteUsed DEF ControlInv, pipewrite_copy
  <2>2. QED
    BY <2>1, RingFacts, Constants DEF ControlInv, RingOk, RingInv
<1>4. QED
  BY Zenon, <1>1, <1>2, <1>3, RingSteps
-----------------------------------------------------------------------------
(* Sleep and wakeup. *)

\* No wakeup is lost in any step: who changes what a sleeper waits for holds the
\* lock and calls wakeup() before the release.
LEMMA WakeStep == ControlInv /\ WakeInv /\ [Next]_vars => WakeInv'
<1> SUFFICES ASSUME ControlInv, WakeInv, [Next]_vars
             PROVE  WakeInv'
  BY Zenon
<1> USE Constants
<1>0. /\ pc \in [Procs -> PCs] /\ lock \in Procs \cup {0}
      /\ \A q \in Procs : pc[q] \in Critical <=> lock = q
  BY Zenon DEF ControlInv, TypeOK, LockInv
<1>1. ASSUME NEW p \in Procs, NEW k \in Counts, call(p, k)
      PROVE  WakeInv'
  <2>1. (Empty' <=> Empty) /\ (Full' <=> Full)
    BY Zenon, <1>1 DEF call, ring, Empty, Full
  <2>2. SleepInv'
    BY Zenon, <1>0, <1>1, <2>1 DEF WakeInv, SleepInv, Critical, call, ends
  <2>3. NoLostWakeup'
    BY ZenonT(40), <1>0, <1>1, <2>1 DEF WakeInv, SleepInv, NoLostWakeup, Critical, call, ends
  <2>4. QED
    BY Zenon, <2>2, <2>3 DEF WakeInv
<1>2. ASSUME NEW p \in Procs, acquire(p)
      PROVE  WakeInv'
  <2>1. (Empty' <=> Empty) /\ (Full' <=> Full)
    BY Zenon, <1>2 DEF acquire, ring, Empty, Full
  <2>2. SleepInv'
    BY Zenon, <1>0, <1>2, <2>1 DEF WakeInv, SleepInv, Critical, acquire, ends
  <2>3. NoLostWakeup'
    BY Zenon, <1>0, <1>2, <2>1 DEF WakeInv, SleepInv, NoLostWakeup, Critical, acquire, ends
  <2>4. QED
    BY Zenon, <2>2, <2>3 DEF WakeInv
<1>3. ASSUME NEW p \in Procs, piperead_test(p)
      PROVE  WakeInv'
  <2>1. (Empty' <=> Empty) /\ (Full' <=> Full)
    BY Zenon, <1>3 DEF piperead_test, ring, Empty, Full
  <2>2. SleepInv'
    BY Zenon, <1>0, <1>3, <2>1 DEF WakeInv, SleepInv, Critical, piperead_test, return, ends
  <2>3. NoLostWakeup'
    BY Zenon, <1>0, <1>3, <2>1 DEF WakeInv, SleepInv, NoLostWakeup, Critical, piperead_test, return,
           ends
  <2>4. QED
    BY Zenon, <2>2, <2>3 DEF WakeInv
<1>4. ASSUME NEW p \in Procs, piperead_copy(p)
      PROVE  WakeInv'
  <2>1. lock = p /\ UNCHANGED <<pc, lock, killed>>
    BY Zenon, <1>0, <1>4 DEF Critical, piperead_copy
  <2>2. SleepInv'
    BY Zenon, <1>0, <1>4, <2>1 DEF SleepInv, Critical, piperead_copy
  <2>3. NoLostWakeup'
    <3>1. /\ pc[p] = "rcopy" /\ ~Empty /\ p # 0
          /\ UNCHANGED <<writeopen, unwoken>>
      BY Zenon, <1>4 DEF piperead_copy, ends
    <3>2. \A q \in Procs : pc[q] = "rasleep" => q \in unwoken /\ writeopen = 1
      BY Zenon, <2>1, <3>1 DEF WakeInv, NoLostWakeup
    <3>3. QED
      BY Zenon, <2>1, <3>1, <3>2 DEF NoLostWakeup
  <2>4. QED
    BY Zenon, <2>2, <2>3 DEF WakeInv
<1>5. ASSUME NEW p \in Procs, piperead_return(p)
      PROVE  WakeInv'
  <2>1. (Empty' <=> Empty) /\ (Full' <=> Full)
    BY Zenon, <1>5 DEF piperead_return, ring, Empty, Full
  <2>2. SleepInv'
    BY Zenon, <1>0, <1>5, <2>1 DEF WakeInv, SleepInv, Critical, piperead_return, return,
           wakeup_writers, wakeup, ends
  <2>3. NoLostWakeup'
    BY Zenon, <1>0, <1>5, <2>1 DEF WakeInv, SleepInv, NoLostWakeup, Critical, piperead_return,
           return, wakeup_writers, wakeup, ends
  <2>4. QED
    BY Zenon, <2>2, <2>3 DEF WakeInv
<1>6. ASSUME NEW p \in Procs, NEW b \in Bytes, pipewrite_copy(p, b)
      PROVE  WakeInv'
  <2>1. lock = p /\ UNCHANGED <<pc, lock, killed>>
    BY Zenon, <1>0, <1>6 DEF Critical, pipewrite_copy
  <2>2. SleepInv'
    BY Zenon, <1>0, <1>6, <2>1 DEF SleepInv, Critical, pipewrite_copy
  <2>3. NoLostWakeup'
    BY Zenon, <1>0, <1>6, <2>1 DEF WakeInv, NoLostWakeup, pipewrite_copy
  <2>4. QED
    BY Zenon, <2>2, <2>3 DEF WakeInv
<1>7. ASSUME NEW p \in Procs, pipewrite_full(p)
      PROVE  WakeInv'
  <2>1. (Empty' <=> Empty) /\ (Full' <=> Full)
    BY Zenon, <1>7 DEF pipewrite_full, ring, Empty, Full
  <2>2. lock = p /\ readopen' = readopen /\ killed' = killed
    BY Zenon, <1>0, <1>7 DEF Critical, pipewrite_full, ends
  <2>3. CASE readopen = 0 \/ killed[p] = 1
    <3>1. pc' = [pc EXCEPT ![p] = "user"] /\ lock' = 0
      BY Zenon, <1>7, <2>3 DEF pipewrite_full, return
    <3>2. SleepInv'
      BY Zenon, <1>0, <2>2, <3>1 DEF SleepInv, Critical
    <3>3. ~(\E q \in Procs : pc[q] = "wasleep") \/ (Full /\ readopen = 1)
      BY Zenon, <1>0, <1>7, <2>2 DEF WakeInv, NoLostWakeup, pipewrite_full
    <3>4. CASE readopen = 0
      <4>1. \A q \in Procs : pc[q] # "rasleep"
        BY Zenon, <3>4 DEF ControlInv, CallInv, CloseInv, Closing, Reading
      <4>2. QED
        BY SMTT(30), <1>0, <3>1, <3>2, <3>3, <3>4, <4>1 DEF WakeInv, NoLostWakeup
    <3>5. CASE killed[p] = 1
      <4>1. /\ writeopen' = 1
            /\ \A q \in Procs : pc'[q] = "rasleep" => q \in unwoken'
        <5>1. writeopen = 1 /\ writeopen' = writeopen
          BY Zenon, <1>7 DEF ControlInv, TypeOK, CallInv, CloseInv, Closing, Writing,
                 pipewrite_full, ends
        <5>2. unwoken' = {q \in Procs : pc[q] = "rasleep"}
          BY Zenon, <1>7, <2>3 DEF pipewrite_full
        <5>3. QED
          BY Zenon, <1>0, <3>1, <5>1, <5>2
      <4>2. (\E q \in Procs : pc'[q] = "wasleep") => Full' /\ readopen' = 1
        BY Zenon, <1>0, <2>1, <2>2, <3>1, <3>3
      <4>3. QED
        BY Zenon, <3>2, <4>1, <4>2 DEF WakeInv, NoLostWakeup
    <3>6. QED
      BY Zenon, <2>3, <3>4, <3>5
  <2>4. CASE ~(readopen = 0 \/ killed[p] = 1)
    <3>1. pc' = [wakeup_readers EXCEPT ![p] = "wsleep"]
      BY Zenon, <1>7, <2>4 DEF pipewrite_full
    <3>2. /\ pc'[p] = "wsleep"
          /\ \A q \in Procs : /\ pc'[q] # "rasleep"
                              /\ q # p => pc'[q] # "wsleep" /\ pc'[q] # "rsleep"
      BY Zenon, <1>0, <2>2, <3>1 DEF wakeup_readers, wakeup, Critical
    <3>3. Full' /\ readopen' = 1
      BY Zenon, <1>7, <2>1, <2>2, <2>4 DEF pipewrite_full, ControlInv, TypeOK
    <3>4. SleepInv'
      BY Zenon, <3>2, <3>3 DEF SleepInv
    <3>5. NoLostWakeup'
      BY Zenon, <3>2, <3>3 DEF NoLostWakeup
    <3>6. QED
      BY Zenon, <3>4, <3>5 DEF WakeInv
  <2>5. QED
    BY Zenon, <2>3, <2>4
<1>8. ASSUME NEW p \in Procs, pipewrite_return(p)
      PROVE  WakeInv'
  <2>1. (Empty' <=> Empty) /\ (Full' <=> Full)
    BY Zenon, <1>8 DEF pipewrite_return, ring, Empty, Full
  <2>2. SleepInv'
    BY Zenon, <1>0, <1>8, <2>1 DEF WakeInv, SleepInv, Critical, pipewrite_return, return,
           wakeup_readers, wakeup, ends
  <2>3. NoLostWakeup'
    BY Zenon, <1>0, <1>8, <2>1 DEF WakeInv, SleepInv, NoLostWakeup, Critical, pipewrite_return,
           return, wakeup_readers, wakeup, ends
  <2>4. QED
    BY Zenon, <2>2, <2>3 DEF WakeInv
<1>9. ASSUME NEW p \in Procs, sleep(p)
      PROVE  WakeInv'
  <2>1. (Empty' <=> Empty) /\ (Full' <=> Full)
    BY Zenon, <1>9 DEF sleep, ring, Empty, Full
  <2>2. SleepInv'
    BY Zenon, <1>0, <1>9, <2>1 DEF WakeInv, SleepInv, Critical, sleep, ends
  <2>3. NoLostWakeup'
    BY Zenon, <1>0, <1>9, <2>1 DEF WakeInv, SleepInv, NoLostWakeup, Critical, sleep, ends
  <2>4. QED
    BY Zenon, <2>2, <2>3 DEF WakeInv
<1>10. ASSUME NEW p \in Procs, NEW e \in {"r", "w"}, fileclose(p, e)
      PROVE  WakeInv'
  <2>1. (Empty' <=> Empty) /\ (Full' <=> Full)
    BY Zenon, <1>10 DEF fileclose, ring, Empty, Full
  <2>2. SleepInv'
    BY Zenon, <1>0, <1>10, <2>1 DEF WakeInv, SleepInv, Critical, fileclose, ends
  <2>3. NoLostWakeup'
    BY Zenon, <1>0, <1>10, <2>1 DEF WakeInv, SleepInv, NoLostWakeup, Critical, fileclose, ends
  <2>4. QED
    BY Zenon, <2>2, <2>3 DEF WakeInv
<1>11. ASSUME NEW p \in Procs, pipeclose(p)
      PROVE  WakeInv'
  <2>1. (Empty' <=> Empty) /\ (Full' <=> Full)
    BY Zenon, <1>11 DEF pipeclose, ring, Empty, Full
  <2>2. SleepInv'
    BY Zenon, <1>0, <1>11, <2>1 DEF WakeInv, SleepInv, Critical, pipeclose, wakeup_writers,
           wakeup_readers, wakeup, ends
  <2>3. NoLostWakeup'
    BY ZenonT(40), <1>0, <1>11, <2>1 DEF WakeInv, SleepInv, NoLostWakeup, Critical, pipeclose,
           wakeup_writers, wakeup_readers, wakeup, ends
  <2>4. QED
    BY Zenon, <2>2, <2>3 DEF WakeInv
<1>12. ASSUME NEW p \in Procs, pipeclose_kfree(p)
      PROVE  WakeInv'
  <2>1. (Empty' <=> Empty) /\ (Full' <=> Full)
    BY Zenon, <1>12 DEF pipeclose_kfree, ring, Empty, Full
  <2>2. SleepInv'
    BY Zenon, <1>0, <1>12, <2>1 DEF WakeInv, SleepInv, Critical, pipeclose_kfree, ends
  <2>3. NoLostWakeup'
    BY Zenon, <1>0, <1>12, <2>1 DEF WakeInv, SleepInv, NoLostWakeup, Critical, pipeclose_kfree, ends
  <2>4. QED
    BY Zenon, <2>2, <2>3 DEF WakeInv
<1>13. ASSUME NEW p \in Procs, kill(p)
      PROVE  WakeInv'
  <2>1. (Empty' <=> Empty) /\ (Full' <=> Full)
    BY Zenon, <1>13 DEF kill, ring, Empty, Full
  <2>2. SleepInv'
    BY Zenon, <1>0, <1>13, <2>1 DEF WakeInv, SleepInv, Critical, kill, ends
  <2>3. NoLostWakeup'
    BY SMTT(30), <1>0, <1>13, <2>1 DEF WakeInv, SleepInv, NoLostWakeup, Critical, kill, ends
  <2>4. QED
    BY Zenon, <2>2, <2>3 DEF WakeInv
<1>14. CASE UNCHANGED vars
  BY Zenon, <1>14 DEF vars, ring, ends, WakeInv, SleepInv, NoLostWakeup, Empty, Full
<1>15. QED
  BY ZenonT(40), <1>1, <1>2, <1>3, <1>4, <1>5, <1>6, <1>7, <1>8, <1>9, <1>10, <1>11, <1>12, <1>13, <1>14 DEF 
         Next, step
-----------------------------------------------------------------------------
(* What holds in every state. *)

\* A new pipe: pipealloc() has set both ends open and the counters to zero.
LEMMA InitInv == Init => PipeInv
<1> SUFFICES ASSUME Init
             PROVE  PipeInv
  BY Zenon
<1> USE Constants
<1>1. TypeOK
  BY DEF Init, TypeOK, PCs
<1>2. LockInv /\ CallInv /\ SleepInv /\ NoLostWakeup
  BY Zenon DEF Init, LockInv, CallInv, SleepInv, NoLostWakeup, Critical, Reading, Writing
<1>3. CloseInv /\ FreeInv
  BY DEF Init, CloseInv, Closing, FreeInv
<1>4. RingInv
  BY DEF Init, RingInv, Used
<1>5. QED
  BY Zenon, <1>1, <1>2, <1>3, <1>4 DEF PipeInv, ControlInv, WakeInv

\* The invariant holds in every state of the pipe.
LEMMA PipeInvariant == Spec => []PipeInv
<1>1. PipeInv /\ [Next]_vars => PipeInv'
  BY Zenon, ControlStep, RingStep, WakeStep DEF PipeInv
<1>2. QED
  BY InitInv, <1>1, PTL DEF Spec

\* The variables keep their types: the counters stay below the modulus, a call
\* never moves more bytes than it was asked for, and the pipe is freed at most once.
THEOREM TypeCorrect == Spec => []TypeOK
<1>1. PipeInv => TypeOK
  BY Zenon DEF PipeInv, ControlInv
<1>2. QED
  BY <1>1, PipeInvariant, PTL

\* A process sleeps in piperead() or pipewrite() only while it has to, or while the one
\* who will wake it holds the lock, for any number of readers and writers and any size
\* of the ring.  The readers that a killed writer leaves asleep are the only exception,
\* and it ends with the next write or the last close of the write end.
THEOREM WakeupsKept == Spec => []NoLostWakeup
<1>1. PipeInv => NoLostWakeup
  BY Zenon DEF PipeInv, WakeInv
<1>2. QED
  BY <1>1, PipeInvariant, PTL

\* pipeclose() frees the pipe once, when no process is in a call on it or has an
\* end of it open, for any number of processes that share the two ends.
THEOREM FreedOnce == Spec => []FreedUnused
<1>1. PipeInv => FreedUnused
  <2> SUFFICES ASSUME PipeInv
               PROVE  FreedUnused
    BY Zenon
  <2> DEFINE Freeing == {p \in Procs : pc[p] = "free"}
  <2>1. freed \in {0, 1} /\ readopen \in {0, 1} /\ writeopen \in {0, 1}
    BY Zenon DEF PipeInv, ControlInv, TypeOK
  <2>2. SUFFICES ASSUME freed = 1 \/ \E p \in Procs : pc[p] = "free"
                 PROVE  /\ lock = 0 /\ readopen = 0 /\ writeopen = 0
                        /\ \A p \in Procs : pc[p] \in {"user", "free"} /\ fds[p] = {}
                        /\ freed + Cardinality(Freeing) = 1
    BY <2>1 DEF FreedUnused
  <2> HIDE DEF Freeing
  <2>3. readopen = 0 /\ writeopen = 0
    BY Zenon, <2>2 DEF PipeInv, ControlInv, FreeInv
  <2>4. \A p \in Procs : fds[p] = {} /\ pc[p] # "close r" /\ pc[p] # "close w"
    <3>1. \A p \in Procs : "r" \notin fds[p] /\ pc[p] # "close r"
      BY Zenon, <2>3 DEF PipeInv, ControlInv, CloseInv, Closing
    <3>2. \A p \in Procs : "w" \notin fds[p] /\ pc[p] # "close w"
      BY Zenon, <2>3 DEF PipeInv, ControlInv, CloseInv, Closing
    <3>3. \A p \in Procs : fds[p] \subseteq {"r", "w"}
      BY Zenon DEF PipeInv, ControlInv, TypeOK
    <3>4. QED
      BY Zenon, <3>1, <3>2, <3>3
  <2>5. \A p \in Procs : pc[p] \in {"user", "free"}
    BY Zenon, <2>4 DEF PipeInv, ControlInv, TypeOK, PCs, CallInv, Reading, Writing
  <2>6. lock = 0
    BY Zenon, <2>5 DEF PipeInv, ControlInv, TypeOK, LockInv, Critical
  <2>7. CASE freed = 1
    <3>1. Freeing = {}
      BY Zenon, <2>7 DEF Freeing, PipeInv, ControlInv, FreeInv
    <3>2. Cardinality(Freeing) = 0
      BY <3>1, FS_EmptySet, Zenon
    <3>3. freed + Cardinality(Freeing) = 1
      BY <2>7, <3>2
    <3>4. QED
      BY <2>3, <2>4, <2>5, <2>6, <3>3, Zenon
  <2>8. CASE \E p \in Procs : pc[p] = "free"
    <3>1. PICK p \in Procs : pc[p] = "free"
      BY Zenon, <2>8
    <3>2. freed = 0 /\ Freeing = {p}
      BY Zenon, <3>1 DEF Freeing, PipeInv, ControlInv, FreeInv
    <3>3. Cardinality(Freeing) = 1
      BY <3>2, FS_Singleton, Zenon
    <3>4. freed + Cardinality(Freeing) = 1
      BY <3>2, <3>3
    <3>5. QED
      BY <2>3, <2>4, <2>5, <2>6, <3>4, Zenon
  <2>9. QED
    BY Zenon, <2>2, <2>7, <2>8
<1>2. QED
  BY <1>1, PipeInvariant, PTL
-----------------------------------------------------------------------------
(* The ring is a channel. *)

\* A counter that comes round the modulus stays at its place in the ring, since
\* the modulus is a multiple of the size.
LEMMA SamePlace ==
  ASSUME NEW x \in Int
  PROVE  (x - UintMod) % PIPESIZE = x % PIPESIZE
<1> DEFINE m == UintMod \div PIPESIZE
<1>1. m \in Int /\ UintMod = PIPESIZE * m
  BY PipeAssumption, Z3
<1>2. -m \in Int /\ x - UintMod = x + PIPESIZE * (-m) /\ PIPESIZE \in Nat /\ PIPESIZE > 0
  BY <1>1, Constants, Z3
<1> HIDE DEF m
<1>3. (x + PIPESIZE * (-m)) % PIPESIZE = x % PIPESIZE
  BY <1>2, RemainderPlus, Zenon
<1>4. QED
  BY <1>2, <1>3, Zenon

\* The next byte is written Used places after the next one that is read.
LEMMA WritePlace ==
  ASSUME TypeOK, RingInv
  PROVE  nwrite % PIPESIZE = (nread + Used) % PIPESIZE
<1>1. nread \in 0 .. UintMod - 1 /\ nwrite \in 0 .. UintMod - 1
  BY Zenon DEF TypeOK
<1>2. CASE nread <= nwrite
  BY <1>1, <1>2, Constants DEF Used
<1>3. CASE ~(nread <= nwrite)
  <2>1. nread + Used \in Int /\ nwrite = (nread + Used) - UintMod
    BY <1>1, <1>3, Constants DEF Used
  <2>2. QED
    BY <2>1, SamePlace, Zenon
<1>4. QED
  BY Zenon, <1>2, <1>3

\* The bytes from nread on, as a sequence.
ContentsOk == /\ Contents \in Seq(Bytes)
              /\ Len(Contents) = Used
              /\ \A k \in 1 .. Used : Contents[k] = data[(nread + (k - 1)) % PIPESIZE]

\* The ring holds a sequence of Used bytes.
LEMMA ContentsSeq == TypeOK /\ RingInv => ContentsOk
<1> SUFFICES ASSUME TypeOK, RingInv
             PROVE  ContentsOk
  BY Zenon
<1>1. Used \in Nat /\ Count = Used
  BY RingFacts, Constants DEF RingOk
<1>2. Contents = [k \in 1 .. Used |-> data[(nread + (k - 1)) % PIPESIZE]]
  BY <1>1, Zenon DEF Contents
<1>3. \A k \in 1 .. Used : data[(nread + (k - 1)) % PIPESIZE] \in Bytes
  <2> TAKE k \in 1 .. Used
  <2>1. nread + (k - 1) \in Nat /\ data \in [0 .. PIPESIZE - 1 -> Bytes]
    BY <1>1 DEF TypeOK
  <2>2. (nread + (k - 1)) % PIPESIZE \in 0 .. PIPESIZE - 1
    BY <2>1, Below, Zenon
  <2>3. QED
    BY <2>1, <2>2, Zenon
<1>4. QED
  BY <1>1, <1>2, <1>3 DEF ContentsOk

\* pipewrite() appends its byte to the bytes in the ring.
LEMMA CopyAppends ==
  ASSUME ControlInv, RingInv, [Next]_vars,
         NEW p \in Procs, NEW b \in Bytes, pipewrite_copy(p, b)
  PROVE  Contents' = Append(Contents, b) /\ Len(Contents) < PIPESIZE
<1>1. /\ data' = [data EXCEPT ![nwrite % PIPESIZE] = b] /\ nread' = nread
      /\ nwrite' = (nwrite + 1) % UintMod /\ ~Full
      /\ data \in [0 .. PIPESIZE - 1 -> Bytes] /\ nread \in Nat /\ nwrite \in Nat
  BY Constants DEF pipewrite_copy, ControlInv, TypeOK
<1>2. Used \in Nat /\ Used' = Used + 1 /\ Used < PIPESIZE
  BY <1>1, WriteUsed, RingFacts, Constants DEF ControlInv, RingOk
<1>3. ContentsOk /\ ContentsOk'
  BY ControlStep, RingStep, ContentsSeq, PTL DEF ControlInv
<1>4. /\ Contents \in Seq(Bytes) /\ Contents' \in Seq(Bytes)
      /\ Len(Contents) = Used /\ Len(Contents') = Used + 1
  BY Zenon, <1>2, <1>3 DEF ContentsOk
<1>5. nwrite % PIPESIZE = (nread + Used) % PIPESIZE /\ nwrite % PIPESIZE \in 0 .. PIPESIZE - 1
  BY Zenon, <1>1, WritePlace, Below DEF ControlInv
<1>6. ASSUME NEW k \in 1 .. Used
      PROVE  Contents'[k] = Contents[k]
  <2>1. /\ nread + (k - 1) \in Int /\ nread + Used \in Int
        /\ k \in 1 .. Used' /\ nread + (k - 1) \in Nat
        /\ nread + (k - 1) < nread + Used /\ nread + Used < nread + (k - 1) + PIPESIZE
    BY <1>1, <1>2, Constants
  <2>2. (nread + (k - 1)) % PIPESIZE # (nread + Used) % PIPESIZE
    BY <2>1, RemainderDistinct, Constants, Zenon
  <2>3. (nread + (k - 1)) % PIPESIZE \in 0 .. PIPESIZE - 1
    BY <2>1, Below, Zenon
  <2>4. data'[(nread + (k - 1)) % PIPESIZE] = data[(nread + (k - 1)) % PIPESIZE]
    BY <1>1, <1>5, <2>2, <2>3, Zenon
  <2>5. Contents'[k] = data'[(nread' + (k - 1)) % PIPESIZE]
    BY <1>3, <2>1, Zenon DEF ContentsOk
  <2>6. Contents[k] = data[(nread + (k - 1)) % PIPESIZE]
    BY <1>3, Zenon DEF ContentsOk
  <2>7. QED
    BY <1>1, <2>4, <2>5, <2>6, Zenon
<1>7. Contents'[Used + 1] = b
  <2>1. Used + 1 \in 1 .. Used' /\ nread + ((Used + 1) - 1) = nread + Used
    BY <1>1, <1>2
  <2>2. Contents'[Used + 1] = data'[(nread' + ((Used + 1) - 1)) % PIPESIZE]
    BY <1>3, <2>1, Zenon DEF ContentsOk
  <2>3. Contents'[Used + 1] = data'[nwrite % PIPESIZE]
    BY <1>1, <1>5, <2>1, <2>2, Zenon
  <2>4. QED
    BY <1>1, <1>5, <2>3, Zenon
<1> HIDE DEF Contents
<1>8. /\ Append(Contents, b) \in Seq(Bytes) /\ Len(Append(Contents, b)) = Used + 1
      /\ \A k \in 1 .. (Used + 1) : Append(Contents, b)[k] = Contents'[k]
  BY SMTT(30), <1>2, <1>4, <1>6, <1>7, AppendProperties
<1>9. QED
  BY Zenon, <1>2, <1>4, <1>8, SeqEqual

\* piperead() takes the first of the bytes in the ring.
LEMMA CopyTakesHead ==
  ASSUME ControlInv, RingInv, [Next]_vars, NEW p \in Procs, piperead_copy(p)
  PROVE  Contents # <<>> /\ Contents' = Tail(Contents)
<1>1. /\ data' = data /\ nread' = (nread + 1) % UintMod /\ nwrite' = nwrite /\ ~Empty
      /\ nread \in 0 .. UintMod - 1
  BY Zenon DEF piperead_copy, ControlInv, TypeOK
<1>2. Used \in Nat /\ Used > 0 /\ Used' = Used - 1
  BY <1>1, ReadUsed, RingFacts, Constants DEF ControlInv, RingOk
<1>3. ContentsOk /\ ContentsOk'
  BY ControlStep, RingStep, ContentsSeq, PTL DEF ControlInv
<1>4. /\ Contents \in Seq(Bytes) /\ Contents' \in Seq(Bytes)
      /\ Len(Contents) = Used /\ Len(Contents') = Used - 1
  BY Zenon, <1>2, <1>3 DEF ContentsOk
<1>5. nread' = Wrap(nread + 1)
  <2>1. nread + 1 \in 0 .. (2 * UintMod - 1)
    BY <1>1, Constants
  <2>2. QED
    BY <1>1, <2>1, Wraps, Zenon
<1>6. ASSUME NEW k \in 1 .. (Used - 1)
      PROVE  Contents'[k] = Contents[k + 1]
  <2>1. /\ k \in 1 .. Used' /\ k + 1 \in 1 .. Used /\ nread + ((k + 1) - 1) \in Int
        /\ \/ nread' + (k - 1) = nread + ((k + 1) - 1)
           \/ nread' + (k - 1) = (nread + ((k + 1) - 1)) - UintMod
    BY <1>1, <1>2, <1>5, Constants DEF Wrap
  <2>2. (nread' + (k - 1)) % PIPESIZE = (nread + ((k + 1) - 1)) % PIPESIZE
    BY <2>1, SamePlace, Zenon
  <2>3. Contents'[k] = data'[(nread' + (k - 1)) % PIPESIZE]
    BY <1>3, <2>1, Zenon DEF ContentsOk
  <2>4. Contents[k + 1] = data[(nread + ((k + 1) - 1)) % PIPESIZE]
    BY <1>3, <2>1, Zenon DEF ContentsOk
  <2>5. QED
    BY <1>1, <2>2, <2>3, <2>4, Zenon
<1> HIDE DEF Contents
<1>7. Contents # <<>>
  BY <1>2, <1>4
<1>8. /\ Tail(Contents) \in Seq(Bytes) /\ Len(Tail(Contents)) = Used - 1
      /\ \A k \in 1 .. (Used - 1) : Tail(Contents)[k] = Contents[k + 1]
  BY Zenon, <1>4, <1>7, HeadTailProperties
<1>9. QED
  BY Zenon, <1>4, <1>6, <1>7, <1>8, SeqEqual

\* The pipe is a bounded FIFO of bytes, for every size of the ring and every number
\* of processes: a byte written is read once and in its turn, whatever processes
\* sleep, are killed or close their ends in between.
THEOREM PipeIsChannel == Spec => ImplementsChannel
<1>1. Init => ByteStream!Open
  <2> SUFFICES ASSUME Init
               PROVE  Contents = <<>>
    BY Zenon DEF Init, ByteStream!Open
  <2>1. TypeOK /\ RingInv /\ Used = 0
    BY InitInv DEF PipeInv, ControlInv, Init, Used
  <2>2. Contents \in Seq(Bytes) /\ Len(Contents) = 0
    BY Zenon, <2>1, ContentsSeq DEF ContentsOk
  <2> HIDE DEF Contents
  <2>3. QED
    BY <2>2
<1>2. PipeInv /\ [Next]_vars => [ByteStream!Transfer]_<<Contents, readopen, writeopen>>
  <2> SUFFICES ASSUME PipeInv, [Next]_vars
               PROVE  [ByteStream!Transfer]_<<Contents, readopen, writeopen>>
    BY Zenon
  <2>0. ControlInv /\ RingInv
    BY Zenon DEF PipeInv
  <2>1. UNCHANGED ring => UNCHANGED Contents
    BY Zenon DEF ring, Contents, Count
  <2> HIDE DEF Contents
  <2>2. ASSUME NEW p \in Procs, piperead_copy(p)
        PROVE  ByteStream!Receive
    <3>1. "r" \in fds[p] /\ readopen \in {0, 1}
      BY Zenon, <2>0, <2>2 DEF ControlInv, TypeOK, CallInv, Reading, piperead_copy
    <3>2. readopen = 1
      BY Zenon, <2>0, <3>1 DEF ControlInv, CloseInv, Closing
    <3>3. Contents # <<>> /\ Contents' = Tail(Contents)
      BY Zenon, <2>0, <2>2, CopyTakesHead
    <3>4. QED
      BY Zenon, <2>2, <3>2, <3>3 DEF ByteStream!Receive, piperead_copy, ends
  <2>3. ASSUME NEW p \in Procs, NEW b \in Bytes, pipewrite_copy(p, b)
        PROVE  ByteStream!Send
    <3>1. "w" \in fds[p] /\ writeopen \in {0, 1}
      BY Zenon, <2>0, <2>3 DEF ControlInv, TypeOK, CallInv, Writing, pipewrite_copy
    <3>2. writeopen = 1
      BY Zenon, <2>0, <3>1 DEF ControlInv, CloseInv, Closing
    <3>3. Contents' = Append(Contents, b) /\ Len(Contents) < PIPESIZE
      BY Zenon, <2>0, <2>3, CopyAppends
    <3>4. QED
      BY Zenon, <2>3, <3>2, <3>3 DEF ByteStream!Send, pipewrite_copy, ends
  <2>4. ASSUME NEW p \in Procs, pipeclose(p)
        PROVE  ByteStream!CloseRead \/ ByteStream!CloseWrite
    <3>1. UNCHANGED Contents
      BY Zenon, <2>1, <2>4 DEF pipeclose
    <3>2. CASE pc[p] = "close r" /\ readopen' = 0 /\ UNCHANGED writeopen
      BY Zenon, <2>0, <3>1, <3>2 DEF ControlInv, CloseInv, Closing, ByteStream!CloseRead
    <3>3. CASE pc[p] = "close w" /\ writeopen' = 0 /\ UNCHANGED readopen
      BY Zenon, <2>0, <3>1, <3>3 DEF ControlInv, CloseInv, Closing, ByteStream!CloseWrite
    <3>4. QED
      BY Zenon, <2>4, <3>2, <3>3 DEF pipeclose
  <2>5. CASE UNCHANGED <<ring, readopen, writeopen>>
    BY Zenon, <2>1, <2>5
  <2>6. \/ UNCHANGED <<ring, readopen, writeopen>>
        \/ \E p \in Procs : piperead_copy(p) \/ pipeclose(p)
        \/ \E p \in Procs : \E b \in Bytes : pipewrite_copy(p, b)
    BY Zenon DEF Next, vars, step, call, acquire, piperead_test, piperead_return, pipewrite_full,
           pipewrite_return, sleep, fileclose, pipeclose_kfree, kill, ends
  <2>7. QED
    BY Zenon, <2>2, <2>3, <2>4, <2>5, <2>6 DEF ByteStream!Transfer
<1>3. QED
  BY <1>1, <1>2, PipeInvariant, PTL DEF Spec, ImplementsChannel, ByteStream!Channel,
         ByteStream!chanvars
=============================================================================
