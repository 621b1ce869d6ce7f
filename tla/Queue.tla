--------------------------------- MODULE Queue ---------------------------------
(***************************************************************************)
(* The bounded queue of Assignment 2, queue_array.c: an array used as a    *)
(* ring with a front, a back and a count.                                  *)
(***************************************************************************)
EXTENDS Integers, Sequences

CONSTANTS capacity, Items

VARIABLES data, front, back, size,   \* the struct
          given                      \* what queue_dequeue() returned last

qvars == <<data, front, back, size, given>>

ASSUME CapacityAssumption == capacity \in Nat

\* malloc() leaves the array as it is: any items.
create_queue ==
  /\ front = 0 /\ size = 0 /\ back = 0
  /\ data \in [0..(capacity - 1) -> Items] /\ given = <<>>

queue_full == size = capacity
queue_empty == size = 0

queue_enqueue(item) ==
  IF queue_full THEN given' = <<>> /\ UNCHANGED <<data, front, back, size>>
  ELSE /\ data' = [data EXCEPT ![back] = item]
       /\ back' = (back + 1) % capacity
       /\ size' = size + 1
       /\ given' = <<>> /\ UNCHANGED front

\* A plausible slip: the front does not come round.
queue_dequeue_straight ==
  IF queue_empty THEN given' = <<>> /\ UNCHANGED <<data, front, back, size>>
  ELSE /\ given' = <<data[front]>>
       /\ front' = IF front + 1 < capacity THEN front + 1 ELSE front
       /\ size' = size - 1 /\ UNCHANGED <<data, back>>

queue_dequeue ==
  IF queue_empty THEN given' = <<>> /\ UNCHANGED <<data, front, back, size>>
  ELSE /\ given' = <<data[front]>>
       /\ front' = (front + 1) % capacity
       /\ size' = size - 1 /\ UNCHANGED <<data, back>>

QueueNext == (\E item \in Items : queue_enqueue(item)) \/ queue_dequeue

QueueSpec == create_queue /\ [][QueueNext]_qvars

-----------------------------------------------------------------------------
\* The indices stay in the array and agree with the count: back is size places
\* after front, round the end.
QueueIndices ==
  /\ size \in 0..capacity
  /\ capacity > 0 => /\ front \in 0..(capacity - 1) /\ back \in 0..(capacity - 1)
                     /\ back = (front + size) % capacity

\* The ring is a bounded FIFO queue.
Fifo == INSTANCE BoundedFifo WITH
  Capacity <- capacity,
  contents <- [k \in 1..size |-> data[(front + k - 1) % capacity]]
ImplementsFifo == Fifo!Spec
=============================================================================
