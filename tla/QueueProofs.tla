------------------------------ MODULE QueueProofs ------------------------------
(***************************************************************************)
(* For every capacity and every set of items, the queue of queue_array.c   *)
(* keeps its indices in the array and implements a bounded FIFO queue.     *)
(***************************************************************************)
EXTENDS Queue, Remainders, SequenceTheorems, TLAPS

\* The indices and the type of the array.
QueueInv == QueueIndices /\ data \in [0..(capacity - 1) -> Items]

\* create_queue() establishes the invariant, and the two operations keep it.
LEMMA InvInit == create_queue => QueueInv
<1> SUFFICES ASSUME create_queue PROVE QueueInv
  BY Zenon
<1>1. capacity > 0 => (front + size) % capacity = 0
  BY CapacityAssumption, OnceRound DEF create_queue
<1>2. QED
  BY <1>1, CapacityAssumption DEF create_queue, QueueInv, QueueIndices

\* An index into the array after at most capacity places.
Round(x) == IF x < capacity THEN x ELSE x - capacity

\* % capacity is Round on the sums of two indices.
LEMMA Remainder ==
  ASSUME capacity > 0, NEW x \in 0..(2 * capacity - 1)
  PROVE  x % capacity = Round(x)
BY Zenon, OnceRound, CapacityAssumption DEF Round

\* queue_enqueue() advances back by one place, once round at most.
LEMMA InvEnqueue ==
  ASSUME QueueInv, NEW item \in Items, queue_enqueue(item)
  PROVE  QueueInv'
<1>1. CASE queue_full
  BY Zenon, <1>1 DEF queue_enqueue, QueueInv, QueueIndices
<1>2. CASE ~queue_full
  <2>1. /\ capacity \in Nat /\ capacity > 0 /\ size \in 0..(capacity - 1)
        /\ front \in 0..(capacity - 1) /\ back \in 0..(capacity - 1)
        /\ back = (front + size) % capacity
        /\ data \in [0..(capacity - 1) -> Items]
    BY <1>2, CapacityAssumption DEF QueueInv, QueueIndices, queue_full
  <2>2. /\ front' = front /\ size' = size + 1 /\ back' = (back + 1) % capacity
        /\ data' = [data EXCEPT ![back] = item]
    BY Zenon, <1>2 DEF queue_enqueue
  <2>3. /\ front + size \in 0..(2 * capacity - 1) /\ back + 1 \in 0..(2 * capacity - 1)
        /\ front' + size' \in 0..(2 * capacity - 1)
    BY <2>1, <2>2
  <2>4. back = Round(front + size) /\ back' = Round(back + 1)
    BY <2>1, <2>2, <2>3, Remainder, Zenon
  <2>5. (front' + size') % capacity = Round(front' + size')
    BY <2>1, <2>3, Remainder, Zenon
  <2>6. back' = Round(front' + size') /\ back' \in 0..(capacity - 1)
    BY <2>1, <2>2, <2>4 DEF Round
  <2>7. data' \in [0..(capacity - 1) -> Items]
    BY Zenon, <2>1, <2>2
  <2>8. QED
    BY <2>1, <2>2, <2>5, <2>6, <2>7 DEF QueueInv, QueueIndices
<1>3. QED
  BY Zenon, <1>1, <1>2

\* queue_dequeue() advances front by one place, once round at most.
LEMMA InvDequeue ==
  ASSUME QueueInv, queue_dequeue
  PROVE  QueueInv'
<1>1. CASE queue_empty
  BY Zenon, <1>1 DEF queue_dequeue, QueueInv, QueueIndices
<1>2. CASE ~queue_empty
  <2>1. /\ capacity \in Nat /\ capacity > 0 /\ size \in 1..capacity
        /\ front \in 0..(capacity - 1) /\ back \in 0..(capacity - 1)
        /\ back = (front + size) % capacity
        /\ data \in [0..(capacity - 1) -> Items]
    BY <1>2, CapacityAssumption DEF QueueInv, QueueIndices, queue_empty
  <2>2. /\ front' = (front + 1) % capacity /\ size' = size - 1 /\ back' = back
        /\ data' = data
    BY Zenon, <1>2 DEF queue_dequeue
  <2>3. front + size \in 0..(2 * capacity - 1) /\ front + 1 \in 0..(2 * capacity - 1)
    BY <2>1
  <2>4. back = Round(front + size) /\ front' = Round(front + 1)
    BY <2>1, <2>2, <2>3, Remainder, Zenon
  <2>5. front' \in 0..(capacity - 1) /\ front' + size' \in 0..(2 * capacity - 1)
    BY <2>1, <2>2, <2>4 DEF Round
  <2>6. (front' + size') % capacity = Round(front' + size')
    BY <2>1, <2>5, Remainder, Zenon
  <2>7. back = Round(front' + size')
    BY <2>1, <2>2, <2>4 DEF Round
  <2>8. QED
    BY <2>1, <2>2, <2>5, <2>6, <2>7 DEF QueueInv, QueueIndices
<1>3. QED
  BY Zenon, <1>1, <1>2

\* Hence the invariant of all reachable states.
LEMMA InvAlways == QueueSpec => []QueueInv
<1>1. QueueInv /\ [QueueNext]_qvars => QueueInv'
  <2> SUFFICES ASSUME QueueInv, [QueueNext]_qvars PROVE QueueInv'
    BY Zenon
  <2>1. CASE UNCHANGED qvars
    BY Zenon, <2>1 DEF qvars, QueueInv, QueueIndices
  <2>2. QED
    BY Zenon, <2>1, InvEnqueue, InvDequeue DEF QueueNext
<1>2. QED
  BY <1>1, InvInit, PTL DEF QueueSpec

\* front and back stay in the array, and back is size places after front, for
\* every capacity, zero included.
THEOREM IndicesInRing == QueueSpec => []QueueIndices
<1>1. QueueInv => QueueIndices
  BY Zenon DEF QueueInv
<1>2. QED
  BY <1>1, InvAlways, PTL

\* The items of the queue in order, as the refinement has them.
Contents == [k \in 1..size |-> data[(front + k - 1) % capacity]]

ContentsOk ==
  /\ Contents \in Seq(Items) /\ Len(Contents) = size
  /\ \A k \in 1..size : Contents[k] = data[Round(front + k - 1)]

\* They are a sequence of items, taken from the array from front on.
LEMMA ContentsSeq == QueueInv => ContentsOk
<1> SUFFICES ASSUME QueueInv PROVE ContentsOk
  BY Zenon
<1>1. \A k \in 1..size : /\ (front + k - 1) % capacity = Round(front + k - 1)
                          /\ Round(front + k - 1) \in 0..(capacity - 1)
  <2> SUFFICES ASSUME NEW k \in 1..size
               PROVE  /\ (front + k - 1) % capacity = Round(front + k - 1)
                      /\ Round(front + k - 1) \in 0..(capacity - 1)
    BY Zenon
  <2>1. /\ capacity > 0 /\ front + k - 1 \in 0..(2 * capacity - 1)
        /\ Round(front + k - 1) \in 0..(capacity - 1)
    BY CapacityAssumption DEF QueueInv, QueueIndices, Round
  <2>2. QED
    BY <2>1, Remainder, Zenon
<1>2. \A k \in 1..size : /\ Contents[k] = data[Round(front + k - 1)]
                          /\ Contents[k] \in Items
  BY Zenon, <1>1 DEF Contents, QueueInv
<1>3. size \in Nat /\ Contents = [k \in 1..size |-> Contents[k]]
  BY CapacityAssumption DEF Contents, QueueInv, QueueIndices
<1>4. QED
  BY <1>2, <1>3 DEF ContentsOk

\* queue_enqueue() puts the item after the last one, or changes nothing.
LEMMA EnqueueAppends ==
  ASSUME QueueInv, NEW item \in Items, queue_enqueue(item), ~queue_full
  PROVE  Contents' = Append(Contents, item)
<1>1. /\ capacity \in Nat /\ capacity > 0 /\ size \in 0..(capacity - 1)
      /\ front \in 0..(capacity - 1) /\ back = (front + size) % capacity
      /\ data \in [0..(capacity - 1) -> Items]
  BY CapacityAssumption DEF QueueInv, QueueIndices, queue_full
<1>2. front' = front /\ size' = size + 1 /\ data' = [data EXCEPT ![back] = item]
  BY Zenon DEF queue_enqueue
<1>3. front + size \in 0..(2 * capacity - 1)
  BY <1>1
<1>4. back = Round(front + size)
  BY <1>1, <1>3, Remainder, Zenon
<1>5. \A k \in 1..size : data'[Round(front + k - 1)] = data[Round(front + k - 1)]
  BY <1>1, <1>2, <1>4 DEF Round
<1>6. data'[Round(front + size)] = item
  BY <1>1, <1>2, <1>4 DEF Round
<1>7. QueueInv'
  BY Zenon, InvEnqueue
<1>8. ContentsOk /\ ContentsOk'
  BY <1>7, ContentsSeq, PTL
<1>9. /\ Contents \in Seq(Items) /\ Contents' \in Seq(Items)
      /\ Len(Contents) = size /\ Len(Contents') = size + 1
  BY Zenon, <1>2, <1>8 DEF ContentsOk
<1>10. /\ \A k \in 1..size : Contents'[k] = Contents[k]
       /\ Contents'[size + 1] = item
  <2>1. \A k \in 1..(size + 1) : Contents'[k] = data'[Round(front + k - 1)]
    BY Zenon, <1>2, <1>8 DEF ContentsOk, Round
  <2>2. \A k \in 1..size : Contents[k] = data[Round(front + k - 1)]
    BY Zenon, <1>8 DEF ContentsOk
  <2>3. size \in Nat /\ front \in Nat /\ front + (size + 1) - 1 = front + size
    BY <1>1
  <2>4. Contents'[size + 1] = item
    BY <1>6, <2>1, <2>3
  <2>5. ASSUME NEW k \in 1..size PROVE Contents'[k] = Contents[k]
    <3>1. k \in 1..(size + 1)
      BY <2>3
    <3>2. QED
      BY <3>1, <1>5, <2>1, <2>2, Zenon
  <2>6. QED
    BY Zenon, <2>4, <2>5
<1>11. /\ Append(Contents, item) \in Seq(Items) /\ Len(Append(Contents, item)) = size + 1
       /\ \A k \in 1..(size + 1) : Append(Contents, item)[k] = Contents'[k]
  <2> HIDE DEF Contents
  <2>1. QED
    BY <1>1, <1>9, <1>10, AppendProperties
<1>12. QED
  BY Zenon, <1>9, <1>11, SeqEqual

\* queue_dequeue() gives the first item and leaves the others in order.
LEMMA DequeueTakesHead ==
  ASSUME QueueInv, queue_dequeue, ~queue_empty
  PROVE  /\ Contents # <<>> /\ given' = <<Head(Contents)>>
         /\ Contents' = Tail(Contents)
<1>1. /\ capacity \in Nat /\ capacity > 0 /\ size \in 1..capacity
      /\ front \in 0..(capacity - 1)
  BY CapacityAssumption DEF QueueInv, QueueIndices, queue_empty
<1>2. /\ front' = (front + 1) % capacity /\ size' = size - 1 /\ data' = data
      /\ given' = <<data[front]>>
  BY Zenon DEF queue_dequeue
<1>3. front + 1 \in 0..(2 * capacity - 1)
  BY <1>1
<1>4. front' = Round(front + 1)
  BY <1>1, <1>2, <1>3, Remainder, Zenon
<1>5. \A k \in 1..(size - 1) : Round(front' + k - 1) = Round(front + (k + 1) - 1)
  BY <1>1, <1>4 DEF Round
<1>6. Round(front + 1 - 1) = front
  BY <1>1 DEF Round
<1>7. ContentsOk /\ ContentsOk'
  BY InvDequeue, ContentsSeq, PTL
<1>8. /\ Contents \in Seq(Items) /\ Contents' \in Seq(Items)
      /\ Len(Contents) = size /\ Len(Contents') = size - 1
  BY Zenon, <1>2, <1>7 DEF ContentsOk
<1>9. Contents[1] = data[front]
  BY <1>1, <1>6, <1>7 DEF ContentsOk
<1>10. \A k \in 1..(size - 1) : Contents'[k] = Contents[k + 1]
  <2>1. \A k \in 1..(size - 1) : Contents'[k] = data[Round(front' + k - 1)]
    BY Zenon, <1>2, <1>7 DEF ContentsOk, Round
  <2>2. \A k \in 1..size : Contents[k] = data[Round(front + k - 1)]
    BY Zenon, <1>7 DEF ContentsOk
  <2> TAKE k \in 1..(size - 1)
  <2>3. k + 1 \in 1..size
    BY <1>1
  <2>4. QED
    BY <1>5, <2>1, <2>2, <2>3, Zenon
<1>11. Contents # <<>> /\ Head(Contents) = Contents[1]
  <2> HIDE DEF Contents
  <2>1. QED
    BY <1>1, <1>8
<1>12. /\ Tail(Contents) \in Seq(Items) /\ Len(Tail(Contents)) = size - 1
       /\ \A k \in 1..(size - 1) : Tail(Contents)[k] = Contents[k + 1]
  BY Zenon, <1>8, <1>11, HeadTailProperties
<1>13. Contents' = Tail(Contents)
  BY Zenon, <1>8, <1>10, <1>12, SeqEqual
<1>14. QED
  BY Zenon, <1>2, <1>9, <1>11, <1>13

\* The array with its two indices is a bounded FIFO queue, for every capacity:
\* items come out in the order in which they went in, none is lost, none appears
\* twice, and a call is refused only when the queue is full or empty.
THEOREM QueueIsFifo == QueueSpec => ImplementsFifo
<1>1. create_queue => Fifo!Init
  BY DEF create_queue, Fifo!Init
<1>2. QueueInv /\ [QueueNext]_qvars => [Fifo!Next]_<<Contents, given>>
  <2> SUFFICES ASSUME QueueInv, [QueueNext]_qvars
               PROVE  [Fifo!Next]_<<Contents, given>>
    BY Zenon
  <2> HIDE DEF Contents
  <2>1. ContentsOk
    BY Zenon, ContentsSeq
  <2>2. CASE UNCHANGED qvars
    BY Zenon, <2>2 DEF qvars, Contents
  <2>3. ASSUME NEW item \in Items, queue_enqueue(item)
        PROVE  Fifo!Next
    <3>1. CASE queue_full
      BY Zenon, <2>1, <2>3, <3>1 DEF queue_enqueue, queue_full, ContentsOk, Contents, Fifo!Next, Fifo!Refuse
    <3>2. CASE ~queue_full
      <4>1. Contents' = Append(Contents, item) /\ given' = <<>>
        BY Zenon, <2>3, <3>2, EnqueueAppends DEF queue_enqueue
      <4>2. Len(Contents) < capacity
        BY <2>1, <3>2, CapacityAssumption DEF ContentsOk, QueueInv, QueueIndices, queue_full
      <4>3. QED
        BY Zenon, <2>3, <4>1, <4>2 DEF Contents, Fifo!Next, Fifo!Enqueue
    <3>3. QED
      BY Zenon, <3>1, <3>2
  <2>4. ASSUME queue_dequeue PROVE Fifo!Next
    <3>1. CASE queue_empty
      BY <2>1, <2>4, <3>1 DEF queue_dequeue, queue_empty, ContentsOk, Contents, Fifo!Next, Fifo!Refuse
    <3>2. CASE ~queue_empty
      BY Zenon, <2>4, <3>2, DequeueTakesHead DEF Contents, Fifo!Next, Fifo!Dequeue
    <3>3. QED
      BY Zenon, <3>1, <3>2
  <2>5. QED
    BY Zenon, <2>2, <2>3, <2>4 DEF QueueNext
<1>3. QED
  BY <1>1, <1>2, InvAlways, PTL DEF QueueSpec, ImplementsFifo, Fifo!Spec, Contents
=============================================================================
