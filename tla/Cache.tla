--------------------------------- MODULE Cache ---------------------------------
(***************************************************************************)
(* The cache simulators: simulator_fifo.c of Assignment 5, a cache of S    *)
(* sets of E lines with first-in first-out replacement, and the            *)
(* direct-mapped ones, simulator.c of Assignment 5 and of Lab 6.  They run *)
(* on one trace side by side.  An instruction is a string of BITWIDTH      *)
(* bits; the trace has a line for each of the ADDRESSES instructions.      *)
(***************************************************************************)
EXTENDS Integers, Sequences, SequencesExt

CONSTANTS BITWIDTH, ADDRESSES,
          SetStop, E,            \* the FIFO cache: bits 0..SetStop select the set; E lines
          IndexStart, IndexStop  \* the direct-mapped cache: bits that select the line

VARIABLES cacheSet, cacheOccupied, cacheHit, cacheMisses,    \* simulator_fifo.c
          cacheLines, occupied, directHit, directMisses,     \* simulator.c
          last,                                              \* last access, by line (history)
          PC

fifovars == <<cacheSet, cacheOccupied, cacheHit, cacheMisses>>
directvars == <<cacheLines, occupied, directHit, directMisses, last>>
cachevars == <<fifovars, directvars, PC>>

Instructions == [1..BITWIDTH -> {0, 1}]
Empty == <<>>

-----------------------------------------------------------------------------
\* binary.h; bin[0] is the most significant bit.
binaryStringToInt(bin, length) ==
  FoldLeftDomain(LAMBDA sum, i : sum + bin[i] * 2^(length - i - 1), 0, bin)

\* The bits from start to stop, of which the bit at start has the value 1.
binaryStringRangeToInt(bin, start, stop) ==
  FoldLeft(LAMBDA sum, counter : sum + bin[Len(bin) - start - counter] * 2^counter, 0,
           [k \in 1..(stop - start + 1) |-> k - 1])

intToBinaryString(i, bits) == [pos \in 1..bits |-> (i \div 2^(bits - pos)) % 2]

Set(a) == binaryStringRangeToInt(a, 0, SetStop)
Line(a) == binaryStringRangeToInt(a, IndexStart, IndexStop)
S == 2^(SetStop + 1)
Sets == 0..(S - 1)
DirectLines == 0..(2^(IndexStop - IndexStart + 1) - 1)

-----------------------------------------------------------------------------
\* simulator_fifo.c.  A set that is not full is filled from its end downwards; a
\* full one is shifted, and the new line comes first.
getInstructionPos(s, a) == {i \in 1..E : cacheSet[s][i] = a}

Hit == cacheHit' = cacheHit + 1 /\ UNCHANGED <<cacheSet, cacheOccupied, cacheMisses>>
Miss(s, lines) ==
  /\ cacheSet' = [cacheSet EXCEPT ![s] = lines]
  /\ cacheMisses' = cacheMisses + 1 /\ UNCHANGED cacheHit

ReplacementPolicy(s, a) ==
  IF cacheOccupied[s] # 0 /\ getInstructionPos(s, a) # {} THEN Hit
  ELSE /\ Miss(s, [cacheSet[s] EXCEPT ![E - cacheOccupied[s]] = a])
       /\ cacheOccupied' = [cacheOccupied EXCEPT ![s] = @ + 1]

\* A plausible slip: the new line takes the place of the newest.
evictionPolicy_newest(s, a) ==
  IF getInstructionPos(s, a) # {} THEN Hit
  ELSE Miss(s, [cacheSet[s] EXCEPT ![1] = a]) /\ UNCHANGED cacheOccupied

evictionPolicy(s, a) ==
  IF getInstructionPos(s, a) # {} THEN Hit
  ELSE /\ Miss(s, [i \in 1..E |-> IF i = 1 THEN a ELSE cacheSet[s][i - 1]])
       /\ UNCHANGED cacheOccupied

\* A set counts as full with S lines, the number of sets; the program has S = E.
checkCache(a) ==
  IF cacheOccupied[Set(a)] # S THEN ReplacementPolicy(Set(a), a) ELSE evictionPolicy(Set(a), a)

-----------------------------------------------------------------------------
\* simulator.c: a line that is not occupied is filled; another is compared, and
\* filled when it differs.
direct(l, a) ==
  /\ IF occupied[l] = 1 /\ cacheLines[l] = a
     THEN directHit' = directHit + 1 /\ UNCHANGED <<cacheLines, directMisses>>
     ELSE /\ cacheLines' = [cacheLines EXCEPT ![l] = a]
          /\ directMisses' = directMisses + 1 /\ UNCHANGED directHit
  /\ occupied' = [occupied EXCEPT ![l] = 1]
  /\ last' = [last EXCEPT ![l] = a]

checkCache_direct(a) == direct(Line(a), a)

-----------------------------------------------------------------------------
stepSimulator ==
  /\ PC < ADDRESSES /\ PC' = PC + 1
  /\ \E a \in Instructions : checkCache(a) /\ checkCache_direct(a)

CacheInit ==
  /\ cacheSet = [s \in Sets |-> [i \in 1..E |-> Empty]]
  /\ cacheOccupied = [s \in Sets |-> 0] /\ cacheHit = 0 /\ cacheMisses = 0
  /\ cacheLines = [l \in DirectLines |-> Empty] /\ occupied = [l \in DirectLines |-> 0]
  /\ directHit = 0 /\ directMisses = 0 /\ last = [l \in DirectLines |-> Empty] /\ PC = 0

CacheNext == stepSimulator

CacheSpec == CacheInit /\ [][CacheNext]_cachevars

-----------------------------------------------------------------------------
\* The conversions agree with the value of the bit string, and a range of bits
\* with the quotient and remainder that select it.
BitsRight ==
  \A v \in 0..(2^BITWIDTH - 1) :
    LET bin == intToBinaryString(v, BITWIDTH)
    IN /\ binaryStringToInt(bin, BITWIDTH + 1) = v
       /\ \A start, stop \in 0..(BITWIDTH - 1) : start <= stop =>
            binaryStringRangeToInt(bin, start, stop) = (v \div 2^start) % 2^(stop - start + 1)

\* simulator_fifo.c is a FIFO cache: the same lines stay, and the same accesses hit.
Ideal == INSTANCE FifoCache WITH
  Addresses <- Instructions, SetOf <- Set, Ways <- E, hits <- cacheHit,
  resident <- [s \in Sets |-> [k \in 1..cacheOccupied[s] |-> cacheSet[s][E + 1 - k]]]
ImplementsFifoCache == Ideal!Spec

\* The direct-mapped cache counts a hit exactly when the access before it to the
\* same line was of the same instruction, and both caches count every access once.
CountedOnce ==
  /\ directHit' # directHit <=> last' = last
  /\ directHit' + directMisses' = PC' /\ cacheHit' + cacheMisses' = PC'
AccessesCounted == [][CountedOnce]_cachevars

\* Both simulators compute what they simulate: simulator_fifo.c a FIFO cache,
\* simulator.c a direct-mapped one, and their counters are those of the trace.
CachesRight == ImplementsFifoCache /\ AccessesCounted
=============================================================================
