------------------------------- MODULE Console -------------------------------
(***************************************************************************)
(* The console driver, console.c: the input ring with its three indices,   *)
(* filled by the keyboard's and the serial line's interrupts and emptied   *)
(* by readers, and the cursor of the CGA screen.  cons.lock makes each     *)
(* character of an interrupt, and each stretch of a read up to sleep(), a  *)
(* single step; kill() does not take it, and may come between a reader's   *)
(* test of killed and its sleep().                                         *)
(***************************************************************************)
EXTENDS Integers, Sequences, FiniteSetsExt

CONSTANTS INPUT_BUF, UintMod,    \* size of the ring; uint counts modulo UintMod
          Letters,               \* ordinary characters
          Readers, Killable, ReadLens,
          COLS, ROWS             \* the screen: 80 and 25

VARIABLES ring, r, w, e,         \* input.buf and its indices
          rd,                    \* readers: pc, n, target
          slain,                 \* readers that were killed
          pos                    \* the cursor

convars == <<ring, r, w, e, rd, slain, pos>>

\* A read of no characters returns at once and changes nothing: it is left out.
ASSUME ConsoleAssumption ==
  /\ INPUT_BUF \in Nat \ {0}
  /\ UintMod \in Nat /\ UintMod > INPUT_BUF /\ UintMod % INPUT_BUF = 0
  /\ ReadLens \subseteq Nat \ {0}
  /\ COLS \in Nat \ {0} /\ ROWS \in Nat \ {0, 1}

NL == "nl"
EOT == "ctl-D"
Ends == {NL, EOT}
Plus(a, k) == (a + k) % UintMod
Minus(a, b) == (a - b) % UintMod
Slot(i) == i % INPUT_BUF

\* cons.lock is free: no reader is between its test of killed and its sleep().
Unlocked == \A p \in Readers : rd[p].pc # "drowsy"

-----------------------------------------------------------------------------
\* cgaputc(): the new cursor; the screen scrolls when it reaches the last row.
cgaputc(p, c) ==
  LET q == IF c = NL THEN p + COLS - (p % COLS)
           ELSE IF c = "backspace" THEN (IF p > 0 THEN p - 1 ELSE p)
           ELSE p + 1
  IN IF q \div COLS >= ROWS - 1 THEN q - COLS ELSE q

\* consputc() of k backspaces.
Erased(k) == pos' = IF pos > k THEN pos - k ELSE 0

\* consoleintr() with an ordinary character; Full are the edit indices at which the
\* line is given to the readers because the ring is full.
input_char(c, Full) ==
  /\ Unlocked /\ Minus(e, r) < INPUT_BUF
  /\ ring' = [ring EXCEPT ![Slot(e)] = c]
  /\ e' = Plus(e, 1)
  /\ pos' = cgaputc(pos, c)
  /\ IF c \in Ends \/ Plus(e, 1) \in Full
     THEN /\ w' = Plus(e, 1)
          /\ rd' = [p \in Readers |-> IF rd[p].pc = "asleep" THEN [rd[p] EXCEPT !.pc = "read"]
                                      ELSE rd[p]]
     ELSE UNCHANGED <<w, rd>>
  /\ UNCHANGED <<r, slain>>

\* Plausible slips: a full ring is not given to the readers, or too early.
consoleintr_never(c) == input_char(c, {})
consoleintr_early(c) == input_char(c, {Plus(w, INPUT_BUF)})

consoleintr(c) == input_char(c, {Plus(r, INPUT_BUF)})

consoleintr_backspace ==
  /\ Unlocked /\ e # w
  /\ e' = Minus(e, 1) /\ Erased(1)
  /\ UNCHANGED <<ring, r, w, rd, slain>>

\* ctl-U: back to the last newline or to what was given to the readers.
consoleintr_kill ==
  /\ Unlocked
  /\ LET erasable == {k \in 1..Minus(e, w) :
                        \A j \in 1..k : ring[Slot(Minus(e, j))] # NL}
         k == IF erasable = {} THEN 0 ELSE Max(erasable)
     IN k > 0 /\ e' = Minus(e, k) /\ Erased(k)
  /\ UNCHANGED <<ring, r, w, rd, slain>>

-----------------------------------------------------------------------------
consoleread(p) ==
  /\ rd[p].pc = "idle" /\ p \notin slain
  /\ \E n \in ReadLens : rd' = [rd EXCEPT ![p] = [pc |-> "read", n |-> n, target |-> n]]
  /\ UNCHANGED <<ring, r, w, e, slain, pos>>

Idled(p) == [rd EXCEPT ![p] = [pc |-> "idle"]]

\* Nothing to read: killed readers leave, others are about to sleep.
consoleread_empty(p) ==
  /\ Unlocked /\ rd[p].pc = "read" /\ r = w
  /\ rd' = IF p \in slain THEN Idled(p) ELSE [rd EXCEPT ![p].pc = "drowsy"]
  /\ UNCHANGED <<ring, r, w, e, slain, pos>>

\* sleep(&input.r, &cons.lock).
consoleread_sleep(p) ==
  /\ rd[p].pc = "drowsy" /\ rd' = [rd EXCEPT ![p].pc = "asleep"]
  /\ UNCHANGED <<ring, r, w, e, slain, pos>>

\* The loop of consoleread() as far as there are characters: up to n of them, the
\* end of a line or, not included, a ctl-D that comes after others (keep holds).
\* A reader that wants more goes to sleep in the same critical section.
read_ring(p, keep) ==
  /\ Unlocked /\ rd[p].pc = "read" /\ r # w
  /\ LET at(k) == ring[Slot(Plus(r, k - 1))]
         m == Min({rd[p].n, Minus(w, r)})
         stops == {k \in 1..m : at(k) \in Ends}
         k == IF stops = {} THEN m ELSE Min(stops)
         eof == at(k) = EOT
         kept == keep /\ eof /\ (k > 1 \/ rd[p].n < rd[p].target)
     IN /\ r' = Plus(r, IF kept THEN k - 1 ELSE k)
        /\ rd' = IF at(k) \in Ends \/ k = rd[p].n \/ p \in slain THEN Idled(p)
                 ELSE [rd EXCEPT ![p].n = @ - k, ![p].pc = "drowsy"]
  /\ UNCHANGED <<ring, w, e, slain, pos>>

\* A plausible slip: the ctl-D is consumed with the characters before it.
consoleread_loop_eats(p) == read_ring(p, FALSE)

consoleread_loop(p) == read_ring(p, TRUE)

\* kill(): marks the process and makes it runnable.
kill_reader(p) ==
  /\ p \in Killable /\ slain' = slain \cup {p}
  /\ rd' = IF rd[p].pc = "asleep" THEN [rd EXCEPT ![p].pc = "read"] ELSE rd
  /\ UNCHANGED <<ring, r, w, e, pos>>

\* consolewrite() and cprintf() move the cursor.
consolewrite ==
  /\ Unlocked
  /\ \E c \in Letters \cup {NL} : pos' = cgaputc(pos, c)
  /\ UNCHANGED <<ring, r, w, e, rd, slain>>

ConsoleInit ==
  /\ ring = [i \in 0..(INPUT_BUF - 1) |-> NL]
  /\ r = 0 /\ w = 0 /\ e = 0 /\ pos = 0
  /\ rd = [p \in Readers |-> [pc |-> "idle"]] /\ slain = {}

ConsoleNext ==
  \/ \E c \in Letters \cup Ends : consoleintr(c)
  \/ consoleintr_backspace \/ consoleintr_kill \/ consolewrite
  \/ \E p \in Readers :
       \/ consoleread(p) \/ consoleread_empty(p) \/ consoleread_sleep(p)
       \/ consoleread_loop(p) \/ kill_reader(p)

ConsoleSpec == ConsoleInit /\ [][ConsoleNext]_convars

-----------------------------------------------------------------------------
Between(a, b) == [k \in 1..Minus(b, a) |-> ring[Slot(Plus(a, k - 1))]]

\* Types; the cursor stays on the rows above the last, so that neither the panic
\* of cgaputc() nor a write behind the screen is possible.
ConsoleTypeOK ==
  /\ \A i \in {r, w, e} : i \in 0..(UintMod - 1)
  /\ pos \in 0..((ROWS - 1) * COLS - 1)
  /\ Minus(w, r) <= Minus(e, r) /\ Minus(e, r) <= INPUT_BUF

\* The ring with its wrapping indices is a line editor: r..w are the characters
\* to be read, w..e the line that can still be edited.
Lines == INSTANCE LineInput WITH
  Size <- INPUT_BUF, lines <- Between(r, w), edit <- Between(w, e)
ImplementsLines == Lines!Spec

\* No reader sleeps, or is about to, while there is something to read; and a ring
\* that is full has something to read, so that typing can go on.
ReadersWoken ==
  /\ \A p \in Readers : rd[p].pc \in {"drowsy", "asleep"} => r = w
  /\ Minus(e, r) = INPUT_BUF => w = e

\* A ctl-D is consumed by a read that returns nothing else: characters before it
\* are returned first, and the next read sees the end of the file.
EofAlone ==
  [][\A p \in Readers :
       rd'[p] # rd[p] /\ r' # r /\ ring[Slot(Minus(r', 1))] = EOT =>
         rd[p].n = rd[p].target /\ r' = Plus(r, 1)]_convars

\* consoleintr() against consoleread(): the three indices stay in order round the
\* wrap, the cursor stays on the screen, and whoever can read is awake.
ConsoleSound == ConsoleTypeOK /\ ReadersWoken
=============================================================================
