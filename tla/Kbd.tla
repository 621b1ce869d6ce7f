--------------------------------- MODULE Kbd ---------------------------------
(***************************************************************************)
(* The keyboard decoder, kbd.c: scan codes arrive one byte per interrupt,  *)
(* keys of the extended block are prefixed by 0xE0, and the static shift   *)
(* remembers modifiers, locks and the prefix between interrupts.           *)
(***************************************************************************)
EXTENDS Integers, Sequences, FiniteSets, FiniteSetsExt

CONSTANT MaxKeys                 \* keys that are down at a time

VARIABLES keysdown,                  \* keys that are down (external: the keyboard)
          bytes,                 \* scan code bytes that wait in the controller
          shift,                 \* kbdgetc()'s static flags
          char                   \* what the last complete press returned, and for which key

kbdvars == <<keysdown, bytes, shift, char>>

E0 == 224
Release == 128

\* The keys: their code, and whether they are of the extended block.
Keys == [u     |-> [code |-> 22, ext |-> FALSE], one   |-> [code |-> 2, ext |-> FALSE],
         caps  |-> [code |-> 58, ext |-> FALSE], left  |-> [code |-> 75, ext |-> TRUE],
         lctl  |-> [code |-> 29, ext |-> FALSE], rctl  |-> [code |-> 29, ext |-> TRUE],
         shift |-> [code |-> 42, ext |-> FALSE]]

\* shiftcode[] and togglecode[] of kbd.h, at the codes of Keys.
shiftcode(d) == CASE d \in {29, 157} -> {"CTL"} [] d \in {42, 54} -> {"SHIFT"}
                  [] d \in {56, 184} -> {"ALT"} [] OTHER -> {}
togglecode(d) == IF d = 58 THEN {"CAPSLOCK"} ELSE {}

\* normalmap[], shiftmap[] and ctlmap[] at the codes of Keys; 0 is no character.
charcode(mods, d) ==
  CASE d = 22 /\ "CTL" \in mods -> "ctl-U"
    [] d = 22 /\ "SHIFT" \in mods -> "U"
    [] d = 22 -> "u"
    [] d = 2 /\ "CTL" \in mods -> "0"
    [] d = 2 /\ "SHIFT" \in mods -> "!"
    [] d = 2 -> "1"
    [] d = 203 -> "left"
    [] OTHER -> "0"

\* CAPSLOCK changes the case of letters only.
capslock(mods, c) ==
  IF "CAPSLOCK" \notin mods THEN c ELSE IF c = "u" THEN "U" ELSE IF c = "U" THEN "u" ELSE c

\* kbdgetc() on one byte: the new flags and the character; unescape says which
\* flags a release clears besides the key's own.
decode(flags, data, unescape) ==
  LET esc == "E0ESC" \in flags
      code == data % Release
      key == IF esc THEN code + Release ELSE code
      mods == SymDiff((flags \ {"E0ESC"}) \cup shiftcode(key), togglecode(key))
  IN IF data = E0 THEN [flags |-> flags \cup {"E0ESC"}, c |-> "0"]
     ELSE IF data >= Release
     THEN [flags |-> flags \ (shiftcode(key) \cup unescape), c |-> "0"]
     ELSE [flags |-> mods, c |-> capslock(mods, charcode(mods, key))]

\* A plausible slip: a release does not end the prefix.
kbdgetc_escaped(flags, data) == decode(flags, data, {})

kbdgetc(flags, data) == decode(flags, data, {"E0ESC"})

kbdintr ==
  /\ bytes # <<>> /\ bytes' = Tail(bytes)
  /\ LET got == kbdgetc(shift, Head(bytes))
     IN shift' = got.flags /\ char' = IF got.c = "0" THEN char ELSE got.c
  /\ UNCHANGED keysdown

Code(k, up) ==
  LET c == Keys[k].code + (IF up THEN Release ELSE 0)
  IN IF Keys[k].ext THEN <<E0, c>> ELSE <<c>>

press(k) ==
  /\ bytes = <<>> /\ k \notin keysdown /\ Cardinality(keysdown) < MaxKeys
  /\ keysdown' = keysdown \cup {k} /\ bytes' = Code(k, FALSE) /\ char' = "none"
  /\ UNCHANGED shift

release(k) ==
  /\ bytes = <<>> /\ k \in keysdown
  /\ keysdown' = keysdown \ {k} /\ bytes' = Code(k, TRUE) /\ char' = "none"
  /\ UNCHANGED shift

KbdInit == keysdown = {} /\ bytes = <<>> /\ shift = {} /\ char = "none"

KbdNext == kbdintr \/ \E k \in DOMAIN Keys : press(k) \/ release(k)

KbdSpec == KbdInit /\ [][KbdNext]_kbdvars

-----------------------------------------------------------------------------
\* Between two keys, a modifier is set only while a key that sets it is down, and
\* the prefix of one key is never applied to the next; no control or shifted
\* character comes without its modifier.
ShiftMatchesKeys ==
  bytes = <<>> =>
    /\ "E0ESC" \notin shift
    /\ "CTL" \in shift => keysdown \cap {"lctl", "rctl"} # {}
    /\ "SHIFT" \in shift => "shift" \in keysdown
    /\ char = "ctl-U" => keysdown \cap {"lctl", "rctl"} # {}
    /\ char = "!" => "shift" \in keysdown
=============================================================================
