------------------------------ MODULE Keyboard ------------------------------
(***************************************************************************)
(* The translation of scancodes by keyboard_interrupt of                   *)
(* src/pintos/src/devices/kbd.c.  The state of the keyboard is a record    *)
(* [mods, caps_lock]: the modifier keys that are down, and Caps Lock.      *)
(* Characters are their ASCII codes; 0 stands for no character.            *)
(***************************************************************************)
EXTENDS Integers, Sequences, TLC

\* The tables: a run of characters for the scancodes that start at an index.
invariant_keymap ==
  1 :> <<27>> @@ 14 :> <<8>> @@ 28 :> <<13>> @@ 55 :> <<42>> @@ 57 :> <<32>> @@ 83 :> <<127>>
  @@ 15 :> <<9, 81, 87, 69, 82, 84, 89, 85, 73, 79, 80>>    \* Tab, QWERTYUIOP
  @@ 30 :> <<65, 83, 68, 70, 71, 72, 74, 75, 76>>           \* ASDFGHJKL
  @@ 44 :> <<90, 88, 67, 86, 66, 78, 77>>                   \* ZXCVBNM

unshifted_keymap ==
  2 :> <<49, 50, 51, 52, 53, 54, 55, 56, 57, 48, 45, 61>>
  @@ 26 :> <<91, 93>> @@ 39 :> <<59, 39, 96>> @@ 43 :> <<92>> @@ 51 :> <<44, 46, 47>>

shifted_keymap ==
  2 :> <<33, 64, 35, 36, 37, 94, 38, 42, 40, 41, 95, 43>>
  @@ 26 :> <<123, 125>> @@ 39 :> <<58, 34, 126>> @@ 43 :> <<124>> @@ 51 :> <<60, 62, 63>>

shift_keys ==
  42 :> "left_shift" @@ 54 :> "right_shift" @@ 56 :> "left_alt" @@ 57400 :> "right_alt"
  @@ 29 :> "left_ctrl" @@ 57373 :> "right_ctrl"

\* The character that keymap k has for a scancode, 0 if it has none.
map_key(k, scancode) ==
  LET runs == {f \in DOMAIN k : scancode \in f .. f + Len(k[f]) - 1}
  IN  IF runs = {} THEN 0
      ELSE LET f == CHOOSE f \in runs : TRUE IN k[f][scancode - f + 1]

\* The scancode of an event, with its prefix and without its release bit.
Scancode(bytes) ==
  IF bytes[1] = 224 THEN 224 * 256 + (bytes[2] % 128) ELSE bytes[1] % 128

Released(bytes) == bytes[Len(bytes)] >= 128

shift(k) == {"left_shift", "right_shift"} \cap k.mods # {}
alt(k) == {"left_alt", "right_alt"} \cap k.mods # {}
ctrl(k) == {"left_ctrl", "right_ctrl"} \cap k.mods # {}

\* The character of a key before Ctrl, Caps Lock and Alt are looked at.
KeyChar(k, code) ==
  LET c == map_key(invariant_keymap, code)
  IN  IF c # 0 THEN c
      ELSE map_key(IF shift(k) THEN shifted_keymap ELSE unshifted_keymap, code)

tolower(c) == IF c \in 65 .. 90 THEN c + 32 ELSE c

\* The byte that goes to the input buffer.  Ctrl overrides Shift; Alt sets the high bit.
Typed(k, c) ==
  (IF ctrl(k) /\ c \in 64 .. 95 THEN c - 64
   ELSE IF shift(k) = k.caps_lock THEN tolower(c) ELSE c)
  + (IF alt(k) THEN 128 ELSE 0)

\* The modifiers after an event that is no character.
NextMods(k, code, release) ==
  IF code \notin DOMAIN shift_keys THEN k.mods
  ELSE IF release THEN k.mods \ {shift_keys[code]} ELSE k.mods \cup {shift_keys[code]}
=============================================================================
