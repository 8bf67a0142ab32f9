--------------------------- MODULE KeyTranslation ---------------------------
(***************************************************************************)
(* From a key of a present-day US keyboard to the scan code of an old      *)
(* (Knight) keyboard: kb_old_table and kbd_init (kbd.c), process_key       *)
(* (x11.c), and back from the scan code to the character that the Lisp     *)
(* Machine takes it for (kbd.c:13-16).                                     *)
(*                                                                         *)
(* A scan code is a row of the table and the shift keys that are held.     *)
(* Characters are one-letter strings, special keys are named.              *)
(***************************************************************************)
EXTENDS Integers, Sequences

\* Each row: vanilla, shift, top.  Rows are counted from 0.
kb_old_table == <<
  <<"Break", "Break", "Network">>, <<"Escape", "Escape", "System">>,
     <<"1", "!", "!">>, <<"2", "\"", "\"">>, <<"3", "#", "#">>,
     <<"4", "$", "$">>, <<"5", "%", "%">>, <<"6", "&", "&">>,
     <<"7", "'", "'">>, <<"8", "(", "(">>, <<"9", ")", ")">>,
     <<"0", "_", "_">>, <<"-", "=", "=">>, <<"@", "grave", "grave">>,
     <<"^", "~", "~">>, <<"Backspace", "Backspace", "Backspace">>,
     <<"Call", "Call", "Abort">>, <<"Clear", "Clear", "Clear">>,
     <<"Tab", "Tab", "Tab">>, <<"Alt", "Alt", "Alt">>,
     <<"q", "Q", "symbol">>, <<"w", "W", "symbol">>, <<"e", "E", "symbol">>,
     <<"r", "R", "symbol">>, <<"t", "T", "symbol">>, <<"y", "Y", "symbol">>,
     <<"u", "U", "symbol">>, <<"i", "I", "symbol">>, <<"o", "O", "symbol">>,
     <<"p", "P", "symbol">>, <<"[", "{", "{">>, <<"]", "}", "}">>,
     <<"\\", "|", "|">>, <<"/", "symbol", "symbol">>,
     <<"Formfeed", "Return", "Null">>, <<"Return", "Tab", "Tab">>,
     <<"Form", "Form", "Form">>, <<"Vt", "Vt", "Vt">>,
     <<"Rubout", "Rubout", "Rubout">>, <<"a", "A", "symbol">>,
     <<"s", "S", "symbol">>, <<"d", "D", "symbol">>, <<"f", "F", "symbol">>,
     <<"g", "G", "symbol">>, <<"h", "H", "Help">>, <<"j", "J", "symbol">>,
     <<"k", "K", "symbol">>, <<"l", "L", "symbol">>, <<";", "+", "+">>,
     <<":", "*", "*">>, <<"Return", "Return", "End">>,
     <<"Line", "Line", "Line">>, <<"BackNext", "BackNext", "BackNext">>,
     <<"z", "Z", "symbol">>, <<"x", "X", "symbol">>, <<"c", "C", "symbol">>,
     <<"v", "V", "symbol">>, <<"b", "B", "symbol">>, <<"n", "N", "symbol">>,
     <<"m", "M", "symbol">>, <<",", "<", "<">>, <<".", ">", ">">>,
     <<"/", "?", "?">>, <<" ", " ", " ">> >>

Rows == 0 .. Len(kb_old_table) - 1
Row(r) == kb_old_table[r + 1]

Code(r, shift) == [row |-> r, shift |-> shift, top |-> FALSE]
Undefined == Code(0, FALSE)

\* Characters the X server delivers for a printing key.
Characters == {Row(r)[1] : r \in Rows} \cup {Row(r)[2] : r \in Rows}

\* The walk over the unshifted table: the last row of a character counts.
Unshifted(c) ==
  LET rows == {r \in Rows : Row(r)[1] = c}
  IN  IF rows = {} THEN Undefined
      ELSE Code(CHOOSE r \in rows : \A q \in rows : q <= r, FALSE)

\* Rows whose second character kbd_init enters for itself, with shift.
OwnShift ==
  2 .. 7 \cup 9 .. 11 \cup {14} \cup 20 .. 32 \cup 39 .. 49 \cup 53 .. 62

\* Mutated form of Patches0.
PatchesWithoutEquals ==
  [c \in {"grave", "'"} |-> IF c = "grave" THEN Code(13, TRUE) ELSE Code(8, TRUE)]

\* The changes for the US layout: without shift ...
Patches0 ==
  [c \in {"grave", "'", "="} |->
     CASE c = "grave" -> Code(13, TRUE) [] c = "'" -> Code(8, TRUE)
       [] c = "=" -> Code(12, TRUE)]
\* ... and with shift: rows as the old keyboard has them without shift, or with.
Plain1 == [c \in {"2", "6", ";", ":", "@", "^"} |->
             CASE c \in {"2", "@"} -> 13 [] c \in {"6", "^"} -> 14
               [] c \in {";", ":"} -> 49]
Shifted1 == [c \in {"grave", "'", "7", "8", "9", "0", "-", "="} |->
               CASE c = "grave" -> 14 [] c = "'" -> 3 [] c = "7" -> 7 [] c = "8" -> 49
                 [] c = "9" -> 9 [] c = "0" -> 10 [] c = "-" -> 11 [] c = "=" -> 48]

\* okb_to_scancode[c][0] and [c][1]
okb0(c) == IF c \in DOMAIN Patches0 THEN Patches0[c] ELSE Unshifted(c)
okb1(c) ==
  IF c \in DOMAIN Plain1 THEN Code(Plain1[c], FALSE)
  ELSE IF c \in DOMAIN Shifted1 THEN Code(Shifted1[c], TRUE)
  ELSE IF \E r \in OwnShift : Row(r)[2] = c
       THEN Code(CHOOSE r \in OwnShift : Row(r)[2] = c, TRUE)
  ELSE [Unshifted(c) EXCEPT !.shift = TRUE]

Modifiers == [shift : BOOLEAN, caps : BOOLEAN, control : BOOLEAN, meta : BOOLEAN]

\* process_key's switch: keys with a code of their own, by their names in X.
SpecialKeys ==
  [k \in {"F1", "F2", "F3", "F4", "F5", "F6", "F7", "F11", "F12", "BackSpace", "Return",
          "Tab", "Escape"} |->
     CASE k \in {"F1", "Escape"} -> Code(1, FALSE)
       [] k = "F2" -> [Code(1, FALSE) EXCEPT !.top = TRUE]
       [] k = "F3" -> [Code(0, FALSE) EXCEPT !.top = TRUE]
       [] k = "F4" -> [Code(16, FALSE) EXCEPT !.top = TRUE]
       [] k = "F5" -> Code(17, FALSE)
       [] k = "F6" -> [Code(44, FALSE) EXCEPT !.top = TRUE]
       [] k = "F11" -> [Code(50, FALSE) EXCEPT !.top = TRUE]
       [] k = "F7" -> Code(16, FALSE)
       [] k = "F12" -> Code(0, FALSE)
       [] k = "BackSpace" -> Code(38, FALSE)
       [] k = "Return" -> Code(50, FALSE)
       [] k = "Tab" -> Code(18, FALSE)]

\* Keys without a case there whose keysym is above 255: they are reported as
\* unknown and send nothing.
UnknownKeys == {"Prior", "Home", "End"}

\* Caps Lock inverts shift.
Shift(m) == m.shift # m.caps

\* process_key, of any other key: control (but not meta alone, the mask
\* 17 << 10 being decimal) adds shift to what the table says.
process_key(k, m) ==
  LET code == IF k \in DOMAIN SpecialKeys THEN SpecialKeys[k]
              ELSE IF Shift(m) THEN okb1(k) ELSE okb0(k)
  IN  [code EXCEPT !.shift = @ \/ (m.control /\ Shift(m))]

-----------------------------------------------------------------------------
\* The Lisp Machine (external): the column that the shift keys select.
Meaning(code) ==
  LET columns == Row(code.row)
  IN  IF code.top THEN columns[3] ELSE IF code.shift THEN columns[2] ELSE columns[1]

\* What is printed on the keys of a US keyboard (external), without and with
\* shift, and what X delivers for a key: Caps Lock raises letters only.
Letters == {<<Row(r)[1], Row(r)[2]>> : r \in 20 .. 29 \cup 39 .. 47 \cup 53 .. 59}
USKeys ==
  Letters \cup
  {<<"grave", "~">>, <<"1", "!">>, <<"2", "@">>, <<"3", "#">>, <<"4", "$">>, <<"5", "%">>,
   <<"6", "^">>, <<"7", "&">>, <<"8", "*">>, <<"9", "(">>, <<"0", ")">>, <<"-", "_">>,
   <<"=", "+">>, <<"[", "{">>, <<"]", "}">>, <<"\\", "|">>, <<";", ":">>,
   <<"'", "\"">>, <<",", "<">>, <<".", ">">>, <<"/", "?">>}

KeySym(key, m) ==
  IF m.shift \/ (m.caps /\ key \in Letters) THEN key[2] ELSE key[1]

VARIABLE pressed    \* a key and the modifiers held with it

NoKeyPressed == <<>>

KeysInit == pressed = NoKeyPressed

Press ==
  /\ pressed = NoKeyPressed
  /\ pressed' \in (USKeys \cup {<<k, k>> : k \in DOMAIN SpecialKeys \cup UnknownKeys})
                  \X Modifiers

\* process_key ignores it.
Release == pressed # NoKeyPressed /\ pressed' = NoKeyPressed

KeysNext == Press \/ Release
KeysSpec == KeysInit /\ [][KeysNext]_pressed

\* The scan code sent, and what the Lisp Machine takes it for.
SentCode == process_key(KeySym(pressed[1], pressed[2]), pressed[2])
Typed == IF pressed[1][1] \in UnknownKeys THEN "nothing" ELSE Meaning(SentCode)

-----------------------------------------------------------------------------
(***************************************************************************)
(* A key types what is printed on it, Caps Lock being a shift lock for all *)
(* keys, and without shift control and meta change nothing (kbd.c:299-382, *)
(* x11.c:67-76): the walk over the table, the changes for the US layout,   *)
(* and what X does to the key agree.  A key with a code of its own is the  *)
(* key that process_key (x11.c:93-133) and README:36-52 call it, whatever  *)
(* is held with it.                                                        *)
(*                                                                         *)
(* Nothing is said where the documents disagree with the code or are       *)
(* silent.  F7 and Escape: see KeysAreAsListed.  Control and meta with     *)
(* shift: see ShiftAddedWithMeta.  Shift and Caps Lock together: no        *)
(* document says what they type (most characters are then looked up in the *)
(* column in which they are not, and type Break).                          *)
(***************************************************************************)
KeysOfTheirOwn ==
  [k \in {"F1", "F2", "F3", "F4", "F5", "F6", "F11", "F12", "BackSpace", "Return", "Tab"} |->
     CASE k = "F1" -> "Escape"    \* Terminal
       [] k = "F2" -> "System" [] k = "F3" -> "Network" [] k = "F4" -> "Abort"
       [] k = "F5" -> "Clear" [] k = "F6" -> "Help" [] k = "F11" -> "End"
       [] k = "F12" -> "Break" [] k = "BackSpace" -> "Rubout"
       [] k = "Return" -> "Return" [] k = "Tab" -> "Tab"]

TypesWhatIsPrinted ==
  pressed # NoKeyPressed =>
  LET key == pressed[1]
      m == pressed[2]
  IN  /\ /\ key \in USKeys
         /\ ~(m.shift /\ m.caps)
         /\ m.control \/ m.meta => ~Shift(m)
         => Typed = IF Shift(m) THEN key[2] ELSE key[1]
      /\ key[1] \in DOMAIN KeysOfTheirOwn => Typed = KeysOfTheirOwn[key[1]]

(***************************************************************************)
(* "... but if Control or Meta, add in Shift." (x11.c:161): a key held     *)
(* with control or meta, and shift, is sent with shift.  Of keys with meta *)
(* alone this is not true.                                                 *)
(***************************************************************************)
ShiftAddedWithMeta ==
  pressed # NoKeyPressed /\ pressed[1][1] \notin UnknownKeys =>
    LET m == pressed[2]
    IN  (m.control \/ m.meta) /\ Shift(m) => SentCode.shift

(***************************************************************************)
(* The keys are what the list of the keyboard bindings says (README:35-52), *)
(* where Terminal is the old keyboard's Escape and Page its Form.  The     *)
(* code binds five of them otherwise or not at all.                        *)
(***************************************************************************)
Listed ==
  [k \in {"Escape", "F1", "F2", "F3", "F4", "F5", "F6", "F7", "Prior", "Home", "End",
          "BackSpace"} |->
     CASE k = "Escape" -> "Alt" [] k = "F1" -> "Escape" [] k = "F2" -> "System"
       [] k = "F3" -> "Network" [] k = "F4" -> "Abort" [] k = "F5" -> "Clear"
       [] k = "F6" -> "Help" [] k = "F7" -> "Form" [] k = "Prior" -> "Break"
       [] k = "Home" -> "Call" [] k = "End" -> "End" [] k = "BackSpace" -> "Rubout"]

KeysAreAsListed ==
  pressed # NoKeyPressed /\ pressed[1][1] \in DOMAIN Listed =>
    Typed = Listed[pressed[1][1]]
=============================================================================
