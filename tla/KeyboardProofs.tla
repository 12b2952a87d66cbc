--------------------------- MODULE KeyboardProofs ---------------------------
(***************************************************************************)
(* Proofs about module Keyboard, for every set of keys and every size of   *)
(* the buffer: the driver reports no key that is not held, it ends up with *)
(* the modifiers as they are on the keyboard, and its ring buffer is a     *)
(* queue, wherever the interrupts fall in keyboard_read.                   *)
(***************************************************************************)
EXTENDS Keyboard, SequenceTheorems, TLAPS

---------------------------------------------------------------------------
(* Scan codes under way.  The operators take the codes w and e, whether    *)
(* the driver has just read a prefix, as arguments, so that they can be    *)
(* applied to this state and to the next.                                  *)

\* Byte i comes behind a prefix.
Behind(w, e, i) == IF i = 1 THEN e ELSE w[i - 1] = Prefix

\* The key that byte i, not a prefix, is a scan code of.
KeyAt(w, e, i) == <<Behind(w, e, i), Code(w[i])>>

\* Every prefix is followed by its code, and every code is that of a key.
Whole(w, e) ==
    /\ w = << >> => e = FALSE
    /\ \A i \in DOMAIN w : IF w[i] = Prefix THEN i < Len(w) ELSE KeyAt(w, e, i) \in Keys

\* A key is one press or release code.
LEMMA CodeOfKey ==
    ASSUME NEW k \in Keys, NEW bit \in {0, ReleaseBit}
    PROVE  /\ k[1] \in BOOLEAN /\ k = <<k[1], k[2]>>
           /\ k[2] + bit \in 0 .. 255 /\ k[2] + bit # Prefix
           /\ Code(k[2] + bit) = k[2]
           /\ IsRelease(k[2] + bit) <=> bit = ReleaseBit
  <1>1. k \in BOOLEAN \X (1 .. 127 \ {96})
    BY KeyboardAssumption
  <1>2. k[1] \in BOOLEAN /\ k[2] \in 1 .. 127 /\ k[2] # 96 /\ k = <<k[1], k[2]>>
    BY <1>1
  <1> DEFINE c == k[2]
  <1>3. c \in 1 .. 127 /\ c # 96
    BY <1>2
  <1> HIDE DEF c
  <1>4. c % 128 = c /\ (c + 128) % 128 = c
    BY <1>3
  <1>5. /\ c + bit \in 0 .. 255 /\ c + bit # Prefix
        /\ Code(c + bit) = c
        /\ IsRelease(c + bit) <=> bit = ReleaseBit
    BY <1>3, <1>4 DEF Code, IsRelease, Prefix, ReleaseBit
  <1> QED BY <1>2, <1>5 DEF c

\* The codes v are w and one code of key k more, a release if bit is ReleaseBit.
OneMore(w, e, k, bit, v) ==
    /\ v \in Seq(0 .. 255) /\ Len(v) \in DOMAIN v /\ Len(v) > Len(w)
    /\ \A i \in DOMAIN w : i \in DOMAIN v /\ v[i] = w[i] /\ KeyAt(v, e, i) = KeyAt(w, e, i)
    /\ v[Len(v)] # Prefix /\ KeyAt(v, e, Len(v)) = k
    /\ IsRelease(v[Len(v)]) <=> bit = ReleaseBit
    /\ \A i \in DOMAIN v : v[i] # Prefix => i \in DOMAIN w \/ i = Len(v)
    /\ Whole(v, e)

\* What a key sends is one more code, behind a prefix or not.
LEMMA WireAppended ==
    ASSUME NEW w \in Seq(0 .. 255), NEW e, Whole(w, e),
           NEW k \in Keys, NEW bit \in {0, ReleaseBit}
    PROVE  OneMore(w, e, k, bit, w \o Sent(k, bit))
  <1> DEFINE n == Len(w)
             c == k[2] + bit
             v == w \o Sent(k, bit)
  <1>1. n \in Nat /\ DOMAIN w = 1 .. n
    BY LenProperties
  <1>2. /\ c \in 0 .. 255 /\ c # Prefix /\ Code(c) = k[2]
        /\ IsRelease(c) <=> bit = ReleaseBit
        /\ k[1] \in BOOLEAN /\ k = <<k[1], k[2]>>
    BY CodeOfKey
  <1>3. Prefix \in 0 .. 255
    BY DEF Prefix
  <1>4. n # 0 => w[n] # Prefix
    BY <1>1 DEF Whole
  <1>5. n = 0 => e = FALSE
    BY EmptySeq DEF Whole
  <1>6. CASE k[1]
    <2>1. Sent(k, bit) = <<Prefix, c>>
      BY <1>6 DEF Sent
    <2>2. /\ v \in Seq(0 .. 255) /\ Len(v) = n + 2 /\ DOMAIN v = 1 .. n + 2
          /\ v[n + 1] = Prefix /\ v[n + 2] = c
          /\ \A i \in 1 .. n : v[i] = w[i]
      BY <1>1, <1>2, <1>3, <2>1
    <2>3. \A i \in 1 .. n : KeyAt(v, e, i) = KeyAt(w, e, i)
      BY <1>1, <2>2 DEF KeyAt, Behind
    <2>4. KeyAt(v, e, n + 2) = k
      <3>1. Behind(v, e, n + 2) = TRUE
        BY <1>1, <2>2 DEF Behind
      <3> QED BY <1>2, <1>6, <2>2, <3>1 DEF KeyAt
    <2> HIDE DEF c, n
    <2>5. \A i \in 1 .. n + 2 : i \in 1 .. n \/ i = n + 1 \/ i = n + 2
      BY <1>1
    <2>6. Whole(v, e)
      <3>1. \A i \in 1 .. n : IF w[i] = Prefix THEN i < n ELSE KeyAt(w, e, i) \in Keys
        BY <1>1 DEF Whole, n
      <3>2. v # << >>
        BY <1>1, <2>2, EmptySeq
      <3> HIDE DEF v
      <3>3. ASSUME NEW i \in 1 .. n + 2
            PROVE  IF v[i] = Prefix THEN i < n + 2 ELSE KeyAt(v, e, i) \in Keys
        <4>1. CASE i \in 1 .. n
          BY <1>1, <2>2, <2>3, <3>1, <4>1
        <4>2. CASE i = n + 1
          BY <1>1, <2>2, <4>2
        <4>3. CASE i = n + 2
          BY <1>2, <2>2, <2>4, <4>3
        <4> QED BY <2>5, <4>1, <4>2, <4>3
      <3> QED BY <2>2, <3>2, <3>3 DEF Whole
    <2> HIDE DEF v
    <2>7. n + 2 \in 1 .. n + 2 /\ n + 2 > n /\ 1 .. n \subseteq 1 .. n + 2
      BY <1>1
    <2>8. OneMore(w, e, k, bit, v)
      BY <1>1, <1>2, <2>2, <2>3, <2>4, <2>5, <2>6, <2>7 DEF OneMore, n
    <2> QED BY <2>8 DEF v
  <1>7. CASE ~ k[1]
    <2>1. Sent(k, bit) = <<c>>
      BY <1>7 DEF Sent
    <2>2. /\ v \in Seq(0 .. 255) /\ Len(v) = n + 1 /\ DOMAIN v = 1 .. n + 1
          /\ v[n + 1] = c
          /\ \A i \in 1 .. n : v[i] = w[i]
      BY <1>1, <1>2, <1>3, <2>1
    <2>3. \A i \in 1 .. n : KeyAt(v, e, i) = KeyAt(w, e, i)
      BY <1>1, <2>2 DEF KeyAt, Behind
    <2>4. KeyAt(v, e, n + 1) = k
      <3>1. Behind(v, e, n + 1) = FALSE
        BY <1>1, <1>4, <1>5, <2>2 DEF Behind
      <3> QED BY <1>2, <1>7, <2>2, <3>1 DEF KeyAt
    <2> HIDE DEF c, n
    <2>5. \A i \in 1 .. n + 1 : i \in 1 .. n \/ i = n + 1
      BY <1>1
    <2>6. Whole(v, e)
      <3>1. \A i \in 1 .. n : IF w[i] = Prefix THEN i < n ELSE KeyAt(w, e, i) \in Keys
        BY <1>1 DEF Whole, n
      <3>2. v # << >>
        BY <1>1, <2>2, EmptySeq
      <3> QED BY <1>1, <1>2, <2>2, <2>3, <2>4, <2>5, <3>1, <3>2 DEF Whole
    <2> QED BY <1>1, <1>2, <2>2, <2>3, <2>4, <2>5, <2>6 DEF OneMore, n
  <1> QED BY <1>2, <1>6, <1>7

\* The codes v and the flag f are w and e after the first of w has been read.
OneLess(w, e, v, f) ==
    /\ v \in Seq(0 .. 255) /\ w[1] \in 0 .. 255 /\ Head(w) = w[1]
    /\ 1 \in DOMAIN w
    /\ \A i \in DOMAIN v : /\ i + 1 \in DOMAIN w /\ v[i] = w[i + 1]
                           /\ KeyAt(v, f, i) = KeyAt(w, e, i + 1)
    /\ \A i \in DOMAIN w : i = 1 \/ (i - 1 \in DOMAIN v /\ (i - 1) + 1 = i)
    /\ DOMAIN v \subseteq Nat \ {0}
    /\ Whole(v, f)

\* The driver takes the first code and remembers whether it was a prefix.
LEMMA WireRead ==
    ASSUME NEW w \in Seq(0 .. 255), NEW e, Whole(w, e), w # << >>,
           NEW f, f = (w[1] = Prefix)
    PROVE  OneLess(w, e, Tail(w), f)
  <1> DEFINE n == Len(w)
             v == Tail(w)
  <1>1. n \in Nat \ {0} /\ DOMAIN w = 1 .. n
    BY LenProperties, EmptySeq
  <1>2. /\ v \in Seq(0 .. 255) /\ Len(v) = n - 1
        /\ \A i \in 1 .. n - 1 : v[i] = w[i + 1]
    BY HeadTailProperties
  <1>3. DOMAIN v = 1 .. n - 1
    BY <1>2, LenProperties
  <1>4. w[1] \in 0 .. 255 /\ Head(w) = w[1]
    BY <1>1, ElementOfSeq
  <1> HIDE DEF n
  <1>5. \A i \in 1 .. n - 1 : i + 1 \in 1 .. n /\ (i + 1) - 1 = i /\ i + 1 # 1
    BY <1>1
  <1>6. ASSUME NEW i \in 1 .. n - 1 PROVE KeyAt(v, f, i) = KeyAt(w, e, i + 1)
    <2>1. CASE i = 1
      BY <1>1, <1>2, <1>5, <2>1 DEF KeyAt, Behind
    <2>2. CASE i # 1
      <3>1. i - 1 \in 1 .. n - 1 /\ (i - 1) + 1 = i
        BY <1>1, <2>2
      <3> QED BY <1>1, <1>2, <1>5, <2>2, <3>1 DEF KeyAt, Behind
    <2> QED BY <2>1, <2>2
  <1>7. Whole(v, f)
    <2>1. \A i \in 1 .. n : IF w[i] = Prefix THEN i < n ELSE KeyAt(w, e, i) \in Keys
      BY <1>1 DEF Whole, n
    <2>2. \A i \in 1 .. n - 1 : IF v[i] = Prefix THEN i < n - 1 ELSE KeyAt(v, f, i) \in Keys
      BY <1>1, <1>2, <1>5, <1>6, <2>1
    <2>3. ASSUME v = << >> PROVE f = FALSE
      <3>1. Len(v) = 0
        BY <1>2, <2>3, EmptySeq
      <3>2. n = 1
        <4> HIDE DEF v
        <4> QED BY <1>1, <1>2, <3>1
      <3>3. w[1] # Prefix
        BY <2>1, <3>2
      <3> QED BY <3>3
    <2>4. \A i \in DOMAIN v : IF v[i] = Prefix THEN i < Len(v) ELSE KeyAt(v, f, i) \in Keys
      BY <1>2, <1>3, <2>2
    <2> QED BY <2>3, <2>4 DEF Whole
  <1>8. \A i \in 1 .. n : i = 1 \/ (i - 1 \in 1 .. n - 1 /\ (i - 1) + 1 = i)
    BY <1>1
  <1>9. 1 .. n - 1 \subseteq Nat \ {0} /\ 1 \in 1 .. n
    BY <1>1
  <1> QED BY <1>1, <1>2, <1>3, <1>4, <1>5, <1>6, <1>7, <1>8, <1>9 DEF OneLess

---------------------------------------------------------------------------
(* The texts of the keys, and what of them fits in the buffer.             *)

\* The bytes of a text: any set they are in.
TextBytes(code) == {lookup_utf8(code)[i] : i \in 1 .. Width(language, shift_pressed, code)}

LEMMA WidthIsNat ==
    ASSUME NEW lang, NEW shift, NEW code
    PROVE  Width(lang, shift, code) \in Nat
  <1>1. ArabicWidth(code) \in Nat
    <2>1. CASE code = 1
      BY <2>1 DEF ArabicWidth
    <2>2. CASE code = 48
      BY <2>2 DEF ArabicWidth
    <2>3. CASE code \in {12, 13, 14, 15, 28, 43, 55, 57}
      BY <2>3 DEF ArabicWidth
    <2>4. CASE code # 1 /\ code # 48 /\ code \notin {12, 13, 14, 15, 28, 43, 55, 57}
      BY <2>4 DEF ArabicWidth
    <2> QED BY <2>1, <2>2, <2>3, <2>4
  <1>2. ArabicShiftWidth(code) \in Nat
    <2> DEFINE letters == {16, 17, 18, 19, 21, 23, 24, 25, 30, 31, 35, 36, 37, 41, 45, 49, 53}
    <2>1. CASE code = 1
      BY <2>1 DEF ArabicShiftWidth
    <2>2. CASE code \in {20, 34, 48}
      BY <2>2 DEF ArabicShiftWidth
    <2>3. CASE code \in letters
      BY <2>3 DEF ArabicShiftWidth
    <2>4. CASE code # 1 /\ code \notin {20, 34, 48} /\ code \notin letters
      BY <2>4 DEF ArabicShiftWidth
    <2> QED BY <2>1, <2>2, <2>3, <2>4
  <1> QED BY <1>1, <1>2 DEF Width

LEMMA TextIsSeq ==
    ASSUME NEW code
    PROVE  lookup_utf8(code) \in Seq(TextBytes(code))
  <1> DEFINE n == Width(language, shift_pressed, code)
             text(i) == [lang |-> language, shift |-> shift_pressed, code |-> code, at |-> i]
  <1>1. n \in Nat
    BY WidthIsNat
  <1>2. lookup_utf8(code) = [i \in 1 .. n |-> text(i)]
    BY DEF lookup_utf8
  <1> HIDE DEF n, text
  <1>3. lookup_utf8(code) \in [1 .. n -> TextBytes(code)]
    BY <1>2 DEF TextBytes, n
  <1> QED BY <1>1, <1>3, SeqDef

\* How many bytes wait is less than the number of slots.
LEMMA UsedRange ==
    ASSUME kb_head \in Slots, kb_tail \in Slots
    PROVE  Used \in 0 .. KB_BUFFER_SIZE - 1
  <1> QED BY KeyboardAssumption DEF Used, Slots

LEMMA AcceptedFits ==
    ASSUME kb_head \in Slots, kb_tail \in Slots, NEW S, NEW s \in Seq(S)
    PROVE  /\ Accepted(s) \in Seq(S)
           /\ Len(Accepted(s)) \in Nat /\ Len(Accepted(s)) <= Len(s)
           /\ Used + Len(Accepted(s)) <= KB_BUFFER_SIZE - 1
           /\ \A i \in 1 .. Len(Accepted(s)) : Accepted(s)[i] = s[i]
  <1> DEFINE room == KB_BUFFER_SIZE - 1 - Used
             n == IF Len(s) <= room THEN Len(s) ELSE room
  <1>1. room \in Nat /\ Used \in Nat /\ Used + room = KB_BUFFER_SIZE - 1
    BY UsedRange, KeyboardAssumption
  <1>2. Len(s) \in Nat
    BY LenProperties
  <1> HIDE DEF room
  <1>3. n \in Nat /\ n <= Len(s) /\ n <= room
    BY <1>1, <1>2
  <1> HIDE DEF n
  <1>4. Accepted(s) = SubSeq(s, 1, n)
    BY DEF Accepted, n, room
  <1>5. \A i \in 1 .. n : i \in 1 .. Len(s)
    BY <1>2, <1>3
  <1>6. /\ SubSeq(s, 1, n) \in Seq(S) /\ Len(SubSeq(s, 1, n)) = n
        /\ \A i \in 1 .. n : SubSeq(s, 1, n)[i] = s[i]
    <2>1. \A i \in 1 .. n : s[i] \in S
      BY <1>5, ElementOfSeq
    <2> QED BY <1>2, <1>3, <2>1, SubSeqProperties
  <1>7. Used + n <= KB_BUFFER_SIZE - 1
    BY <1>1, <1>3, KeyboardAssumption
  <1> QED BY <1>3, <1>4, <1>6, <1>7
---------------------------------------------------------------------------
(* What the handler does with the code it reads.                           *)

\* The keys whose state the driver keeps; it ignores other extended keys.
Tracked(k) == ~ k[1] \/ k[2] \in DOMAIN Arrow

\* In one place for all the cases of the handler: what becomes of the flags
\* and of key_state when the first code under way is that of key k.
LEMMA HandlerEffect ==
    ASSUME keyboard_handler, extended_key \in BOOLEAN, wire \in Seq(0 .. 255),
           NEW b, b = wire[1], NEW k, k = KeyAt(wire, extended_key, 1)
    PROVE  /\ wire # << >> /\ wire' = Tail(wire) /\ extended_key' = (b = Prefix)
           /\ UNCHANGED <<down, strokes, reader>>
           /\ b = Prefix => UNCHANGED <<shift_pressed, win_pressed, key_state>>
           /\ b # Prefix =>
                /\ shift_pressed' = IF ~ k[1] /\ k[2] \in Shifts THEN ~ IsRelease(b)
                                    ELSE shift_pressed
                /\ win_pressed' = IF k[1] /\ k[2] \in Wins THEN ~ IsRelease(b)
                                  ELSE win_pressed
                /\ key_state' \subseteq key_state \cup {Named(k)}
                /\ ~ Tracked(k) => key_state' = key_state
                /\ Tracked(k) /\ IsRelease(b) => key_state' = key_state \ {Named(k)}
           /\ \/ UNCHANGED ring
              \/ kb_push_utf8(lookup_utf8(Code(b)))
           /\ language' \in {"ar", "en", language}
  <1>1. PICK c \in 0 .. 255 :
           \/ ReadPrefix(c) \/ ReadExtended(c) \/ ReadToggle(c)
           \/ ReadShift(c) \/ ReadRelease(c) \/ ReadText(c)
    BY DEF keyboard_handler
  <1>2. Read(c)
    BY <1>1 DEF ReadPrefix, ReadExtended, ReadToggle, ReadShift, ReadRelease, ReadText,
       ReadPlain
  <1>3. /\ wire # << >> /\ c = b /\ wire' = Tail(wire)
        /\ UNCHANGED <<down, strokes, reader>>
    BY <1>2 DEF Read
  <1>4. k = <<extended_key, Code(b)>> /\ k[1] = extended_key /\ k[2] = Code(b)
    BY DEF KeyAt, Behind
  <1>5. ~ (Shifts \cap Wins # {}) /\ Prefix >= ReleaseBit /\ ~ IsRelease(Space)
        /\ Code(Space) \notin Shifts /\ Space # Prefix
    BY DEF Shifts, Wins, Prefix, ReleaseBit, IsRelease, Space, Code
  <1>6. CASE ReadPrefix(c)
    BY <1>3, <1>6 DEF ReadPrefix
  <1>7. CASE ReadExtended(c)
    <2>1. /\ b # Prefix /\ extended_key /\ extended_key' = FALSE
          /\ win_pressed' = IF Code(b) \in Wins THEN ~ IsRelease(b) ELSE win_pressed
          /\ IF Code(b) \in DOMAIN Arrow THEN SetState(Arrow[Code(b)], ~ IsRelease(b))
                                         ELSE UNCHANGED key_state
          /\ UNCHANGED <<language, shift_pressed, ring>>
      BY <1>3, <1>7 DEF ReadExtended
    <2>2. k[2] \in DOMAIN Arrow => Named(k) = Arrow[Code(b)]
      BY <1>4, <2>1 DEF Named
    <2>3. Tracked(k) <=> Code(b) \in DOMAIN Arrow
      BY <1>4, <2>1 DEF Tracked
    <2> QED BY <1>3, <1>4, <2>1, <2>2, <2>3 DEF SetState
  <1>8. CASE ReadToggle(c)
    <2>1. /\ b = Space /\ ~ extended_key /\ extended_key' = extended_key
          /\ language' \in {"ar", "en"}
          /\ UNCHANGED <<shift_pressed, win_pressed, key_state, ring>>
      BY <1>3, <1>8 DEF ReadToggle, ReadPlain, Toggles
    <2> QED BY <1>3, <1>4, <1>5, <2>1
  <1>9. CASE ReadShift(c)
    <2>1. /\ b # Prefix /\ ~ extended_key /\ extended_key' = extended_key
          /\ Code(b) \in Shifts /\ shift_pressed' = ~ IsRelease(b)
          /\ SetState(KEY_LSHIFT, ~ IsRelease(b))
          /\ UNCHANGED <<language, win_pressed, ring>>
      BY <1>3, <1>9 DEF ReadShift, ReadPlain
    <2>2. Tracked(k) /\ Named(k) = KEY_LSHIFT
      BY <1>4, <2>1 DEF Tracked, Named
    <2> QED BY <1>3, <1>4, <2>1, <2>2 DEF SetState
  <1>10. CASE ReadRelease(c)
    <2>1. /\ b # Prefix /\ ~ extended_key /\ extended_key' = extended_key
          /\ Code(b) \notin Shifts /\ IsRelease(b)
          /\ SetState(Code(b), FALSE)
          /\ UNCHANGED <<language, shift_pressed, win_pressed, ring>>
      BY <1>3, <1>10 DEF ReadRelease, ReadPlain
    <2>2. Tracked(k) /\ Named(k) = Code(b)
      BY <1>4, <2>1 DEF Tracked, Named
    <2> QED BY <1>3, <1>4, <2>1, <2>2 DEF SetState
  <1>11. CASE ReadText(c)
    <2>1. /\ b # Prefix /\ ~ extended_key /\ extended_key' = extended_key
          /\ Code(b) \notin Shifts /\ ~ IsRelease(b)
          /\ SetState(Code(b), TRUE)
          /\ kb_push_utf8(lookup_utf8(Code(b)))
          /\ UNCHANGED <<language, shift_pressed, win_pressed>>
      BY <1>3, <1>11 DEF ReadText, ReadPlain
    <2>2. Tracked(k) /\ Named(k) = Code(b)
      BY <1>4, <2>1 DEF Tracked, Named
    <2> QED BY <1>3, <1>4, <2>1, <2>2 DEF SetState
  <1> QED BY <1>1, <1>6, <1>7, <1>8, <1>9, <1>10, <1>11
---------------------------------------------------------------------------
(* Types.                                                                  *)

WireOK == Whole(wire, extended_key)

TypeInv == TypeOK /\ WireOK

LEMMA NamedRange ==
    ASSUME NEW k \in Keys
    PROVE  Named(k) \in 0 .. 127
  <1>1. k[2] \in 1 .. 127
    BY KeyboardAssumption
  <1>2. CASE k[1] /\ k[2] \in DOMAIN Arrow
    <2>1. k[2] \in {72, 80, 77, 75}
      BY <1>2 DEF Arrow
    <2>2. Arrow[k[2]] \in {1, 2, 3, 4}
      BY <2>1 DEF Arrow
    <2>3. Named(k) = Arrow[k[2]]
      BY <1>2 DEF Named
    <2> QED BY <2>2, <2>3
  <1>3. CASE ~ k[1] /\ k[2] \in Shifts
    BY <1>3 DEF Named, KEY_LSHIFT
  <1>4. CASE ~ (k[1] /\ k[2] \in DOMAIN Arrow) /\ ~ (~ k[1] /\ k[2] \in Shifts)
    BY <1>1, <1>4 DEF Named
  <1> QED BY <1>2, <1>3, <1>4

\* A push fills slots of the buffer.
LEMMA PushTypes ==
    ASSUME TypeOK, NEW S, NEW s \in Seq(S), kb_push_utf8(s)
    PROVE  DOMAIN kb_buffer' = Slots /\ kb_head' \in Slots /\ kb_tail' \in Slots
  <1>1. kb_head \in Slots /\ kb_tail \in Slots
    BY DEF TypeOK
  <1>2. Len(Accepted(s)) \in Nat
    BY <1>1, AcceptedFits
  <1>3. (kb_head + Len(Accepted(s))) % KB_BUFFER_SIZE \in Slots
    BY <1>1, <1>2, KeyboardAssumption DEF Slots
  <1>4. DOMAIN kb_buffer' = Slots /\ kb_tail' = kb_tail
        /\ kb_head' = (kb_head + Len(Accepted(s))) % KB_BUFFER_SIZE
    BY DEF kb_push_utf8
  <1> QED BY <1>1, <1>3, <1>4

\* A key is pressed, repeats or is released.
LEMMA KeyKeepsTypes ==
    ASSUME TypeInv, NEW k \in Keys, Press(k) \/ Release(k)
    PROVE  TypeInv'
  <1>1. /\ \E bit \in {0, ReleaseBit} : wire' = wire \o Sent(k, bit)
        /\ strokes' \in {strokes, strokes + 1} /\ strokes' <= MaxStrokes
        /\ down' \subseteq down \cup {k}
        /\ UNCHANGED <<decoder, ring, reader>>
    BY KeyboardAssumption DEF Press, Release, TypeInv, TypeOK
  <1>2. wire \in Seq(0 .. 255) /\ extended_key \in BOOLEAN /\ Whole(wire, extended_key)
    BY DEF TypeInv, TypeOK, WireOK
  <1>3. wire' \in Seq(0 .. 255) /\ Whole(wire', extended_key)
    <2>1. PICK bit \in {0, ReleaseBit} : wire' = wire \o Sent(k, bit)
      BY <1>1
    <2>2. OneMore(wire, extended_key, k, bit, wire')
      BY <1>2, <2>1, WireAppended
    <2> QED BY <2>2 DEF OneMore
  <1>4. strokes' \in 0 .. MaxStrokes
    BY <1>1, KeyboardAssumption DEF TypeInv, TypeOK
  <1> QED BY <1>1, <1>3, <1>4 DEF TypeInv, TypeOK, WireOK, decoder, ring, reader

LEMMA HandlerKeepsTypes ==
    ASSUME TypeInv, keyboard_handler
    PROVE  TypeInv'
  <1> DEFINE b == wire[1]
             k == KeyAt(wire, extended_key, 1)
  <1>1. /\ wire \in Seq(0 .. 255) /\ extended_key \in BOOLEAN
        /\ Whole(wire, extended_key)
    BY DEF TypeInv, TypeOK, WireOK
  <1>2. /\ wire # << >> /\ wire' = Tail(wire) /\ extended_key' = (b = Prefix)
        /\ UNCHANGED <<down, strokes, reader>>
        /\ b = Prefix => UNCHANGED <<shift_pressed, win_pressed, key_state>>
        /\ b # Prefix => /\ shift_pressed' \in {shift_pressed, ~ IsRelease(b)}
                         /\ win_pressed' \in {win_pressed, ~ IsRelease(b)}
                         /\ key_state' \subseteq key_state \cup {Named(k)}
        /\ \/ UNCHANGED ring
           \/ kb_push_utf8(lookup_utf8(Code(b)))
        /\ language' \in {"ar", "en", language}
    BY <1>1, HandlerEffect
  <1>3. wire' \in Seq(0 .. 255) /\ 1 \in DOMAIN wire /\ Whole(wire', extended_key')
    <2>1. OneLess(wire, extended_key, wire', extended_key')
      BY <1>1, <1>2, WireRead
    <2> QED BY <2>1 DEF OneLess
  <1>4. b # Prefix => k \in Keys
    BY <1>1, <1>3 DEF Whole
  <1>5. key_state' \subseteq 0 .. 127
    BY <1>2, <1>4, NamedRange DEF TypeInv, TypeOK
  <1>6. shift_pressed' \in BOOLEAN /\ win_pressed' \in BOOLEAN /\ extended_key' \in BOOLEAN
    <2>1. IsRelease(b) \in BOOLEAN
      BY DEF IsRelease
    <2> QED BY <1>2, <2>1 DEF TypeInv, TypeOK
  <1>7. DOMAIN kb_buffer' = Slots /\ kb_head' \in Slots /\ kb_tail' \in Slots
    <2>1. CASE UNCHANGED ring
      BY <2>1 DEF ring, TypeInv, TypeOK
    <2>2. CASE kb_push_utf8(lookup_utf8(Code(b)))
      BY <2>2, TextIsSeq, PushTypes DEF TypeInv
    <2> QED BY <1>2, <2>1, <2>2
  <1> HIDE DEF b, k
  <1> QED BY <1>2, <1>3, <1>5, <1>6, <1>7 DEF TypeInv, TypeOK, WireOK, reader

LEMMA ReaderKeepsTypes ==
    ASSUME TypeInv, NEW r \in Readers, ReadTest(r) \/ ReadLoad(r) \/ ReadAdvance(r)
    PROVE  TypeInv'
  <1>1. /\ \E s \in {"test", "load", "advance"} : pc' = [pc EXCEPT ![r] = s]
        /\ DOMAIN char' = DOMAIN char
        /\ kb_tail' \in {kb_tail, (kb_tail + 1) % KB_BUFFER_SIZE}
        /\ UNCHANGED <<hardware, decoder, kb_buffer, kb_head>>
    BY DEF ReadTest, ReadLoad, ReadAdvance, Goto, ring
  <1>2. kb_tail' \in Slots
    BY <1>1, KeyboardAssumption DEF TypeInv, TypeOK, Slots
  <1>3. pc' \in [Readers -> {"test", "load", "advance"}]
    BY <1>1 DEF TypeInv, TypeOK
  <1> QED BY <1>1, <1>2, <1>3 DEF TypeInv, TypeOK, WireOK, hardware, decoder

LEMMA InitTypes == Init => TypeInv
  <1>1. 0 \in Slots /\ 0 \in 0 .. MaxStrokes
    BY KeyboardAssumption DEF Slots
  <1> QED BY <1>1 DEF Init, TypeInv, TypeOK, WireOK, Whole

LEMMA NextTypes == TypeInv /\ [Next]_vars => TypeInv'
  <1> SUFFICES ASSUME TypeInv, [Next]_vars PROVE TypeInv'
    OBVIOUS
  <1>1. CASE UNCHANGED vars
    BY <1>1 DEF vars, hardware, decoder, ring, reader, TypeInv, TypeOK, WireOK
  <1> QED BY <1>1, KeyKeepsTypes, HandlerKeepsTypes, ReaderKeepsTypes DEF Next, Quiet

LEMMA TypeInvariant == Spec => []TypeInv
  <1> QED BY InitTypes, NextTypes, PTL DEF Spec

\* The driver's flags, the state of the keys and the indices of the buffer stay
\* in range whatever the keys send.
THEOREM KeyboardTypeCorrect == Spec => []TypeOK
  <1>1. TypeInv => TypeOK
    BY DEF TypeInv
  <1> QED BY <1>1, TypeInvariant, PTL
---------------------------------------------------------------------------
(* A key that the driver has, or is about to have, as pressed is held, or  *)
(* its release is under way behind the press.                              *)

Until(w, e, d, k, i) ==
    \/ k \in d
    \/ \E j \in DOMAIN w : /\ j > i
                           /\ w[j] # Prefix /\ KeyAt(w, e, j) = k /\ IsRelease(w[j])

\* d are the keys that are held, s is key_state.
Pressed(w, e, d, s) ==
    /\ \A c \in s : \E k \in Keys : Tracked(k) /\ Named(k) = c /\ Until(w, e, d, k, 0)
    /\ \A i \in DOMAIN w :
          w[i] # Prefix /\ ~ IsRelease(w[i]) => Until(w, e, d, KeyAt(w, e, i), i)

LEMMA PressedAppended ==
    ASSUME NEW w \in Seq(0 .. 255), NEW e, Whole(w, e), NEW d, NEW s, Pressed(w, e, d, s),
           NEW k \in Keys, NEW bit \in {0, ReleaseBit}, NEW v, v = w \o Sent(k, bit),
           NEW d2, \/ bit = 0 /\ d2 = d \cup {k}
                   \/ bit = ReleaseBit /\ d2 = d \ {k}
    PROVE  Pressed(v, e, d2, s)
  <1> DEFINE n == Len(v)
  <1>0. OneMore(w, e, k, bit, v)
    BY WireAppended
  <1>1. /\ n \in DOMAIN v /\ n > Len(w)
        /\ \A i \in DOMAIN w : i \in DOMAIN v /\ v[i] = w[i] /\ KeyAt(v, e, i) = KeyAt(w, e, i)
        /\ v[n] # Prefix /\ KeyAt(v, e, n) = k
        /\ IsRelease(v[n]) <=> bit = ReleaseBit
        /\ \A i \in DOMAIN v : v[i] # Prefix => i \in DOMAIN w \/ i = n
    BY <1>0 DEF OneMore
  <1>2. Len(w) \in Nat /\ DOMAIN w = 1 .. Len(w) /\ n \in Nat
    <2>1. v \in Seq(0 .. 255)
      BY <1>0 DEF OneMore
    <2> QED BY <2>1, LenProperties
  <1>3. \A i \in DOMAIN w : n > i /\ n > 0
    BY <1>1, <1>2
  <1>4. n > 0
    BY <1>1, <1>2
  <1> HIDE DEF n
  <1>5. ASSUME NEW q, NEW i \in {0} \cup DOMAIN w, Until(w, e, d, q, i)
        PROVE  Until(v, e, d2, q, i)
    <2>1. CASE q = k /\ bit = ReleaseBit
      BY <1>1, <1>3, <1>4, <2>1 DEF Until
    <2>2. CASE q \in d /\ ~ (q = k /\ bit = ReleaseBit)
      BY <2>2 DEF Until
    <2>3. CASE q \notin d
      <3>1. PICK j \in DOMAIN w : j > i /\ w[j] # Prefix /\ KeyAt(w, e, j) = q /\ IsRelease(w[j])
        BY <1>5, <2>3 DEF Until
      <3>2. j \in DOMAIN v /\ v[j] # Prefix /\ KeyAt(v, e, j) = q /\ IsRelease(v[j])
        BY <1>1, <3>1
      <3> QED BY <3>1, <3>2 DEF Until
    <2> QED BY <2>1, <2>2, <2>3
  <1>6. ASSUME NEW c \in s
        PROVE  \E q \in Keys : Tracked(q) /\ Named(q) = c /\ Until(v, e, d2, q, 0)
    <2>1. PICK q \in Keys : Tracked(q) /\ Named(q) = c /\ Until(w, e, d, q, 0)
      BY DEF Pressed
    <2> QED BY <1>5, <2>1
  <1>7. ASSUME NEW i \in DOMAIN v, v[i] # Prefix, ~ IsRelease(v[i])
        PROVE  Until(v, e, d2, KeyAt(v, e, i), i)
    <2>1. CASE i \in DOMAIN w
      <3>1. Until(w, e, d, KeyAt(w, e, i), i)
        BY <1>1, <1>7, <2>1 DEF Pressed
      <3>2. Until(v, e, d2, KeyAt(w, e, i), i)
        BY <1>5, <2>1, <3>1
      <3> QED BY <1>1, <2>1, <3>2
    <2>2. CASE i = n
      <3>1. bit # ReleaseBit
        BY <1>1, <1>7, <2>2
      <3>2. k \in d2
        BY <3>1
      <3> QED BY <1>1, <2>2, <3>2 DEF Until
    <2> QED BY <1>1, <1>7, <2>1, <2>2
  <1> QED BY <1>6, <1>7 DEF Pressed

\* What the handler makes of key_state, s, when it reads the first of the codes w.
StateRead(w, e, s, t) ==
    LET k == KeyAt(w, e, 1) IN
    IF w[1] = Prefix THEN t = s
    ELSE /\ t \subseteq s \cup {Named(k)}
         /\ ~ Tracked(k) => t = s
         /\ Tracked(k) /\ IsRelease(w[1]) => t = s \ {Named(k)}

LEMMA PressedRead ==
    ASSUME NEW w \in Seq(0 .. 255), NEW e, Whole(w, e), w # << >>,
           NEW d, NEW s, Pressed(w, e, d, s),
           NEW v, v = Tail(w), NEW f, f = (w[1] = Prefix),
           NEW t, StateRead(w, e, s, t)
    PROVE  Pressed(v, f, d, t)
  <1> DEFINE k == KeyAt(w, e, 1)
  <1>a. IF w[1] = Prefix THEN t = s
        ELSE /\ t \subseteq s \cup {Named(k)}
             /\ ~ Tracked(k) => t = s
             /\ Tracked(k) /\ IsRelease(w[1]) => t = s \ {Named(k)}
    BY DEF StateRead
  <1>b. k = KeyAt(w, e, 1)
    OBVIOUS
  <1> HIDE DEF k
  <1>0. OneLess(w, e, v, f)
    BY WireRead
  <1>1. /\ 1 \in DOMAIN w
        /\ \A i \in DOMAIN v : /\ i + 1 \in DOMAIN w /\ v[i] = w[i + 1]
                               /\ KeyAt(v, f, i) = KeyAt(w, e, i + 1)
        /\ \A i \in DOMAIN w : i = 1 \/ (i - 1 \in DOMAIN v /\ (i - 1) + 1 = i)
        /\ DOMAIN v \subseteq Nat \ {0}
    BY <1>0 DEF OneLess
  <1>2. DOMAIN w \subseteq Nat
    <2>1. DOMAIN w = 1 .. Len(w) /\ Len(w) \in Nat
      BY LenProperties
    <2> QED BY <2>1
  <1>3. ASSUME NEW q, NEW i \in Nat, Until(w, e, d, q, i + 1)
        PROVE  Until(v, f, d, q, i)
    <2>1. CASE q \in d
      BY <2>1 DEF Until
    <2>2. CASE q \notin d
      <3>1. PICK j \in DOMAIN w : /\ j > i + 1 /\ w[j] # Prefix
                                  /\ KeyAt(w, e, j) = q /\ IsRelease(w[j])
        BY <1>3, <2>2 DEF Until
      <3>2. j # 1 /\ j - 1 > i
        BY <1>2, <3>1
      <3>3. j - 1 \in DOMAIN v /\ (j - 1) + 1 = j
        BY <1>1, <3>2
      <3>4. v[j - 1] = w[j] /\ KeyAt(v, f, j - 1) = KeyAt(w, e, j)
        BY <1>1, <3>3
      <3> QED BY <3>1, <3>2, <3>3, <3>4 DEF Until
    <2> QED BY <2>1, <2>2
  <1>4. ASSUME NEW c \in t
        PROVE  \E q \in Keys : Tracked(q) /\ Named(q) = c /\ Until(v, f, d, q, 0)
    <2>1. CASE c \in s
      <3>1. PICK q \in Keys : Tracked(q) /\ Named(q) = c /\ Until(w, e, d, q, 0)
        BY <2>1 DEF Pressed
      <3>2. CASE q \in d
        BY <3>1, <3>2 DEF Until
      <3>3. CASE q \notin d
        <4>1. PICK j \in DOMAIN w : /\ j > 0 /\ w[j] # Prefix
                                    /\ KeyAt(w, e, j) = q /\ IsRelease(w[j])
          BY <3>1, <3>3 DEF Until
        <4>2. j # 1
          BY <1>a, <1>b, <1>4, <3>1, <4>1
        <4>3. j > 0 + 1
          BY <1>2, <4>1, <4>2
        <4>4. Until(w, e, d, q, 0 + 1)
          BY <4>1, <4>3 DEF Until
        <4> QED BY <1>3, <3>1, <4>4
      <3> QED BY <3>2, <3>3
    <2>2. CASE c \notin s
      <3>1. w[1] # Prefix /\ c = Named(k) /\ Tracked(k) /\ ~ IsRelease(w[1])
        BY <1>a, <1>4, <2>2
      <3>2. k \in Keys
        BY <1>1, <1>b, <3>1 DEF Whole
      <3>3. Until(w, e, d, k, 0 + 1)
        BY <1>1, <1>b, <3>1 DEF Pressed
      <3>4. Until(v, f, d, k, 0)
        BY <1>3, <3>3
      <3> QED BY <3>1, <3>2, <3>4
    <2> QED BY <2>1, <2>2
  <1>5. ASSUME NEW i \in DOMAIN v, v[i] # Prefix, ~ IsRelease(v[i])
        PROVE  Until(v, f, d, KeyAt(v, f, i), i)
    <2>1. /\ i + 1 \in DOMAIN w /\ v[i] = w[i + 1] /\ i \in Nat
          /\ KeyAt(v, f, i) = KeyAt(w, e, i + 1)
      BY <1>1
    <2>2. Until(w, e, d, KeyAt(w, e, i + 1), i + 1)
      BY <1>5, <2>1 DEF Pressed
    <2>3. Until(v, f, d, KeyAt(w, e, i + 1), i)
      BY <1>3, <2>1, <2>2
    <2> QED BY <2>1, <2>3
  <1> QED BY <1>4, <1>5 DEF Pressed
PressedInv == TypeInv /\ Pressed(wire, extended_key, down, key_state)

\* What a press or a release sends, and whether the key is then held.
LEMMA KeySends ==
    ASSUME TypeInv, NEW k \in Keys, Press(k) \/ Release(k)
    PROVE  /\ \E bit \in {0, ReleaseBit} :
                 /\ wire' = wire \o Sent(k, bit)
                 /\ \/ bit = 0 /\ down' = down \cup {k}
                    \/ bit = ReleaseBit /\ down' = down \ {k}
           /\ UNCHANGED <<decoder, ring, reader>>
           /\ wire \in Seq(0 .. 255) /\ Whole(wire, extended_key)
  <1> QED BY DEF Press, Release, TypeInv, TypeOK, WireOK

LEMMA InitPressed == Init => PressedInv
  <1>1. Init => Pressed(wire, extended_key, down, key_state)
    <2> SUFFICES ASSUME Init PROVE Pressed(wire, extended_key, down, key_state)
      OBVIOUS
    <2>1. key_state = {} /\ wire = << >>
      BY DEF Init
    <2>2. DOMAIN wire = {}
      BY <2>1
    <2> QED BY <2>1, <2>2 DEF Pressed
  <1> QED BY <1>1, InitTypes DEF PressedInv

LEMMA NextPressed == PressedInv /\ [Next]_vars => PressedInv'
  <1> SUFFICES ASSUME PressedInv, [Next]_vars PROVE PressedInv'
    OBVIOUS
  <1>1. TypeInv /\ Pressed(wire, extended_key, down, key_state)
    BY DEF PressedInv
  <1>2. TypeInv'
    BY <1>1, NextTypes
  <1>3. ASSUME NEW k \in Keys, Press(k) \/ Release(k)
        PROVE  Pressed(wire', extended_key', down', key_state')
    <2>1. PICK bit \in {0, ReleaseBit} :
             /\ wire' = wire \o Sent(k, bit)
             /\ \/ bit = 0 /\ down' = down \cup {k}
                \/ bit = ReleaseBit /\ down' = down \ {k}
      BY <1>1, <1>3, KeySends
    <2>2. wire \in Seq(0 .. 255) /\ Whole(wire, extended_key)
          /\ extended_key' = extended_key /\ key_state' = key_state
      BY <1>1, <1>3, KeySends DEF decoder
    <2>3. Pressed(wire', extended_key, down', key_state)
      BY <1>1, <2>1, <2>2, PressedAppended
    <2> QED BY <2>2, <2>3
  <1>4. ASSUME keyboard_handler
        PROVE  Pressed(wire', extended_key', down', key_state')
    <2>1. wire \in Seq(0 .. 255) /\ Whole(wire, extended_key) /\ extended_key \in BOOLEAN
      BY <1>1 DEF TypeInv, TypeOK, WireOK
    <2>2. /\ wire # << >> /\ wire' = Tail(wire) /\ extended_key' = (wire[1] = Prefix)
          /\ down' = down
      BY <1>4, <2>1, HandlerEffect
    <2>3. StateRead(wire, extended_key, key_state, key_state')
      BY <1>4, <2>1, HandlerEffect DEF StateRead
    <2>4. Pressed(wire', extended_key', down, key_state')
      BY <1>1, <2>1, <2>2, <2>3, PressedRead
    <2> QED BY <2>2, <2>4
  <1>5. ASSUME NEW r \in Readers, ReadTest(r) \/ ReadLoad(r) \/ ReadAdvance(r)
        PROVE  UNCHANGED <<wire, extended_key, down, key_state>>
    BY <1>5 DEF ReadTest, ReadLoad, ReadAdvance, hardware, decoder
  <1>6. CASE UNCHANGED vars
    BY <1>1, <1>2, <1>6 DEF PressedInv, vars, hardware, decoder
  <1> QED BY <1>1, <1>2, <1>3, <1>4, <1>5, <1>6 DEF PressedInv, Next, Quiet

\* Once the driver has seen all scan codes, a key it reports as pressed is held.
THEOREM AlwaysPressedIsHeld == Spec => []PressedIsHeld
  <1>1. PressedInv => PressedIsHeld
    <2> SUFFICES ASSUME PressedInv, wire = << >>, NEW c \in key_state
                 PROVE  \E k \in down : Named(k) = c
      BY DEF PressedIsHeld
    <2>1. PICK k \in Keys : Named(k) = c /\ Until(wire, extended_key, down, k, 0)
      BY DEF PressedInv, Pressed
    <2>2. DOMAIN wire = {}
      OBVIOUS
    <2> QED BY <2>1, <2>2 DEF Until
  <1> QED BY <1>1, InitPressed, NextPressed, PTL DEF Spec

---------------------------------------------------------------------------
(* The modifiers.  F are the keys that share a flag: the last of their     *)
(* codes under way, or the flag if there is none, says whether one is held.*)

Hits(w, e, F, i) == w[i] # Prefix /\ KeyAt(w, e, i) \in F

Settled(F, flag, w, e, d) ==
    /\ (\A i \in DOMAIN w : ~ Hits(w, e, F, i)) => (flag <=> \E k \in F : k \in d)
    /\ \A i \in DOMAIN w :
          Hits(w, e, F, i) /\ (\A j \in DOMAIN w : j > i => ~ Hits(w, e, F, j)) =>
             (~ IsRelease(w[i]) <=> \E k \in F : k \in d)

LEMMA SettledAppended ==
    ASSUME NEW w \in Seq(0 .. 255), NEW e, Whole(w, e), NEW d, NEW flag,
           NEW F, \A p, q \in F : p = q, Settled(F, flag, w, e, d),
           NEW k \in Keys, NEW bit \in {0, ReleaseBit}, NEW v, v = w \o Sent(k, bit),
           NEW d2, \/ bit = 0 /\ d2 = d \cup {k}
                   \/ bit = ReleaseBit /\ d2 = d \ {k}
    PROVE  Settled(F, flag, v, e, d2)
  <1> DEFINE n == Len(v)
  <1>0. OneMore(w, e, k, bit, v)
    BY WireAppended
  <1>1. /\ n \in DOMAIN v /\ n > Len(w)
        /\ \A i \in DOMAIN w : i \in DOMAIN v /\ v[i] = w[i] /\ KeyAt(v, e, i) = KeyAt(w, e, i)
        /\ v[n] # Prefix /\ KeyAt(v, e, n) = k
        /\ IsRelease(v[n]) <=> bit = ReleaseBit
        /\ \A i \in DOMAIN v : v[i] # Prefix => i \in DOMAIN w \/ i = n
    BY <1>0 DEF OneMore
  <1>2. Len(w) \in Nat /\ DOMAIN w = 1 .. Len(w) /\ n \in Nat
    <2>1. v \in Seq(0 .. 255)
      BY <1>0 DEF OneMore
    <2> QED BY <2>1, LenProperties
  <1>3. \A i \in DOMAIN w : n > i
    BY <1>1, <1>2
  <1> HIDE DEF n
  <1>4. \A i \in DOMAIN w : Hits(v, e, F, i) <=> Hits(w, e, F, i)
    BY <1>1 DEF Hits
  <1>5. \A i \in DOMAIN v : Hits(v, e, F, i) => i \in DOMAIN w \/ i = n
    BY <1>1 DEF Hits
  <1>6. CASE k \in F
    <2>1. Hits(v, e, F, n)
      BY <1>1, <1>6 DEF Hits
    <2>2. bit # ReleaseBit <=> \E q \in F : q \in d2
      <3>1. 0 # ReleaseBit
        BY DEF ReleaseBit
      <3> QED BY <1>6, <3>1
    <2>3. ASSUME NEW i \in DOMAIN v, Hits(v, e, F, i),
                 \A j \in DOMAIN v : j > i => ~ Hits(v, e, F, j)
          PROVE  i = n
      BY <1>1, <1>3, <1>5, <2>1, <2>3
    <2> QED BY <1>1, <2>1, <2>2, <2>3 DEF Settled
  <1>7. CASE k \notin F
    <2>1. ~ Hits(v, e, F, n)
      BY <1>1, <1>7 DEF Hits
    <2>2. (\E q \in F : q \in d2) <=> (\E q \in F : q \in d)
      BY <1>7
    <2>3. ASSUME \A i \in DOMAIN v : ~ Hits(v, e, F, i)
          PROVE  flag <=> \E q \in F : q \in d2
      <3>1. \A i \in DOMAIN w : ~ Hits(w, e, F, i)
        BY <1>1, <1>4, <2>3
      <3> QED BY <2>2, <3>1 DEF Settled
    <2>4. ASSUME NEW i \in DOMAIN v, Hits(v, e, F, i),
                 \A j \in DOMAIN v : j > i => ~ Hits(v, e, F, j)
          PROVE  ~ IsRelease(v[i]) <=> \E q \in F : q \in d2
      <3>1. i \in DOMAIN w /\ v[i] = w[i] /\ Hits(w, e, F, i)
        BY <1>1, <1>4, <1>5, <2>1, <2>4
      <3>2. \A j \in DOMAIN w : j > i => ~ Hits(w, e, F, j)
        BY <1>1, <1>4, <2>4
      <3> QED BY <2>2, <3>1, <3>2 DEF Settled
    <2> QED BY <2>3, <2>4 DEF Settled
  <1> QED BY <1>6, <1>7

LEMMA SettledRead ==
    ASSUME NEW w \in Seq(0 .. 255), NEW e, Whole(w, e), w # << >>,
           NEW F, NEW flag, NEW d, Settled(F, flag, w, e, d),
           NEW v, v = Tail(w), NEW f, f = (w[1] = Prefix),
           NEW flag2, flag2 = IF Hits(w, e, F, 1) THEN ~ IsRelease(w[1]) ELSE flag
    PROVE  Settled(F, flag2, v, f, d)
  <1>0. OneLess(w, e, v, f)
    BY WireRead
  <1>1. /\ 1 \in DOMAIN w
        /\ \A i \in DOMAIN v : /\ i + 1 \in DOMAIN w /\ v[i] = w[i + 1]
                               /\ KeyAt(v, f, i) = KeyAt(w, e, i + 1)
        /\ \A i \in DOMAIN w : i = 1 \/ (i - 1 \in DOMAIN v /\ (i - 1) + 1 = i)
        /\ DOMAIN v \subseteq Nat \ {0}
    BY <1>0 DEF OneLess
  <1>2. DOMAIN w \subseteq Nat
    <2>1. DOMAIN w = 1 .. Len(w) /\ Len(w) \in Nat
      BY LenProperties
    <2> QED BY <2>1
  <1>3. \A i \in DOMAIN v : Hits(v, f, F, i) <=> Hits(w, e, F, i + 1)
    BY <1>1 DEF Hits
  <1>4. ASSUME NEW i \in DOMAIN w, i # 1, Hits(w, e, F, i)
        PROVE  i - 1 \in DOMAIN v /\ (i - 1) + 1 = i /\ Hits(v, f, F, i - 1)
    <2>1. i - 1 \in DOMAIN v /\ (i - 1) + 1 = i
      BY <1>1, <1>4
    <2> QED BY <1>3, <1>4, <2>1
  <1>5. ASSUME \A i \in DOMAIN v : ~ Hits(v, f, F, i)
        PROVE  flag2 <=> \E q \in F : q \in d
    <2>1. \A i \in DOMAIN w : i # 1 => ~ Hits(w, e, F, i)
      BY <1>4, <1>5
    <2>2. CASE Hits(w, e, F, 1)
      <3>1. \A j \in DOMAIN w : j > 1 => ~ Hits(w, e, F, j)
        BY <2>1
      <3> QED BY <1>1, <2>2, <3>1 DEF Settled
    <2>3. CASE ~ Hits(w, e, F, 1)
      BY <2>1, <2>3 DEF Settled
    <2> QED BY <2>2, <2>3
  <1>6. ASSUME NEW i \in DOMAIN v, Hits(v, f, F, i),
               \A j \in DOMAIN v : j > i => ~ Hits(v, f, F, j)
        PROVE  ~ IsRelease(v[i]) <=> \E q \in F : q \in d
    <2>1. i + 1 \in DOMAIN w /\ v[i] = w[i + 1] /\ Hits(w, e, F, i + 1) /\ i \in Nat \ {0}
      BY <1>1, <1>3, <1>6
    <2>2. ASSUME NEW j \in DOMAIN w, j > i + 1, Hits(w, e, F, j)
          PROVE  FALSE
      <3>1. j # 1 /\ j - 1 > i
        BY <1>2, <2>1, <2>2
      <3>2. j - 1 \in DOMAIN v /\ Hits(v, f, F, j - 1)
        BY <1>4, <2>2, <3>1
      <3> QED BY <1>6, <3>1, <3>2
    <2> QED BY <2>1, <2>2 DEF Settled
  <1> QED BY <1>5, <1>6 DEF Settled
ShiftKeys == {k \in Keys : ~ k[1] /\ k[2] \in Shifts}
WinKeys == {k \in Keys : k[1] /\ k[2] \in Wins}

ModifierInv ==
    /\ TypeInv
    /\ Settled(ShiftKeys, shift_pressed, wire, extended_key, down)
    /\ Settled(WinKeys, win_pressed, wire, extended_key, down)

LEMMA InitModifiers == Init => ModifierInv
  <1> SUFFICES ASSUME Init PROVE ModifierInv
    OBVIOUS
  <1>1. wire = << >> /\ down = {} /\ shift_pressed = FALSE /\ win_pressed = FALSE
    BY DEF Init
  <1>2. DOMAIN wire = {}
    BY <1>1
  <1> QED BY <1>1, <1>2, InitTypes DEF ModifierInv, Settled

LEMMA NextModifiers ==
    ASSUME \A p, q \in ShiftKeys : p = q, \A p, q \in WinKeys : p = q
    PROVE  ModifierInv /\ [Next]_vars => ModifierInv'
  <1> SUFFICES ASSUME ModifierInv, [Next]_vars PROVE ModifierInv'
    OBVIOUS
  <1>1. /\ TypeInv
        /\ Settled(ShiftKeys, shift_pressed, wire, extended_key, down)
        /\ Settled(WinKeys, win_pressed, wire, extended_key, down)
    BY DEF ModifierInv
  <1>2. TypeInv'
    BY <1>1, NextTypes
  <1>3. ASSUME NEW k \in Keys, Press(k) \/ Release(k)
        PROVE  /\ Settled(ShiftKeys, shift_pressed', wire', extended_key', down')
               /\ Settled(WinKeys, win_pressed', wire', extended_key', down')
    <2>1. PICK bit \in {0, ReleaseBit} :
             /\ wire' = wire \o Sent(k, bit)
             /\ \/ bit = 0 /\ down' = down \cup {k}
                \/ bit = ReleaseBit /\ down' = down \ {k}
      BY <1>1, <1>3, KeySends
    <2>2. /\ wire \in Seq(0 .. 255) /\ Whole(wire, extended_key)
          /\ UNCHANGED <<extended_key, shift_pressed, win_pressed>>
      BY <1>1, <1>3, KeySends DEF decoder
    <2>3. Settled(ShiftKeys, shift_pressed, wire', extended_key, down')
      BY <1>1, <2>1, <2>2, SettledAppended
    <2>4. Settled(WinKeys, win_pressed, wire', extended_key, down')
      BY <1>1, <2>1, <2>2, SettledAppended
    <2> QED BY <2>2, <2>3, <2>4
  <1>4. ASSUME keyboard_handler
        PROVE  /\ Settled(ShiftKeys, shift_pressed', wire', extended_key', down')
               /\ Settled(WinKeys, win_pressed', wire', extended_key', down')
    <2> DEFINE k == KeyAt(wire, extended_key, 1)
    <2>1. wire \in Seq(0 .. 255) /\ Whole(wire, extended_key) /\ extended_key \in BOOLEAN
      BY <1>1 DEF TypeInv, TypeOK, WireOK
    <2>2. /\ wire # << >> /\ wire' = Tail(wire) /\ extended_key' = (wire[1] = Prefix)
          /\ down' = down
          /\ wire[1] = Prefix => UNCHANGED <<shift_pressed, win_pressed>>
          /\ wire[1] # Prefix =>
                /\ shift_pressed' = IF ~ k[1] /\ k[2] \in Shifts THEN ~ IsRelease(wire[1])
                                    ELSE shift_pressed
                /\ win_pressed' = IF k[1] /\ k[2] \in Wins THEN ~ IsRelease(wire[1])
                                  ELSE win_pressed
      BY <1>4, <2>1, HandlerEffect
    <2>3. wire[1] # Prefix => k \in Keys
      <3>1. OneLess(wire, extended_key, wire', extended_key')
        BY <2>1, <2>2, WireRead
      <3> QED BY <2>1, <3>1 DEF OneLess, Whole
    <2>4. /\ Hits(wire, extended_key, ShiftKeys, 1) <=>
                wire[1] # Prefix /\ ~ k[1] /\ k[2] \in Shifts
          /\ Hits(wire, extended_key, WinKeys, 1) <=>
                wire[1] # Prefix /\ k[1] /\ k[2] \in Wins
      BY <2>3 DEF Hits, ShiftKeys, WinKeys
    <2> HIDE DEF k
    <2>5. shift_pressed' = IF Hits(wire, extended_key, ShiftKeys, 1) THEN ~ IsRelease(wire[1])
                           ELSE shift_pressed
      BY <2>2, <2>4
    <2>6. win_pressed' = IF Hits(wire, extended_key, WinKeys, 1) THEN ~ IsRelease(wire[1])
                         ELSE win_pressed
      BY <2>2, <2>4
    <2>7. Settled(ShiftKeys, shift_pressed', wire', extended_key', down)
      BY <1>1, <2>1, <2>2, <2>5, SettledRead
    <2>8. Settled(WinKeys, win_pressed', wire', extended_key', down)
      BY <1>1, <2>1, <2>2, <2>6, SettledRead
    <2> QED BY <2>2, <2>7, <2>8
  <1>5. ASSUME NEW r \in Readers, ReadTest(r) \/ ReadLoad(r) \/ ReadAdvance(r)
        PROVE  UNCHANGED <<wire, extended_key, down, shift_pressed, win_pressed>>
    BY <1>5 DEF ReadTest, ReadLoad, ReadAdvance, hardware, decoder
  <1>6. CASE UNCHANGED vars
    BY <1>1, <1>2, <1>6 DEF ModifierInv, vars, hardware, decoder
  <1> QED BY <1>1, <1>2, <1>3, <1>4, <1>5, <1>6 DEF ModifierInv, Next, Quiet

\* With one Shift key and one Win key in use, once the driver has seen all scan
\* codes it has the modifiers as they are on the keyboard.
THEOREM AlwaysModifiersSettle ==
    ASSUME \A p, q \in ShiftKeys : p = q, \A p, q \in WinKeys : p = q
    PROVE  Spec => []ModifiersSettle
  <1>1. ModifierInv => ModifiersSettle
    <2> SUFFICES ASSUME ModifierInv, wire = << >> PROVE ModifiersSettle
      BY DEF ModifiersSettle
    <2>1. DOMAIN wire = {}
      OBVIOUS
    <2>2. /\ shift_pressed <=> \E k \in ShiftKeys : k \in down
          /\ win_pressed <=> \E k \in WinKeys : k \in down
      BY <2>1 DEF ModifierInv, Settled
    <2>3. shift_pressed \in BOOLEAN /\ win_pressed \in BOOLEAN /\ down \subseteq Keys
      BY DEF ModifierInv, TypeInv, TypeOK
    <2> QED BY <2>2, <2>3 DEF ModifiersSettle, ShiftKeys, WinKeys
  <1> QED BY <1>1, InitModifiers, NextModifiers, PTL DEF Spec
---------------------------------------------------------------------------
(* The ring buffer is a queue.  First the arithmetic of its indices, for n *)
(* slots, kb_head = h and kb_tail = t.                                     *)

\* Remainders by n of what is less than n away from 0 .. n - 1.
LEMMA ModSmall ==
    ASSUME NEW n \in Nat \ {0}
    PROVE  /\ \A a \in 0 .. n - 1 : a % n = a
           /\ \A a \in n .. 2 * n - 1 : a % n = a - n
           /\ \A a \in - n .. -1 : a % n = a + n
  <1>1. \A a \in 0 .. n - 1 : a % n = a
    OBVIOUS
  <1>2. \A a \in n .. 2 * n - 1 : a % n = a - n
    OBVIOUS
  <1>3. \A a \in - n .. -1 : a % n = a + n
    OBVIOUS
  <1> QED BY <1>1, <1>2, <1>3

\* Storing m more behind the (h - t) % n slots in use leaves those alone.
LEMMA PushSlots ==
    ASSUME NEW n \in Nat \ {0}, NEW h \in 0 .. n - 1, NEW t \in 0 .. n - 1,
           NEW m \in Nat, ((h - t) % n) + m <= n - 1
    PROVE  /\ (((h + m) % n) - t) % n = ((h - t) % n) + m
           /\ \A i \in 1 .. (h - t) % n :
                 /\ (t + i - 1) % n \in 0 .. n - 1
                 /\ ~ (((((t + i - 1) % n) - h) % n) + 1 <= m)
  <1> DEFINE u == (h - t) % n
  <1>1. u = IF t <= h THEN h - t ELSE h - t + n
    <2>1. h - t \in Int /\ (t <= h => h - t \in 0 .. n - 1) /\ (~ (t <= h) => h - t \in - n .. -1)
      OBVIOUS
    <2> QED BY <2>1, ModSmall
  <1>2. u + m <= n - 1
    OBVIOUS
  <1> HIDE DEF u
  <1>3. (h + m) % n = IF h + m < n THEN h + m ELSE h + m - n
    <2>1. CASE h + m < n
      <3>1. h + m \in 0 .. n - 1
        BY <2>1
      <3> QED BY <2>1, <3>1, ModSmall
    <2>2. CASE n <= h + m
      <3> DEFINE a == h + m
      <3>1. a \in n .. 2 * n - 1 /\ ~ (a < n)
        BY <1>1, <1>2, <2>2
      <3> HIDE DEF a
      <3>2. a % n = a - n
        BY <3>1, ModSmall
      <3> QED BY <3>1, <3>2 DEF a
    <2> QED BY <2>1, <2>2
  <1>4. (((h + m) % n) - t) % n = u + m
    <2> DEFINE g == (h + m) % n
    <2>0. g = IF h + m < n THEN h + m ELSE h + m - n
      BY <1>3
    <2> HIDE DEF g
    <2>1. CASE t <= g
      <3>1. g - t \in 0 .. n - 1 /\ g - t \in Int /\ g - t = u + m
        BY <1>1, <1>2, <2>0, <2>1
      <3>2. (g - t) % n = g - t
        BY <3>1, ModSmall
      <3> QED BY <3>1, <3>2 DEF g
    <2>2. CASE ~ (t <= g)
      <3>1. g - t \in - n .. -1 /\ g - t \in Int /\ g - t + n = u + m
        BY <1>1, <1>2, <2>0, <2>2
      <3>2. (g - t) % n = g - t + n
        BY <3>1, ModSmall
      <3> QED BY <3>1, <3>2 DEF g
    <2> QED BY <2>1, <2>2
  <1>5. ASSUME NEW i \in 1 .. u
        PROVE  /\ (t + i - 1) % n \in 0 .. n - 1
               /\ ~ (((((t + i - 1) % n) - h) % n) + 1 <= m)
    <2> DEFINE j == (t + i - 1) % n
    <2>1. j = IF t + i - 1 < n THEN t + i - 1 ELSE t + i - 1 - n
      <3> DEFINE a == t + i - 1
      <3>1. a \in Int /\ (a < n => a \in 0 .. n - 1) /\ (~ (a < n) => a \in n .. 2 * n - 1)
        BY <1>1, <1>2
      <3> HIDE DEF a
      <3>2. a % n = IF a < n THEN a ELSE a - n
        <4>1. CASE a < n
          BY <3>1, <4>1, ModSmall
        <4>2. CASE ~ (a < n)
          BY <3>1, <4>2, ModSmall
        <4> QED BY <4>1, <4>2
      <3> QED BY <3>2 DEF a, j
    <2> HIDE DEF j
    <2>2. CASE h <= j
      <3>1. j - h \in Int /\ j - h \in 0 .. n - 1 /\ ~ (j - h + 1 <= m) /\ j \in 0 .. n - 1
        BY <1>1, <1>2, <2>1, <2>2
      <3>2. (j - h) % n = j - h
        BY <3>1, ModSmall
      <3> QED BY <3>1, <3>2 DEF j
    <2>3. CASE ~ (h <= j)
      <3>1. j - h \in Int /\ j - h \in - n .. -1 /\ ~ (j - h + n + 1 <= m) /\ j \in 0 .. n - 1
        BY <1>1, <1>2, <2>1, <2>3
      <3>2. (j - h) % n = j - h + n
        BY <3>1, ModSmall
      <3> QED BY <3>1, <3>2 DEF j
    <2> QED BY <2>2, <2>3
  <1> QED BY <1>4, <1>5 DEF u

\* Advancing t gives up the first slot in use and no other.
LEMMA GetSlots ==
    ASSUME NEW n \in Nat \ {0}, NEW h \in 0 .. n - 1, NEW t \in 0 .. n - 1, h # t,
           NEW g \in 0 .. n - 1, g = (t + 1) % n
    PROVE  /\ (h - t) % n \in 1 .. n - 1
           /\ (h - g) % n = ((h - t) % n) - 1
           /\ t % n = t
           /\ \A i \in 1 .. ((h - t) % n) - 1 : (g + i - 1) % n = (t + i) % n
  <1> DEFINE u == (h - t) % n
  <1>1. u = IF t <= h THEN h - t ELSE h - t + n
    <2>1. h - t \in Int /\ (t <= h => h - t \in 0 .. n - 1) /\ (~ (t <= h) => h - t \in - n .. -1)
      OBVIOUS
    <2> QED BY <2>1, ModSmall
  <1>2. g = IF t + 1 < n THEN t + 1 ELSE 0
    <2>1. CASE t + 1 < n
      BY <2>1
    <2>2. CASE t + 1 = n
      BY <2>2
    <2> QED BY <2>1, <2>2
  <1> HIDE DEF u
  <1>3. (h - g) % n = u - 1
    <2>1. CASE g <= h
      <3>1. h - g \in 0 .. n - 1 /\ h - g \in Int /\ h - g = u - 1
        BY <1>1, <1>2, <2>1
      <3>2. (h - g) % n = h - g
        BY <3>1, ModSmall
      <3> QED BY <3>1, <3>2
    <2>2. CASE ~ (g <= h)
      <3>1. h - g \in - n .. -1 /\ h - g \in Int /\ h - g + n = u - 1
        BY <1>1, <1>2, <2>2
      <3>2. (h - g) % n = h - g + n
        BY <3>1, ModSmall
      <3> QED BY <3>1, <3>2
    <2> QED BY <2>1, <2>2
  <1>4. ASSUME NEW i \in 1 .. u - 1 PROVE (g + i - 1) % n = (t + i) % n
    <2>1. CASE t + 1 < n
      BY <1>2, <2>1
    <2>2. CASE ~ (t + 1 < n)
      <3>1. g + i - 1 = i - 1 /\ t + i = n + i - 1 /\ i - 1 \in 0 .. n - 1 /\ i - 1 \in Int
            /\ t + i \in Int /\ t + i \in n .. 2 * n - 1 /\ t + i - n = i - 1
        BY <1>1, <1>2, <2>2
      <3>2. (i - 1) % n = i - 1
        BY <3>1, ModSmall
      <3>3. (t + i) % n = t + i - n
        <4> DEFINE a == t + i
        <4>1. a \in n .. 2 * n - 1
          BY <3>1
        <4> HIDE DEF a
        <4>2. a % n = a - n
          BY <4>1, ModSmall
        <4> QED BY <4>2 DEF a
      <3> QED BY <3>1, <3>2, <3>3
    <2> QED BY <2>1, <2>2
  <1>5. t % n = t
    BY ModSmall
  <1>6. u \in 1 .. n - 1
    BY <1>1
  <1>7. (h - t) % n \in 1 .. n - 1
    BY <1>6 DEF u
  <1>8. (h - g) % n = ((h - t) % n) - 1
    BY <1>3 DEF u
  <1>9. \A i \in 1 .. ((h - t) % n) - 1 : (g + i - 1) % n = (t + i) % n
    BY <1>4 DEF u
  <1> QED BY <1>5, <1>7, <1>8, <1>9

\* The bytes of buffer b that wait from slot t up to slot h.
RingSeq(b, h, t) ==
    [i \in 1 .. (h - t) % KB_BUFFER_SIZE |-> b[(t + i - 1) % KB_BUFFER_SIZE]]

LEMMA RingSeqIsSeq ==
    ASSUME NEW b, NEW h \in Slots, NEW t \in Slots
    PROVE  /\ RingSeq(b, h, t) \in Seq({b[j] : j \in Slots})
           /\ Len(RingSeq(b, h, t)) = (h - t) % KB_BUFFER_SIZE
           /\ (h - t) % KB_BUFFER_SIZE \in Nat
  <1> DEFINE u == (h - t) % KB_BUFFER_SIZE
             at(i) == (t + i - 1) % KB_BUFFER_SIZE
  <1>1. u \in Nat
    BY KeyboardAssumption DEF Slots
  <1>2. \A i \in 1 .. u : at(i) \in Slots
    BY KeyboardAssumption DEF Slots
  <1>3. RingSeq(b, h, t) = [i \in 1 .. u |-> b[at(i)]]
    BY DEF RingSeq
  <1> HIDE DEF u, at
  <1>4. RingSeq(b, h, t) \in [1 .. u -> {b[j] : j \in Slots}]
    BY <1>2, <1>3
  <1>5. RingSeq(b, h, t) \in Seq({b[j] : j \in Slots})
    BY <1>1, <1>4, SeqDef
  <1>6. Len(RingSeq(b, h, t)) = u
    <2>1. DOMAIN RingSeq(b, h, t) = 1 .. u
      BY <1>3
    <2> QED BY <1>1, <1>5, <2>1, LenProperties
  <1> QED BY <1>1, <1>5, <1>6 DEF u

LEMMA ContentsAre ==
    /\ Contents = RingSeq(kb_buffer, kb_head, kb_tail)
    /\ Contents' = RingSeq(kb_buffer', kb_head', kb_tail')
  <1> QED BY DEF Contents, Used, RingSeq

\* A push leaves what waits where it is and puts bytes behind it.
LEMMA PushPuts ==
    ASSUME TypeOK, NEW S, NEW s \in Seq(S), kb_push_utf8(s), got' = got
    PROVE  /\ [Queue!Next]_<<Contents, got>>
           /\ kb_head # kb_tail =>
                 kb_head' # kb_tail' /\ kb_buffer'[kb_tail'] = kb_buffer[kb_tail]
  <1> DEFINE n == KB_BUFFER_SIZE
             m == Len(Accepted(s))
             u == (kb_head - kb_tail) % n
             at(i) == (kb_tail + i - 1) % n
  <1>1. n \in Nat \ {0} /\ kb_head \in 0 .. n - 1 /\ kb_tail \in 0 .. n - 1
    BY KeyboardAssumption DEF TypeOK, Slots
  <1>2. m \in Nat /\ u + m <= n - 1
    BY AcceptedFits DEF TypeOK, Used
  <1>3. /\ (((kb_head + m) % n) - kb_tail) % n = u + m
        /\ \A i \in 1 .. u : at(i) \in 0 .. n - 1 /\ ~ (((at(i) - kb_head) % n) + 1 <= m)
    <2> HIDE DEF m
    <2> QED BY <1>1, <1>2, PushSlots
  <1>4. /\ kb_buffer' = [j \in Slots |-> IF ((j - kb_head) % n) + 1 <= m
                                         THEN s[((j - kb_head) % n) + 1] ELSE kb_buffer[j]]
        /\ kb_head' = (kb_head + m) % n /\ kb_tail' = kb_tail
    BY DEF kb_push_utf8
  <1> HIDE DEF m
  <1>5. \A i \in 1 .. u : kb_buffer'[at(i)] = kb_buffer[at(i)]
    <2> SUFFICES ASSUME NEW i \in 1 .. u PROVE kb_buffer'[at(i)] = kb_buffer[at(i)]
      OBVIOUS
    <2> DEFINE j == at(i)
    <2>1. j \in Slots /\ ~ (((j - kb_head) % n) + 1 <= m)
      BY <1>3 DEF Slots
    <2> HIDE DEF j
    <2>2. kb_buffer'[j] = kb_buffer[j]
      BY <1>4, <2>1
    <2> QED BY <2>2 DEF j
  <1>6. u \in Nat
    BY <1>1
  <1>7. Contents = [i \in 1 .. u |-> kb_buffer[at(i)]]
    BY DEF Contents, Used
  <1>8. Contents' = [i \in 1 .. u + m |-> kb_buffer'[at(i)]]
    BY <1>3, <1>4 DEF Contents, Used
  <1>9. Len(Contents) = u /\ Contents \in Seq({kb_buffer[j] : j \in Slots})
    BY RingSeqIsSeq, ContentsAre DEF TypeOK
  <1>10. kb_head' \in Slots
    BY <1>1, <1>2, <1>4 DEF Slots
  <1>11. /\ Len(Contents') = u + m
         /\ Contents' \in Seq({kb_buffer'[j] : j \in Slots})
    <2> DEFINE h == (kb_head + m) % n
    <2>1. h \in Slots /\ (h - kb_tail) % n = u + m /\ kb_tail \in Slots
          /\ Contents' = RingSeq(kb_buffer', h, kb_tail)
      BY <1>3, <1>4, <1>10, ContentsAre DEF TypeOK
    <2> HIDE DEF h, u
    <2> QED BY <2>1, RingSeqIsSeq
  <1> HIDE DEF u, at
  <1>12. \A i \in 1 .. u : Contents'[i] = Contents[i]
    BY <1>2, <1>5, <1>6, <1>7, <1>8
  <1>13. [Queue!Next]_<<Contents, got>>
    <2>1. CASE m = 0
      <3>1. Contents' = Contents
        BY <1>5, <1>6, <1>7, <1>8, <2>1
      <3> QED BY <3>1
    <2>2. CASE m # 0
      <3> DEFINE c == Contents
                 d == Contents'
                 B == {kb_buffer[j] : j \in Slots}
      <3>1. Len(d) \in Len(c) + 1 .. n - 1
        BY <1>2, <1>6, <1>9, <1>11, <2>2
      <3>2. c \in Seq(B) /\ Len(c) = u /\ Len(d) = u + m /\ u + m <= n - 1
            /\ \A i \in 1 .. u : d[i] = c[i]
        BY <1>2, <1>9, <1>11, <1>12
      <3> HIDE DEF c, d
      <3>3. \A i \in 1 .. u : c[i] \in B
        BY <1>6, <3>2, ElementOfSeq
      <3> HIDE DEF B
      <3>4. SubSeq(d, 1, u) = c
        <4>1. \A i \in 1 .. u : d[i] \in B
          BY <3>2, <3>3
        <4>2. /\ SubSeq(d, 1, u) \in Seq(B) /\ Len(SubSeq(d, 1, u)) = u
              /\ \A i \in 1 .. u : SubSeq(d, 1, u)[i] = d[i]
          BY <1>6, <4>1, SubSeqProperties
        <4> QED BY <3>2, <4>2, SeqEqual
      <3>5. Queue!Put
        BY <3>1, <3>2, <3>4 DEF Queue!Put, c, d
      <3> QED BY <3>5 DEF Queue!Next
    <2> QED BY <2>1, <2>2
  <1>14. ASSUME kb_head # kb_tail
         PROVE  kb_head' # kb_tail' /\ kb_buffer'[kb_tail'] = kb_buffer[kb_tail]
    <2>1. u \in 1 .. n - 1 /\ at(1) = kb_tail
      <3>1. kb_tail % n = kb_tail /\ u \in 1 .. n - 1
        BY <1>1, <1>14, GetSlots DEF u
      <3>2. at(1) = kb_tail % n
        BY <1>1 DEF at
      <3> QED BY <3>1, <3>2
    <2>2. kb_buffer'[kb_tail'] = kb_buffer[kb_tail]
      <3>1. 1 \in 1 .. u
        BY <1>1, <2>1
      <3>2. kb_buffer'[at(1)] = kb_buffer[at(1)]
        BY <1>5, <3>1
      <3> QED BY <1>4, <2>1, <3>2
    <2>3. kb_head' # kb_tail'
      <3>1. (((kb_head + m) % n) - kb_tail) % n = u + m
        BY <1>3
      <3>2. u + m # 0
        BY <1>2, <2>1
      <3>3. (kb_tail - kb_tail) % n = 0
        BY <1>1
      <3> QED BY <1>4, <3>1, <3>2, <3>3
    <2> QED BY <2>2, <2>3
  <1> QED BY <1>13, <1>14

\* What a reader that has found the buffer not empty still holds on to.
QueueInv ==
    /\ TypeInv
    /\ \A r \in Readers :
          /\ pc[r] # "test" => kb_head # kb_tail
          /\ pc[r] = "advance" => char[r] = kb_buffer[kb_tail]

\* Giving up the slot of the oldest byte takes that byte off the queue.
LEMMA AdvanceGets ==
    ASSUME QueueInv, NEW r \in Readers, ReadAdvance(r)
    PROVE  Queue!Get
  <1> DEFINE n == KB_BUFFER_SIZE
             u == (kb_head - kb_tail) % n
             g == (kb_tail + 1) % n
             B == {kb_buffer[j] : j \in Slots}
  <1>1. n \in Nat \ {0} /\ kb_head \in 0 .. n - 1 /\ kb_tail \in 0 .. n - 1
    BY KeyboardAssumption DEF QueueInv, TypeInv, TypeOK, Slots
  <1>2. /\ kb_head # kb_tail /\ char[r] = kb_buffer[kb_tail]
        /\ kb_tail' = g /\ got' = Append(got, char[r])
        /\ UNCHANGED <<kb_buffer, kb_head>>
    BY DEF QueueInv, ReadAdvance, At
  <1>a. g = (kb_tail + 1) % n /\ g \in 0 .. n - 1
    BY <1>1
  <1>b. g \in Slots
    BY <1>a DEF Slots
  <1> HIDE DEF g
  <1>3. /\ u \in 1 .. n - 1
        /\ (kb_head - g) % n = u - 1
        /\ kb_tail % n = kb_tail
        /\ \A i \in 1 .. u - 1 : (g + i - 1) % n = (kb_tail + i) % n
    <2> HIDE DEF n, u
    <2>1. kb_head # kb_tail
      BY <1>2
    <2>2. u = (kb_head - kb_tail) % n
      BY DEF u
    <2>3. /\ (kb_head - kb_tail) % n \in 1 .. n - 1
          /\ (kb_head - g) % n = ((kb_head - kb_tail) % n) - 1
          /\ kb_tail % n = kb_tail
          /\ \A i \in 1 .. ((kb_head - kb_tail) % n) - 1 : (g + i - 1) % n = (kb_tail + i) % n
      BY <1>1, <2>1, <1>a, GetSlots
    <2> QED BY <2>2, <2>3
  <1>4. Contents = [i \in 1 .. u |-> kb_buffer[(kb_tail + i - 1) % n]]
    BY DEF Contents, Used
  <1>5. Contents' = [i \in 1 .. u - 1 |-> kb_buffer[(g + i - 1) % n]]
    BY <1>2, <1>3 DEF Contents, Used
  <1>6. Contents \in Seq(B) /\ Len(Contents) = u
    BY RingSeqIsSeq, ContentsAre DEF QueueInv, TypeInv, TypeOK
  <1>7. Contents' \in Seq(B) /\ Len(Contents') = u - 1
    <2>1. Contents' = RingSeq(kb_buffer, kb_head, g) /\ kb_head \in Slots
      BY <1>1, <1>2, ContentsAre DEF Slots
    <2> HIDE DEF u
    <2> QED BY <1>3, <1>b, <2>1, RingSeqIsSeq
  <1>8. Contents[1] = kb_buffer[kb_tail]
    <2>1. 1 \in 1 .. u /\ (kb_tail + 1 - 1) % n = kb_tail
      BY <1>1, <1>3
    <2> HIDE DEF u
    <2> QED BY <1>4, <2>1
  <1>9. \A i \in 1 .. u - 1 : Contents'[i] = Contents[i + 1]
    <2> SUFFICES ASSUME NEW i \in 1 .. u - 1 PROVE Contents'[i] = Contents[i + 1]
      OBVIOUS
    <2>1. i + 1 \in 1 .. u /\ kb_tail + (i + 1) - 1 = kb_tail + i
      BY <1>1, <1>3
    <2> HIDE DEF u
    <2> QED BY <1>3, <1>4, <1>5, <2>1
  <1> DEFINE c == Contents
             d == Contents'
  <1>10. /\ c \in Seq(B) /\ Len(c) = u /\ d \in Seq(B) /\ Len(d) = u - 1
         /\ c[1] = kb_buffer[kb_tail] /\ \A i \in 1 .. u - 1 : d[i] = c[i + 1]
    BY <1>6, <1>7, <1>8, <1>9
  <1>11. u \in Nat /\ u > 0
    BY <1>3
  <1> HIDE DEF c, d, B, u
  <1>12. c # << >>
    BY <1>10, <1>11, EmptySeq
  <1>13. d = Tail(c)
    <2>1. /\ Tail(c) \in Seq(B) /\ Len(Tail(c)) = u - 1
          /\ \A i \in 1 .. u - 1 : Tail(c)[i] = c[i + 1]
      BY <1>10, <1>12, HeadTailProperties
    <2> QED BY <1>10, <2>1, SeqEqual
  <1>14. got' = Append(got, Head(c))
    BY <1>2, <1>10, <1>12
  <1> QED BY <1>12, <1>13, <1>14 DEF Queue!Get, c, d
LEMMA InitQueue == Init => QueueInv /\ Queue!Init
  <1> SUFFICES ASSUME Init PROVE QueueInv /\ Queue!Init
    OBVIOUS
  <1>1. QueueInv
    BY InitTypes DEF QueueInv, Init
  <1>2. Contents = << >>
    <2> DEFINE c == Contents
    <2>1. c \in Seq({kb_buffer[j] : j \in Slots}) /\ Len(c) = (kb_head - kb_tail) % KB_BUFFER_SIZE
      BY RingSeqIsSeq, ContentsAre, InitTypes DEF TypeInv, TypeOK
    <2>2. (kb_head - kb_tail) % KB_BUFFER_SIZE = 0
      BY KeyboardAssumption DEF Init
    <2> HIDE DEF c
    <2>3. c = << >>
      BY <2>1, <2>2, EmptySeq
    <2> QED BY <2>3 DEF c
  <1> QED BY <1>1, <1>2 DEF Init, Queue!Init

LEMMA NextQueue ==
    ASSUME \A r, s \in Readers : r = s
    PROVE  QueueInv /\ [Next]_vars => QueueInv' /\ [Queue!Next]_<<Contents, got>>
  <1> SUFFICES ASSUME QueueInv, [Next]_vars
               PROVE  QueueInv' /\ [Queue!Next]_<<Contents, got>>
    OBVIOUS
  <1>1. TypeInv /\ TypeInv'
    BY NextTypes DEF QueueInv
  <1>2. ASSUME UNCHANGED <<kb_buffer, kb_head, kb_tail, got>>
        PROVE  [Queue!Next]_<<Contents, got>>
    BY <1>2 DEF Contents, Used
  <1>3. ASSUME UNCHANGED <<ring, reader>>
        PROVE  QueueInv' /\ [Queue!Next]_<<Contents, got>>
    BY <1>1, <1>2, <1>3 DEF QueueInv, ring, reader
  <1>4. ASSUME NEW k \in Keys, Press(k) \/ Release(k)
        PROVE  UNCHANGED <<ring, reader>>
    BY <1>4 DEF Press, Release
  <1>5. ASSUME keyboard_handler
        PROVE  QueueInv' /\ [Queue!Next]_<<Contents, got>>
    <2> DEFINE s == lookup_utf8(Code(wire[1]))
    <2>1. UNCHANGED reader /\ (UNCHANGED ring \/ kb_push_utf8(s))
      <3>1. extended_key \in BOOLEAN /\ wire \in Seq(0 .. 255)
        BY <1>1 DEF TypeInv, TypeOK
      <3> QED BY <1>5, <3>1, HandlerEffect
    <2>2. CASE kb_push_utf8(s)
      <3>1. s \in Seq(TextBytes(Code(wire[1])))
        BY TextIsSeq
      <3> HIDE DEF s
      <3>2. UNCHANGED <<pc, char, got>>
        BY <2>1 DEF reader
      <3>3. /\ [Queue!Next]_<<Contents, got>>
            /\ kb_head # kb_tail =>
                  kb_head' # kb_tail' /\ kb_buffer'[kb_tail'] = kb_buffer[kb_tail]
        BY <1>1, <2>2, <3>1, <3>2, PushPuts DEF TypeInv
      <3> QED BY <1>1, <3>2, <3>3 DEF QueueInv
    <2> QED BY <1>3, <2>1, <2>2
  <1>6. ASSUME NEW r \in Readers, ReadTest(r)
        PROVE  QueueInv' /\ [Queue!Next]_<<Contents, got>>
    <2>1. /\ kb_head # kb_tail /\ pc' = [pc EXCEPT ![r] = "load"]
          /\ UNCHANGED <<kb_buffer, kb_head, kb_tail, char, got>>
      BY <1>6 DEF ReadTest, Goto, ring
    <2> QED BY <1>1, <1>2, <2>1 DEF QueueInv, TypeInv, TypeOK
  <1>7. ASSUME NEW r \in Readers, ReadLoad(r)
        PROVE  QueueInv' /\ [Queue!Next]_<<Contents, got>>
    <2>1. /\ pc[r] = "load" /\ pc' = [pc EXCEPT ![r] = "advance"]
          /\ char' = [char EXCEPT ![r] = kb_buffer[kb_tail]]
          /\ UNCHANGED <<kb_buffer, kb_head, kb_tail, got>>
      BY <1>7 DEF ReadLoad, At, Goto, ring
    <2> QED BY <1>1, <1>2, <2>1 DEF QueueInv, TypeInv, TypeOK
  <1>8. ASSUME NEW r \in Readers, ReadAdvance(r)
        PROVE  QueueInv' /\ [Queue!Next]_<<Contents, got>>
    <2>1. pc' = [pc EXCEPT ![r] = "test"]
      BY <1>8 DEF ReadAdvance, Goto
    <2>2. \A q \in Readers : pc'[q] = "test"
      BY <1>1, <2>1 DEF TypeInv, TypeOK
    <2>3. Queue!Get
      BY <1>8, AdvanceGets
    <2> QED BY <1>1, <2>2, <2>3 DEF QueueInv, Queue!Next
  <1>9. CASE UNCHANGED vars
    BY <1>3, <1>9 DEF vars
  <1> QED BY <1>3, <1>4, <1>5, <1>6, <1>7, <1>8, <1>9 DEF Next, Quiet

\* With one reader the ring buffer is a queue: wherever interrupts fall in
\* keyboard_read, no byte it has taken in is overwritten, skipped or read twice.
THEOREM RingIsQueue ==
    ASSUME \A r, s \in Readers : r = s
    PROVE  Spec => IsQueue
  <1> QED BY InitQueue, NextQueue, PTL DEF Spec, IsQueue, Queue!Spec
=============================================================================
