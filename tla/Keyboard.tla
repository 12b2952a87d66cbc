------------------------------ MODULE Keyboard ------------------------------
(***************************************************************************)
(* The keyboard driver: the keys of the keyboard, the scan codes on their  *)
(* way to the driver, the interrupt handler that decodes them, the ring    *)
(* buffer it fills and the process that empties it.                        *)
(*                                                                         *)
(* keyboard_handler is an interrupt handler and therefore one step; it may *)
(* come between any two steps of keyboard_read, which runs in a process.   *)
(*                                                                         *)
(* A byte of a character's UTF-8 text is a record: the key's code and the  *)
(* modifiers that chose the text, and the place of the byte in it.         *)
(***************************************************************************)
EXTENDS Integers, Sequences

CONSTANTS
    Keys,           \* the keys that are used, pairs <<extended, code>>
    Readers,        \* the processes that call keyboard_read
    KB_BUFFER_SIZE, \* the slots of kb_buffer
    Nul,            \* the byte 0
    MaxStrokes,     \* bound: how often a key goes down (or repeats)
    MaxWire         \* bound: the scan codes under way

ASSUME KeyboardAssumption ==
    /\ Keys \subseteq BOOLEAN \X (1 .. 127 \ {96}) \* 96 would be released with the prefix
    /\ KB_BUFFER_SIZE \in Nat \ {0, 1}
    /\ MaxStrokes \in Nat /\ MaxWire \in Nat

VARIABLES
    down,           \* the keys that are held down
    wire,           \* the scan codes sent and not yet read from port 0x60
    strokes,        \* counts the key presses
    language,       \* keyboard_language
    shift_pressed, win_pressed, extended_key,
    key_state,      \* the indices c with key_state[c] = 1
    kb_buffer, kb_head, kb_tail,
    pc,             \* where each reader stands in keyboard_read
    char,           \* its local c
    got             \* history: the bytes returned to readers

hardware == <<down, wire, strokes>>
decoder == <<language, shift_pressed, win_pressed, extended_key, key_state>>
ring == <<kb_buffer, kb_head, kb_tail>>
reader == <<pc, char, got>>
vars == <<hardware, decoder, ring, reader>>

---------------------------------------------------------------------------
(* Scan codes and the texts of the keys.                                   *)

Prefix == 224                   \* 0xE0
ReleaseBit == 128               \* 0x80
Space == 57
Shifts == {42, 54}              \* left and right, 0x2A and 0x36
Wins == {91, 92}                \* extended, 0x5B and 0x5C
KEY_LSHIFT == 42

\* Extended 0x48, 0x50, 0x4D, 0x4B: KEY_UP, KEY_DOWN, KEY_RIGHT, KEY_LEFT.
Arrow == [c \in {72, 80, 77, 75} |->
            CASE c = 72 -> 1 [] c = 80 -> 2 [] c = 77 -> 3 [] c = 75 -> 4]

\* Keys without an entry in any map.
Textless == {29, 42, 54, 56} \cup 58 .. 127

\* The bytes of an entry of keymap_ar: a letter has two, the entry of B is
\* two letters.
ArabicWidth(code) ==
    CASE code = 1 -> 0
      [] code = 48 -> 4
      [] code \in {12, 13, 14, 15, 28, 43, 55, 57} -> 1
      [] OTHER -> 2

\* The bytes of an entry of keymap_ar_shift.
ArabicShiftWidth(code) ==
    CASE code = 1 -> 0
      [] code \in {20, 34, 48} -> 4
      [] code \in {16, 17, 18, 19, 21, 23, 24, 25, 30, 31, 35, 36, 37, 41, 45,
                   49, 53} -> 2
      [] OTHER -> 1

\* The bytes of the text of a key; the English maps have one character each.
Width(lang, shift, code) ==
    IF code \in Textless THEN 0
    ELSE IF lang = "en" THEN 1
    ELSE IF shift THEN ArabicShiftWidth(code)
    ELSE ArabicWidth(code)

lookup_utf8(code) ==
    [i \in 1 .. Width(language, shift_pressed, code) |->
        [lang |-> language, shift |-> shift_pressed, code |-> code, at |-> i]]

---------------------------------------------------------------------------
(* The ring buffer.                                                        *)

Slots == 0 .. KB_BUFFER_SIZE - 1

\* How many bytes wait between kb_tail and kb_head, and which, oldest first.
Used == (kb_head - kb_tail) % KB_BUFFER_SIZE

Contents ==
    [i \in 1 .. Used |->
        kb_buffer[(kb_tail + i - 1) % KB_BUFFER_SIZE]]

\* Mutant of Accepted: the test for a full buffer is forgotten.
AcceptedAlways(s) == s

\* The bytes of s that kb_push_utf8 stores before it finds the buffer full.
Accepted(s) ==
    LET room == KB_BUFFER_SIZE - 1 - Used IN
    SubSeq(s, 1, IF Len(s) <= room THEN Len(s) ELSE room)

\* Mutant of kb_push_utf8: kb_head is not wrapped.
PushUnwrapped(s) ==
    LET n == Len(Accepted(s)) IN
    /\ kb_buffer' = [j \in Slots |->
            LET i == ((j - kb_head) % KB_BUFFER_SIZE) + 1 IN
            IF i <= n THEN s[i] ELSE kb_buffer[j]]
    /\ kb_head' = kb_head + n
    /\ UNCHANGED kb_tail

\* (The wake-up of a process in keyboard_queue is in module Kernel.)
kb_push_utf8(s) ==
    LET n == Len(Accepted(s)) IN
    /\ kb_buffer' = [j \in Slots |->
            LET i == ((j - kb_head) % KB_BUFFER_SIZE) + 1 IN
            IF i <= n THEN s[i] ELSE kb_buffer[j]]
    /\ kb_head' = (kb_head + n) % KB_BUFFER_SIZE
    /\ UNCHANGED kb_tail

---------------------------------------------------------------------------
TypeOK ==
    /\ down \subseteq Keys
    /\ wire \in Seq(0 .. 255)
    /\ strokes \in 0 .. MaxStrokes
    /\ language \in {"ar", "en"}
    /\ shift_pressed \in BOOLEAN
    /\ win_pressed \in BOOLEAN
    /\ extended_key \in BOOLEAN
    /\ key_state \subseteq 0 .. 127
    /\ DOMAIN kb_buffer = Slots
    /\ kb_head \in Slots
    /\ kb_tail \in Slots
    /\ pc \in [Readers -> {"test", "load", "advance"}]
    /\ DOMAIN char = Readers

\* keyboard_init.
Init ==
    /\ down = {} /\ wire = << >> /\ strokes = 0
    /\ language = "ar"
    /\ shift_pressed = FALSE /\ win_pressed = FALSE /\ extended_key = FALSE
    /\ key_state = {}
    /\ kb_buffer = [j \in Slots |-> Nul] /\ kb_head = 0 /\ kb_tail = 0
    /\ pc = [r \in Readers |-> "test"]
    /\ char = [r \in Readers |-> Nul]
    /\ got = << >>

---------------------------------------------------------------------------
(* The keyboard.                                                           *)

\* The scan codes of key k, with or without the release bit.
Sent(k, bit) == IF k[1] THEN <<Prefix, k[2] + bit>> ELSE <<k[2] + bit>>

\* A key goes down, or is held and repeats.
Press(k) ==
    /\ strokes < MaxStrokes /\ Len(wire) < MaxWire
    /\ strokes' = strokes + 1
    /\ down' = down \cup {k}
    /\ wire' = wire \o Sent(k, 0)
    /\ UNCHANGED <<decoder, ring, reader>>

Release(k) ==
    /\ k \in down /\ Len(wire) < MaxWire
    /\ down' = down \ {k}
    /\ wire' = wire \o Sent(k, ReleaseBit)
    /\ UNCHANGED <<strokes, decoder, ring, reader>>

---------------------------------------------------------------------------
(* keyboard_handler.                                                       *)

\* The scan code the handler reads.
Read(b) == /\ wire # << >>
           /\ b = Head(wire)
           /\ wire' = Tail(wire)
           /\ UNCHANGED <<down, strokes, reader>>

IsRelease(b) == b >= ReleaseBit
Code(b) == b % ReleaseBit

\* key_state[c] = on
SetState(c, on) == key_state' = IF on THEN key_state \cup {c} ELSE key_state \ {c}

ReadPrefix(b) ==
    /\ Read(b) /\ b = Prefix
    /\ extended_key' = TRUE
    /\ UNCHANGED <<language, shift_pressed, win_pressed, key_state, ring>>

\* Mutant of ReadExtended: extended_key is not reset.
ReadExtendedAgain(b) ==
    /\ Read(b) /\ b # Prefix /\ extended_key
    /\ IF Code(b) \in Wins THEN win_pressed' = ~ IsRelease(b)
                           ELSE UNCHANGED win_pressed
    /\ IF Code(b) \in DOMAIN Arrow THEN SetState(Arrow[Code(b)], ~ IsRelease(b))
                                   ELSE UNCHANGED key_state
    /\ UNCHANGED <<language, shift_pressed, extended_key, ring>>

\* The arrow keys and the two Win keys; other extended keys are ignored.
ReadExtended(b) ==
    /\ Read(b) /\ b # Prefix /\ extended_key
    /\ extended_key' = FALSE
    /\ IF Code(b) \in Wins THEN win_pressed' = ~ IsRelease(b)
                           ELSE UNCHANGED win_pressed
    /\ IF Code(b) \in DOMAIN Arrow THEN SetState(Arrow[Code(b)], ~ IsRelease(b))
                                   ELSE UNCHANGED key_state
    /\ UNCHANGED <<language, shift_pressed, ring>>

ReadPlain(b) == Read(b) /\ b # Prefix /\ ~ extended_key

Toggles(b) == b = Space /\ win_pressed

\* Win + Space.
ReadToggle(b) ==
    /\ ReadPlain(b) /\ Toggles(b)
    /\ language' = IF language = "ar" THEN "en" ELSE "ar"
    /\ UNCHANGED <<shift_pressed, win_pressed, extended_key, key_state, ring>>

ReadShift(b) ==
    /\ ReadPlain(b) /\ Code(b) \in Shifts
    /\ shift_pressed' = ~ IsRelease(b)
    /\ SetState(KEY_LSHIFT, ~ IsRelease(b))
    /\ UNCHANGED <<language, win_pressed, extended_key, ring>>

\* Mutant of ReadRelease: the handler returns before it updates key_state.
ReleaseIgnored(b) ==
    /\ ReadPlain(b) /\ Code(b) \notin Shifts /\ IsRelease(b)
    /\ UNCHANGED <<decoder, ring>>

ReadRelease(b) ==
    /\ ReadPlain(b) /\ Code(b) \notin Shifts /\ IsRelease(b)
    /\ SetState(Code(b), FALSE)
    /\ UNCHANGED <<language, shift_pressed, win_pressed, extended_key, ring>>

ReadText(b) ==
    /\ ReadPlain(b) /\ ~ Toggles(b) /\ Code(b) \notin Shifts /\ ~ IsRelease(b)
    /\ SetState(Code(b), TRUE)
    /\ kb_push_utf8(lookup_utf8(Code(b)))
    /\ UNCHANGED <<language, shift_pressed, win_pressed, extended_key>>

keyboard_handler ==
    \E b \in 0 .. 255 :
        \/ ReadPrefix(b) \/ ReadExtended(b) \/ ReadToggle(b)
        \/ ReadShift(b) \/ ReadRelease(b) \/ ReadText(b)

---------------------------------------------------------------------------
(* keyboard_read, called again and again by execute_input.                 *)

At(r, step) == pc[r] = step
Goto(r, step) == pc' = [pc EXCEPT ![r] = step]

\* The buffer is not empty.  (When it is, 0 is returned and nothing changes.)
ReadTest(r) ==
    /\ At(r, "test")
    /\ kb_head # kb_tail
    /\ Goto(r, "load")
    /\ UNCHANGED <<hardware, decoder, ring, char, got>>

ReadLoad(r) ==
    /\ At(r, "load")
    /\ char' = [char EXCEPT ![r] = kb_buffer[kb_tail]]
    /\ Goto(r, "advance")
    /\ UNCHANGED <<hardware, decoder, ring, got>>

ReadAdvance(r) ==
    /\ At(r, "advance")
    /\ kb_tail' = (kb_tail + 1) % KB_BUFFER_SIZE
    /\ got' = Append(got, char[r])
    /\ char' = [char EXCEPT ![r] = Nul]
    /\ Goto(r, "test")
    /\ UNCHANGED <<hardware, decoder, kb_buffer, kb_head>>

---------------------------------------------------------------------------
\* The model's bound on key presses is reached and everything is read.
Quiet == /\ strokes = MaxStrokes /\ down = {} /\ wire = << >> /\ kb_head = kb_tail
         /\ UNCHANGED vars

Next == \/ \E k \in Keys : Press(k) \/ Release(k)
        \/ keyboard_handler
        \/ \E r \in Readers : ReadTest(r) \/ ReadLoad(r) \/ ReadAdvance(r)
        \/ Quiet

Spec == Init /\ [][Next]_vars

---------------------------------------------------------------------------
(* Properties.                                                             *)

Queue == INSTANCE ByteQueue
            WITH queue <- Contents, Capacity <- KB_BUFFER_SIZE - 1

\* With one reader the ring buffer is a queue: wherever interrupts fall in
\* keyboard_read, no byte it has taken in is overwritten, skipped or read
\* twice (kb_push_utf8, keyboard_read).
IsQueue == Queue!Spec

\* What keyboard_is_pressed calls key k.
Named(k) == CASE k[1] /\ k[2] \in DOMAIN Arrow -> Arrow[k[2]]
              [] ~ k[1] /\ k[2] \in Shifts -> KEY_LSHIFT
              [] OTHER -> k[2]

\* No stuck keys: once the driver has seen all scan codes, a key it reports
\* as pressed is held, whatever prefixes and modifiers came in between
\* (keyboard_handler, keyboard_is_pressed).
PressedIsHeld == wire = << >> => \A c \in key_state : \E k \in down : Named(k) = c

\* With one Shift and one Win key in use (each pair shares a flag), once the
\* driver has seen all scan codes it has the modifiers as they are on the
\* keyboard: no release is lost behind a prefix (keyboard_handler).
ModifiersSettle ==
    wire = << >> =>
        /\ shift_pressed = (\E k \in down : ~ k[1] /\ k[2] \in Shifts)
        /\ win_pressed = (\E k \in down : k[1] /\ k[2] \in Wins)

=============================================================================
