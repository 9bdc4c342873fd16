------------------------------ MODULE Keyboard ------------------------------
(***************************************************************************)
(* The keyboard driver (src/src/drivers/keyboard.c) and the loop that      *)
(* reads it (shell_run in src/src/shell/shell.c) on one processor: the     *)
(* driver's interrupt comes between any two accesses of the loop to the    *)
(* ring, and runs to its end.  irq_install has enabled interrupts before   *)
(* keyboard_init runs.  What the shell does with a character is the module *)
(* Console's; here it goes on, or stops for good, as halt and reboot do.   *)
(***************************************************************************)
EXTENDS Integers, Sequences

CONSTANTS
    KEYBOARD_BUFFER_SIZE,
    Scancodes,       \* the scancodes that come; a release is <<"up", code>>
    NoChar

VARIABLES
    keyboard_buffer, buffer_head, buffer_tail,
    shift_pressed, ctrl_pressed, alt_pressed, caps_lock,
    pc,              \* where the loop is
    c,               \* keyboard_getchar's c
    got,             \* what it returned last
    beat             \* history: changes with every character that comes

ring  == <<keyboard_buffer, buffer_head, buffer_tail>>
mods  == <<shift_pressed, ctrl_pressed, alt_pressed, caps_lock>>
kbVars == <<ring, mods, pc, c, got, beat>>

(* One letter and Enter stand for the rest of the tables; of a letter the   *)
(* modifiers make these three.                                              *)
Chars == {"a", "A", "^A", "newline"}

Indices == 0 .. (KEYBOARD_BUFFER_SIZE - 1)

KeyboardAssumption == KEYBOARD_BUFFER_SIZE \in Nat \ {0, 1}

TypeOK ==
    /\ keyboard_buffer \in [Indices -> Chars \cup {NoChar}]
    /\ {buffer_head, buffer_tail} \subseteq Indices
    /\ {shift_pressed, ctrl_pressed, alt_pressed, caps_lock} \subseteq BOOLEAN
    /\ pc \in {"boot", "init", "check", "read", "advance", "handle", "hlt", "asleep",
               "stopped"}
    /\ {c, got} \subseteq Chars \cup {NoChar}
    /\ beat \in {0, 1}

Init ==
    /\ keyboard_buffer = [i \in Indices |-> NoChar]
    /\ buffer_head = 0 /\ buffer_tail = 0
    /\ shift_pressed = FALSE /\ ctrl_pressed = FALSE
    /\ alt_pressed = FALSE /\ caps_lock = FALSE
    /\ pc = "boot"
    /\ c = NoChar /\ got = NoChar
    /\ beat = 0
-----------------------------------------------------------------------------
(* The tables and what shift, caps lock and ctrl make of them. *)
ToAscii(code) ==
    IF code = "enter" THEN "newline"
    ELSE IF ctrl_pressed THEN "^A"
    ELSE IF shift_pressed # caps_lock THEN "A" ELSE "a"

(* Seeded fault: the index runs on. *)
Unwrapped(i) == i + 1

Successor(i) == (i + 1) % KEYBOARD_BUFFER_SIZE

(* Seeded fault: nobody looks whether the ring is full. *)
AddAlways(ch) ==
    /\ keyboard_buffer' = [keyboard_buffer EXCEPT ![buffer_head] = ch]
    /\ buffer_head' = Successor(buffer_head)

(* keyboard_buffer_add *)
BufferAdd(ch) ==
    IF Successor(buffer_head) # buffer_tail
      THEN /\ keyboard_buffer' = [keyboard_buffer EXCEPT ![buffer_head] = ch]
           /\ buffer_head' = Successor(buffer_head)
      ELSE UNCHANGED <<keyboard_buffer, buffer_head>>

(* Any interrupt ends a hlt. *)
Wakes == pc' = IF pc = "asleep" THEN "check" ELSE pc

(* keyboard_interrupt_handler: the release of one shift counts for both,    *)
(* a modifier is set or cleared, and any other key has its character.       *)
Release(key) ==
    /\ shift_pressed' = (shift_pressed /\ key # "shift")
    /\ ctrl_pressed' = (ctrl_pressed /\ key # "ctrl")
    /\ alt_pressed' = (alt_pressed /\ key # "alt")
    /\ UNCHANGED <<ring, caps_lock, beat>>

Press(key) ==
    /\ shift_pressed' = (shift_pressed \/ key = "shift")
    /\ ctrl_pressed' = (ctrl_pressed \/ key = "ctrl")
    /\ alt_pressed' = (alt_pressed \/ key = "alt")
    /\ caps_lock' = (caps_lock # (key = "caps"))
    /\ IF key \in {"letter", "enter"}
         THEN BufferAdd(ToAscii(key)) /\ beat' = 1 - beat
         ELSE UNCHANGED <<keyboard_buffer, buffer_head, beat>>
    /\ UNCHANGED buffer_tail

KeyInterrupt ==
    /\ pc # "stopped"
    /\ \E s \in Scancodes : IF s[1] = "up" THEN Release(s[2]) ELSE Press(s[2])
    /\ Wakes
    /\ UNCHANGED <<c, got>>

(* irq_handler does nothing for the timer. *)
TimerInterrupt ==
    /\ pc # "stopped"
    /\ Wakes
    /\ UNCHANGED <<ring, mods, c, got, beat>>

Goes(from, to) == pc = from /\ pc' = to

(* keyboard_init, while keys may come already. *)
InitHead ==
    /\ Goes("boot", "init")
    /\ buffer_head' = 0
    /\ UNCHANGED <<keyboard_buffer, buffer_tail, mods, c, got, beat>>

InitRest ==
    /\ Goes("init", "check")
    /\ buffer_tail' = 0
    /\ shift_pressed' = FALSE /\ ctrl_pressed' = FALSE
    /\ alt_pressed' = FALSE /\ caps_lock' = FALSE
    /\ UNCHANGED <<keyboard_buffer, buffer_head, c, got, beat>>

(* Seeded fault: the indices are compared by size. *)
HasInputOrdered == buffer_head > buffer_tail

(* keyboard_has_input: while it is true, no interrupt makes it false. *)
HasInput == buffer_head # buffer_tail

Check ==
    /\ pc = "check"
    /\ pc' = IF HasInput THEN "read" ELSE "hlt"
    /\ UNCHANGED <<ring, mods, c, got, beat>>

(* keyboard_getchar *)
Read ==
    /\ Goes("read", "advance")
    /\ c' = keyboard_buffer[buffer_tail]
    /\ UNCHANGED <<ring, mods, got, beat>>

Advance ==
    /\ Goes("advance", "handle")
    /\ buffer_tail' = Successor(buffer_tail)
    /\ got' = c
    /\ c' = NoChar
    /\ UNCHANGED <<keyboard_buffer, buffer_head, mods, beat>>

Handle ==
    /\ pc = "handle"
    /\ pc' \in {"hlt"} \cup (IF got = "newline" THEN {"stopped"} ELSE {})
    /\ UNCHANGED <<ring, mods, c, got, beat>>

(* An interrupt between the check and the hlt is not waited for again.      *)
Sleep ==
    /\ Goes("hlt", "asleep")
    /\ UNCHANGED <<ring, mods, c, got, beat>>

Loop == InitHead \/ InitRest \/ Check \/ Read \/ Advance \/ Handle \/ Sleep

Next == KeyInterrupt \/ TimerInterrupt \/ Loop

(* The processor goes on when no interrupt keeps it, and the timer's        *)
(* interrupt, which irq_install leaves unmasked, keeps coming.              *)
Fairness == WF_kbVars(Loop) /\ WF_kbVars(TimerInterrupt)

Spec == Init /\ [][Next]_kbVars /\ Fairness
-----------------------------------------------------------------------------
(* The ring, of which one place always stays empty, is a queue, with keys   *)
(* coming between any two steps of the reader: no character is overtaken,   *)
(* doubled, or dropped while there is room.                                 *)
Stored ==
    LET n == (buffer_head - buffer_tail) % KEYBOARD_BUFFER_SIZE
    IN  [i \in 1 .. n |-> keyboard_buffer[(buffer_tail + i - 1) % KEYBOARD_BUFFER_SIZE]]

Queue == INSTANCE KeyQueue WITH
             Capacity <- KEYBOARD_BUFFER_SIZE - 1, queue <- Stored, taken <- got

KeysInOrder == Queue!Spec

(* Every character that is stored is handled, however fast more of them     *)
(* come, unless the system has been halted: though the loop takes one for   *)
(* each interrupt only, and may miss the one that comes between its check   *)
(* and its hlt.                                                             *)
Waiting(i) == pc \notin {"boot", "init"} /\ buffer_head # buffer_tail /\ buffer_tail = i

EveryKeyHandled ==
    \A i \in Indices : Waiting(i) ~> (buffer_tail # i \/ pc = "stopped")
=============================================================================
