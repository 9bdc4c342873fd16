------------------------------ MODULE KeyQueue ------------------------------
(***************************************************************************)
(* What the keyboard driver promises the shell: a queue of at most         *)
(* Capacity characters.  A character that comes is put at its end, and is  *)
(* dropped only when the queue is full; characters are taken in the order  *)
(* in which they came.                                                     *)
(***************************************************************************)
EXTENDS Integers, Sequences

CONSTANTS Capacity, Chars, NoChar

VARIABLES
    queue,
    taken,      \* the last character taken
    beat        \* changes with every character that comes, kept or dropped

Init == queue = <<>> /\ taken = NoChar /\ beat \in {0, 1}

Put(c) ==
    /\ beat' = 1 - beat
    /\ queue' = IF Len(queue) < Capacity THEN Append(queue, c) ELSE queue
    /\ UNCHANGED taken

Take ==
    /\ queue # <<>>
    /\ taken' = Head(queue)
    /\ queue' = Tail(queue)
    /\ UNCHANGED beat

(* keyboard_init *)
Reset == queue' = <<>> /\ UNCHANGED <<taken, beat>>

Next == (\E c \in Chars : Put(c)) \/ Take \/ Reset

Spec == Init /\ [][Next]_<<queue, taken, beat>>
=============================================================================
