----------------------------- MODULE Allocator -----------------------------
(***************************************************************************)
(* What memory.c promises to its callers, with no word of headers, lists   *)
(* or splitting: every pointer handed out owns its bytes, and nobody else  *)
(* does until it is freed.                                                 *)
(***************************************************************************)
EXTENDS Integers

CONSTANTS Lo, Hi,     \* the heap's bounds
          Sizes       \* the sizes that are asked for

VARIABLES ready, live

(* The bytes from p on, size of them, lie in the heap and outside all that *)
(* is held.                                                                *)
Available(p, size) ==
    /\ Lo <= p /\ p + size <= Hi
    /\ \A q \in DOMAIN live : p + size <= q \/ q + live[q] <= p

Init ==
    /\ ready = FALSE
    /\ live = [p \in {} |-> 0]

Start ==
    /\ ~ready
    /\ ready' = TRUE
    /\ UNCHANGED live

Alloc(p, size) ==
    /\ ready
    /\ Available(p, size)
    /\ live' = [q \in DOMAIN live \cup {p} |-> IF q = p THEN size ELSE live[q]]
    /\ UNCHANGED ready

Free(p) ==
    /\ ready
    /\ live' = [q \in DOMAIN live \ {p} |-> live[q]]
    /\ UNCHANGED ready

Next ==
    \/ Start
    \/ \E p \in Lo .. Hi, size \in Sizes \ {0} : Alloc(p, size)
    \/ \E p \in DOMAIN live : Free(p)

Spec == Init /\ [][Next]_<<ready, live>>
=============================================================================
