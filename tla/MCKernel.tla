------------------------------ MODULE MCKernel ------------------------------
(* A ring of three, a screen of two short rows, two pipes of two bytes and *)
(* two periodic tasks.  Of the shell's commands the one named "o" prints   *)
(* more than the screen holds.                                             *)
EXTENDS Kernel, TLC

MCScancodes ==
    {"down"} \X {"letter", "enter", "shift", "ctrl", "alt", "caps"}
    \cup {"up"} \X {"letter", "shift", "ctrl", "alt"}

MCPrompt   == <<"$">>
MCClear    == <<"c">>
MCHalt     == <<"h">>
MCEcho     == <<"e">>
MCNotFound == <<"n", "f", "\n">>

MCOutput ==
    MCHalt :> <<"H", "\n">>
    @@ <<"o">> :> <<"x", "x", "x", "x", "x", "\n", "\n", "\t", "y", "\n">>
=============================================================================
