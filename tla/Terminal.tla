------------------------------ MODULE Terminal ------------------------------
(***************************************************************************)
(* One window of src/src/apps/terminal_app.c: the screen, its cursor and   *)
(* the line that is being typed.  A key is one step: Enter runs the        *)
(* command, prints what it says and then the prompt.  A cell of the screen *)
(* is a character or Blank.  What a command prints is up to Output; a      *)
(* command that is not in Commands gives one line.                         *)
(***************************************************************************)
EXTENDS Integers, Sequences, FiniteSets, SequencesExt

CONSTANTS
    TERM_ROWS, TERM_COLS,
    Printable, Blank,
    Chars,         \* the printable characters that are typed
    Welcome,       \* the lines a new terminal begins with
    Prompt,        \* "kronos$ "
    Commands,      \* command line to the lines it prints
    ClearCommand, ExitCommand, EchoCommand,   \* the three that do more
    NotFound

TerminalAssumption ==
    /\ TERM_ROWS \in Nat \ {0}
    /\ TERM_COLS \in Nat /\ Len(Prompt) < TERM_COLS
    /\ Chars \subseteq Printable
    /\ Prompt \in Seq(Printable) /\ NotFound \in Seq(Printable)
    /\ Welcome \in Seq(Seq(Printable))
    /\ \A command \in DOMAIN Commands : Commands[command] \in Seq(Seq(Printable))
    /\ EchoCommand \in Seq(Printable)

VARIABLES
    buffer,           \* rows of cells
    cx, cy,           \* cursor_x, cursor_y
    input_line,       \* up to input_pos
    active

termVars == <<buffer, cx, cy, input_line, active>>

Rows == 1 .. TERM_ROWS
Cols == 1 .. TERM_COLS

BlankRow == [c \in Cols |-> Blank]

TypeOK ==
    /\ buffer \in [Rows -> [Cols -> Printable \cup {Blank}]]
    /\ cx \in 0 .. TERM_COLS
    /\ cy \in 0 .. (TERM_ROWS - 1)
    /\ input_line \in Seq(Chars) /\ Len(input_line) <= 255
    /\ active \in BOOLEAN
-----------------------------------------------------------------------------
Screen == [buf |-> [r \in Rows |-> BlankRow], x |-> 0, y |-> 0]

(* Seeded fault: the bottom row keeps what it showed. *)
ScrollKept(t) ==
    [t EXCEPT !.buf = [r \in Rows |-> IF r < TERM_ROWS THEN t.buf[r + 1] ELSE t.buf[r]]]

(* terminal_scroll *)
Scroll(t) ==
    [t EXCEPT !.buf = [r \in Rows |-> IF r < TERM_ROWS THEN t.buf[r + 1] ELSE BlankRow]]

(* terminal_print_line: from the cursor on, what does not fit is dropped;   *)
(* then the next row, which is the last one scrolled up if there is none.   *)
PrintLine(t, line) ==
    LET p == [t EXCEPT !.buf[t.y + 1] =
                  [c \in Cols |-> IF c > t.x /\ c - t.x <= Len(line) THEN line[c - t.x] ELSE @[c]],
                       !.x = 0, !.y = @ + 1]
    IN  IF p.y >= TERM_ROWS THEN [Scroll(p) EXCEPT !.y = TERM_ROWS - 1] ELSE p

PrintLines(t, ls) == FoldLeft(PrintLine, t, ls)

(* terminal_print_prompt: the prompt is a line, so the cursor is behind it  *)
(* in column but one row further down; "Position after prompt", says the    *)
(* comment at terminal_app.c:86.                                            *)
PrintPrompt(t) == [PrintLine(t, Prompt) EXCEPT !.x = Len(Prompt)]

Shows(t) == buffer' = t.buf /\ cx' = t.x /\ cy' = t.y

Now == [buf |-> buffer, x |-> cx, y |-> cy]

(* app_launch_terminal *)
Init ==
    LET t == PrintPrompt(PrintLines(Screen, Welcome))
    IN  /\ buffer = t.buf /\ cx = t.x /\ cy = t.y
        /\ input_line = <<>>
        /\ active = TRUE

(* terminal_handle_input, by kind of key. *)
Type(c) ==
    /\ active
    /\ Len(input_line) < 255 /\ cx < TERM_COLS
    /\ input_line' = Append(input_line, c)
    /\ buffer' = [buffer EXCEPT ![cy + 1][cx + 1] = c]
    /\ cx' = cx + 1
    /\ UNCHANGED <<cy, active>>

Backspace ==
    /\ active
    /\ input_line # <<>>
    /\ input_line' = Front(input_line)
    /\ cx' = cx - 1
    /\ buffer' = [buffer EXCEPT ![cy + 1][cx] = Blank]
    /\ UNCHANGED <<cy, active>>

(* terminal_execute_command on the screen. *)
Execute(t, command) ==
    CASE command = <<>>                     -> t
      [] command = ClearCommand             -> Screen
      [] command = ExitCommand              -> t
      [] command \in DOMAIN Commands        -> PrintLines(t, Commands[command])
      [] OTHER -> IF IsPrefix(EchoCommand, command)
                    THEN PrintLine(t, SubSeq(command, Len(EchoCommand) + 1, Len(command)))
                    ELSE PrintLine(t, NotFound)

Enter ==
    /\ active
    /\ Shows(PrintPrompt(Execute(PrintLine([Now EXCEPT !.x = TERM_COLS], <<>>), input_line)))
    /\ input_line' = <<>>
    /\ active' = (input_line # ExitCommand)

Next ==
    \/ \E c \in Chars : Type(c)
    \/ Backspace
    \/ Enter

Spec == Init /\ [][Next]_termVars
-----------------------------------------------------------------------------
(* What Enter will execute is what the cursor's own row shows from the      *)
(* prompt's width on, to the end of the row: no key gets lost between the   *)
(* line and the screen, through scrolling, clearing and lines that are cut  *)
(* off at the right edge.  Nothing is said of the columns before, where the *)
(* prompt is not (PrintPrompt).                                             *)
InputIsShown ==
    \A c \in (Len(Prompt) + 1) .. TERM_COLS :
        buffer[cy + 1][c] = IF c <= Len(Prompt) + Len(input_line)
                              THEN input_line[c - Len(Prompt)] ELSE Blank
=============================================================================
