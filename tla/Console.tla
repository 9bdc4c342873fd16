------------------------------- MODULE Console -------------------------------
(***************************************************************************)
(* The shell's line (src/src/shell/shell.c) and the text screen it is      *)
(* typed on (src/src/drivers/vga.c).  The screen is a record of its cells  *)
(* and cursor; colours are left out.  One character that the keyboard      *)
(* hands over is one step: Enter runs the command, prints what it says and *)
(* then the prompt.  What commands print is up to Output.                  *)
(***************************************************************************)
EXTENDS Integers, Sequences, SequencesExt

CONSTANTS
    VGA_WIDTH, VGA_HEIGHT, MAX_COMMAND_LENGTH,
    Printable,       \* characters that are shown as themselves, one a space
    Keys,            \* those of them that are typed
    Prompt,
    Output,          \* what each command prints, as a sequence of characters
    Clear, Halt, Echo,   \* the names of three commands: as sequences
    NotFound         \* what is printed for a command that is not known

(* No command prints a carriage return or a backspace. *)
Text == Printable \cup {"\n", "\t"}

ConsoleAssumption ==
    /\ VGA_WIDTH \in Nat \ {0} /\ VGA_HEIGHT \in Nat \ {0}
    /\ MAX_COMMAND_LENGTH \in Nat \ {0}
    /\ " " \in Printable /\ Printable \cap {"\n", "\r", "\t", "BS"} = {}
    /\ Keys \subseteq Printable /\ Prompt \in Seq(Printable)
    /\ NotFound \in Seq(Text) /\ \A word \in DOMAIN Output : Output[word] \in Seq(Text)

Space == " "
Rows == 0 .. (VGA_HEIGHT - 1)
Cols == 0 .. (VGA_WIDTH - 1)
Cells == 0 .. (VGA_WIDTH * VGA_HEIGHT - 1)

VARIABLES
    screen,          \* vga_buffer, cursor_x, cursor_y
    command_buffer,  \* up to command_pos
    halted,
    torn             \* history: a backspace found no cell to clear

conVars == <<screen, command_buffer, halted, torn>>

TypeOK ==
    /\ screen \in [buf: [Cells -> Printable], x: Cols, y: Rows]
    /\ command_buffer \in Seq(Keys)
    /\ Len(command_buffer) < MAX_COMMAND_LENGTH
    /\ {halted, torn} \subseteq BOOLEAN
-----------------------------------------------------------------------------
(* vga_clear *)
Cleared == [buf |-> [i \in Cells |-> Space], x |-> 0, y |-> 0]

(* Seeded fault: the row that comes in keeps what it showed. *)
ScrollKept(s) ==
    [s EXCEPT !.buf = [i \in Cells |-> IF i + VGA_WIDTH \in Cells THEN s.buf[i + VGA_WIDTH]
                                       ELSE s.buf[i]]]

(* vga_scroll *)
Scroll(s) ==
    [s EXCEPT !.buf = [i \in Cells |-> IF i + VGA_WIDTH \in Cells THEN s.buf[i + VGA_WIDTH]
                                       ELSE Space]]

Place(s) == s.y * VGA_WIDTH + s.x

(* What vga_putchar does first, and what it then does at the right and at   *)
(* the lower edge.  Backspace does nothing at the start of a row.           *)
Put(s, ch) ==
    CASE ch = "\n" -> [s EXCEPT !.x = 0, !.y = @ + 1]
      [] ch = "\r" -> [s EXCEPT !.x = 0]
      [] ch = "\t" -> [s EXCEPT !.x = ((@ + 8) \div 8) * 8]
      [] ch = "BS" -> IF s.x > 0
                        THEN [s EXCEPT !.x = @ - 1, !.buf = [@ EXCEPT ![Place(s) - 1] = Space]]
                        ELSE s
      [] OTHER     -> [s EXCEPT !.x = @ + 1, !.buf = [@ EXCEPT ![Place(s)] = ch]]

Wrapped(s) == IF s.x >= VGA_WIDTH THEN [s EXCEPT !.x = 0, !.y = @ + 1] ELSE s

PutChar(s, ch) ==
    LET w == Wrapped(Put(s, ch))
    IN  IF w.y >= VGA_HEIGHT THEN [Scroll(w) EXCEPT !.y = VGA_HEIGHT - 1] ELSE w

(* vga_puts *)
Puts(s, text) == FoldLeft(PutChar, s, text)

(* kernel_main up to shell_run: what it prints before is cleared here.      *)
Init ==
    /\ screen = Puts(Cleared, Prompt)
    /\ command_buffer = <<>>
    /\ halted = FALSE
    /\ torn = FALSE

(* execute_command on the screen: strtok takes the first word, which may    *)
(* have spaces before it, and leaves what is behind the space that ends it. *)
Trimmed(line) ==
    IF \A i \in DOMAIN line : line[i] = Space THEN <<>>
    ELSE SubSeq(line, SelectInSeq(line, LAMBDA ch : ch # Space), Len(line))

FirstWord(line) ==
    LET end == SelectInSeq(line, LAMBDA ch : ch = Space)
    IN  IF end = 0 THEN line ELSE SubSeq(line, 1, end - 1)

Arguments(line) == SubSeq(line, Len(FirstWord(line)) + 2, Len(line))

Executed(s, line) ==
    LET word == FirstWord(Trimmed(line))
    IN  CASE word = <<>>            -> s
          [] word = Clear           -> Cleared
          [] word = Echo            -> PutChar(Puts(s, Arguments(Trimmed(line))), "\n")
          [] word \in DOMAIN Output -> Puts(s, Output[word])
          [] OTHER                  -> Puts(s, NotFound)

(* What shell_run does with a character, by kind. *)
Enter ==
    /\ ~halted
    /\ LET s == Executed(PutChar(screen, "\n"), command_buffer)
       IN  IF FirstWord(Trimmed(command_buffer)) = Halt
             THEN screen' = s /\ halted' = TRUE
             ELSE screen' = Puts(s, Prompt) /\ halted' = FALSE
    /\ command_buffer' = <<>>
    /\ torn' = FALSE

Backspace ==
    /\ ~halted
    /\ command_buffer # <<>>
    /\ command_buffer' = Front(command_buffer)
    /\ screen' = PutChar(screen, "BS")
    /\ torn' = (torn \/ screen.x = 0)
    /\ UNCHANGED halted

Type(ch) ==
    /\ ~halted
    /\ Len(command_buffer) < MAX_COMMAND_LENGTH - 1
    /\ command_buffer' = Append(command_buffer, ch)
    /\ screen' = PutChar(screen, ch)
    /\ UNCHANGED <<halted, torn>>

Next == Enter \/ Backspace \/ \E ch \in Keys : Type(ch)

Spec == Init /\ [][Next]_conVars
-----------------------------------------------------------------------------
(* The line that Enter would run is what stands before the cursor, over as  *)
(* many rows as it takes, and nothing stands behind it: through wrapping,   *)
(* scrolling, clearing and whatever commands print.  Until a backspace at   *)
(* the start of a row takes a character from the line and none from the     *)
(* screen.                                                                  *)
LineIsShown ==
    ~torn /\ ~halted =>
        LET line == Prompt \o command_buffer
        IN  /\ \A i \in DOMAIN line :
                   LET cell == Place(screen) - Len(line) + i - 1
                   IN  cell >= 0 => screen.buf[cell] = line[i]
            /\ \A i \in Cells : i >= Place(screen) => screen.buf[i] = Space
=============================================================================
