----------------------------- MODULE TextEditor -----------------------------
(***************************************************************************)
(* One window of src/src/apps/text_editor.c: its lines and its cursor      *)
(* under every key.  A line is what its row holds up to the terminator;    *)
(* nothing brings back what lies behind one.  A key is one step.           *)
(*                                                                         *)
(* overrun is set when a row would be written past its MAX_LINE_LENGTH     *)
(* characters, into the next row or the cursor.  What the editor does from *)
(* then on is not modelled.                                                *)
(***************************************************************************)
EXTENDS Integers, Sequences, SequencesExt

CONSTANTS
    EDITOR_ROWS, MAX_LINE_LENGTH,
    Chars,                    \* the printable characters
    Welcome, WelcomeCursor,   \* the text a new window shows, and the row below
    Sample,                   \* the text of sample.txt
    SavedNote                 \* "File saved successfully!"

Rows == 0 .. (EDITOR_ROWS - 1)
Bottom == EDITOR_ROWS - 1
Texts == {l \in Seq(Chars) : Len(l) < MAX_LINE_LENGTH}

EditorAssumption ==
    /\ EDITOR_ROWS \in Nat \ {0}
    /\ MAX_LINE_LENGTH \in Nat \ {0}
    /\ {Welcome, Sample} \subseteq [Rows -> Texts]
    /\ SavedNote \in Texts
    /\ WelcomeCursor \in Rows

VARIABLES lines, cursor_x, cursor_y, modified, filename, overrun

cursor == <<cursor_x, cursor_y>>
edVars == <<lines, cursor, modified, filename, overrun>>

TypeOK ==
    /\ lines \in [Rows -> Texts]
    /\ cursor_x \in 0 .. MAX_LINE_LENGTH
    /\ cursor_y \in Rows
    /\ {modified, overrun} \subseteq BOOLEAN
    /\ filename \in {"untitled.txt", "sample.txt"}

(* app_launch_text_editor *)
Init ==
    /\ lines = Welcome
    /\ cursor_x = 0 /\ cursor_y = WelcomeCursor
    /\ modified = FALSE
    /\ filename = "untitled.txt"
    /\ overrun = FALSE
-----------------------------------------------------------------------------
Line == lines[cursor_y]

At(x, y) == cursor_x' = x /\ cursor_y' = y

Overrun == overrun' = TRUE /\ UNCHANGED <<lines, cursor, modified, filename>>

Edited == modified' = TRUE /\ UNCHANGED <<filename, overrun>>

Moved == UNCHANGED <<lines, modified, filename, overrun>>

(* A character goes in at the cursor while the line has room.  Behind the   *)
(* line's end, where a save may have left the cursor, it is written behind  *)
(* the terminator.                                                          *)
Type(c) ==
    /\ ~overrun
    /\ Len(Line) < MAX_LINE_LENGTH - 1
    /\ IF cursor_x >= MAX_LINE_LENGTH THEN Overrun
       ELSE /\ lines' = IF cursor_x <= Len(Line)
                          THEN [lines EXCEPT ![cursor_y] = InsertAt(@, cursor_x + 1, c)]
                          ELSE lines
            /\ At(cursor_x + 1, cursor_y)
            /\ Edited

(* Enter: what is behind the cursor replaces the next line (text_editor.c:86 *)
(* speaks of a new line, but none is put in).                               *)
NewLine ==
    /\ ~overrun
    /\ cursor_y < Bottom
    /\ lines' = [lines EXCEPT ![cursor_y] = SubSeq(@, 1, cursor_x),
                              ![cursor_y + 1] = SubSeq(Line, cursor_x + 1, Len(Line))]
    /\ At(0, cursor_y + 1)
    /\ Edited

Delete ==
    /\ ~overrun
    /\ cursor_x > 0
    /\ lines' = IF cursor_x <= Len(Line)
                  THEN [lines EXCEPT ![cursor_y] = RemoveAt(@, cursor_x)] ELSE lines
    /\ At(cursor_x - 1, cursor_y)
    /\ Edited

(* Seeded fault: the shift begins one line too late. *)
ShiftUpLate(ls, y) ==
    [r \in Rows |-> IF r <= y THEN ls[r] ELSE IF r < Bottom THEN ls[r + 1] ELSE <<>>]

ShiftUp(ls, y) ==
    [r \in Rows |-> IF r < y THEN ls[r] ELSE IF r < Bottom THEN ls[r + 1] ELSE <<>>]

(* Backspace at the start of a line; nobody looks whether both fit in one.  *)
Join ==
    /\ ~overrun
    /\ cursor_x = 0 /\ cursor_y > 0
    /\ LET above == lines[cursor_y - 1]
       IN  IF Len(above) + Len(Line) >= MAX_LINE_LENGTH THEN Overrun
           ELSE /\ lines' = ShiftUp([lines EXCEPT ![cursor_y - 1] = @ \o Line], cursor_y)
                /\ At(Len(above), cursor_y - 1)
                /\ Edited

(* Seeded fault: the column is kept, however short the line is. *)
Kept(x, y) == x

Clamped(x, y) == IF x > Len(lines[y]) THEN Len(lines[y]) ELSE x

Left ==
    /\ ~overrun
    /\ \/ cursor_x > 0 /\ At(cursor_x - 1, cursor_y)
       \/ cursor_x = 0 /\ cursor_y > 0 /\ At(Len(lines[cursor_y - 1]), cursor_y - 1)
    /\ Moved

(* The cursor goes on to a next line only if that is not empty. *)
NextLine == cursor_y < Bottom /\ lines[cursor_y + 1] # <<>>

Right ==
    /\ ~overrun
    /\ \/ cursor_x < Len(Line) /\ At(cursor_x + 1, cursor_y)
       \/ cursor_x >= Len(Line) /\ NextLine /\ At(0, cursor_y + 1)
    /\ Moved

Up ==
    /\ ~overrun
    /\ cursor_y > 0
    /\ At(Clamped(cursor_x, cursor_y - 1), cursor_y - 1)
    /\ Moved

Down ==
    /\ ~overrun
    /\ NextLine
    /\ At(Clamped(cursor_x, cursor_y + 1), cursor_y + 1)
    /\ Moved

(* Ctrl+S puts its message into the text's last line. *)
Save ==
    /\ ~overrun
    /\ lines' = [lines EXCEPT ![Bottom] = SavedNote]
    /\ modified' = FALSE
    /\ UNCHANGED <<cursor, filename, overrun>>

(* Ctrl+O and Ctrl+N. *)
Load(text, name) ==
    /\ ~overrun
    /\ lines' = text
    /\ At(0, 0)
    /\ modified' = FALSE
    /\ filename' = name
    /\ UNCHANGED overrun

Open == Load(Sample, "sample.txt")
New  == Load([r \in Rows |-> <<>>], "untitled.txt")

Next ==
    \/ \E c \in Chars : Type(c)
    \/ NewLine
    \/ Delete
    \/ Join
    \/ Left
    \/ Right
    \/ Up
    \/ Down
    \/ Save
    \/ Open
    \/ New

Spec == Init /\ [][Next]_edVars
-----------------------------------------------------------------------------
(* The cursor is never behind the end of its line, whichever lines it came  *)
(* over and however they were joined, split and shifted: the next character *)
(* is seen where it is typed.  Except in the last line, which Ctrl+S        *)
(* replaces under the cursor.                                               *)
CursorInLine == cursor_y # Bottom => cursor_x <= Len(Line)

(* The text as one sequence, and the cursor's place in it. *)
TextTo(n) == FlattenSeq([i \in 1 .. n |-> lines[i - 1]])
Text      == TextTo(EDITOR_ROWS)
Offset    == Len(TextTo(cursor_y)) + Clamped(cursor_x, cursor_y)

(* A character that is typed goes into the text at the cursor, Backspace    *)
(* takes out the one before it, also when it joins two lines and moves up   *)
(* all that follow, and an arrow leaves the text alone, whatever lines the  *)
(* cursor is in.  Enter and Ctrl with S, O or N are left out: NewLine loses *)
(* the line below and Save the last one, which is not what the comments of  *)
(* the source say of them.                                                  *)
EditsAtCursor ==
    [][ \/ UNCHANGED lines \/ Text' = Text
        \/ \E c \in Chars : Text' = InsertAt(Text, Offset + 1, c) /\ Offset' = Offset + 1
        \/ Offset > 0 /\ Text' = RemoveAt(Text, Offset) /\ Offset' = Offset - 1
        \/ NewLine \/ Save \/ Open \/ New ]_edVars
=============================================================================
