---------------------------- MODULE SettingsApp ----------------------------
(***************************************************************************)
(* One window of src/src/apps/settings.c: the categories, their items, and *)
(* what a click does.  An item's value is a Boolean for a toggle, the      *)
(* index of its option for a dropdown, its text for a button; coordinates  *)
(* are unsigned, so that a point above the first row wraps.  Search,       *)
(* favourites and the recent settings have fields and no code.             *)
(***************************************************************************)
EXTENDS Integers, Sequences

CONSTANTS
    Points,          \* where the window is clicked: the set of [x, y]
    WORD             \* 2^32: the code's coordinates are counted modulo this

Toggle(value)   == [kind |-> "toggle", value |-> value, options |-> 0]
Dropdown        == [kind |-> "dropdown", value |-> 0, options |-> 3]
Button(text)    == [kind |-> "button", value |-> text, options |-> 0]
Text(text)      == [kind |-> "text", value |-> text, options |-> 0]

(* init_default_settings: appearance, system, network, users, privacy,      *)
(* about.                                                                   *)
Defaults ==
    <<<<Dropdown, Button("Change..."), Toggle(TRUE)>>,
      <<Button("Manage..."), Toggle(TRUE), Dropdown>>,
      <<Toggle(TRUE), Toggle(FALSE), Toggle(TRUE)>>,
      <<Text("user"), Button("Add...")>>,
      <<Toggle(TRUE), Toggle(TRUE)>>,
      <<Text("View Details..."), Button("Check Now")>>>>

Categories == DOMAIN Defaults
Items(c)   == DOMAIN Defaults[c]
Controls   == UNION {{c} \X Items(c) : c \in Categories}
Item(k)    == Defaults[k[1]][k[2]]

VARIABLES values, current_category, selected_item     \* both from 1 here

saVars == <<values, current_category, selected_item>>

OfKind(item, v) ==
    CASE item.kind = "toggle"   -> v \in BOOLEAN
      [] item.kind = "dropdown" -> v \in 0 .. (item.options - 1)
      [] OTHER                  -> v \in {item.value, "Up to date"}

TypeOK ==
    /\ current_category \in Categories
    /\ selected_item \in Items(current_category)
    /\ DOMAIN values = Controls
    /\ \A k \in Controls : OfKind(Item(k), values[k])

Init ==
    /\ values = [k \in Controls |-> Item(k).value]
    /\ current_category = 1
    /\ selected_item = 1
-----------------------------------------------------------------------------
(* The row of height h at y, of rows that begin at top. *)
Row(y, top, h) == ((y - top) % WORD) \div h + 1

Sidebar(p) ==
    LET c == Row(p.y, 20, 50)
    IN  /\ p.x < 200
        /\ c \in Categories
        /\ current_category' = c
        /\ selected_item' = 1
        /\ UNCHANGED values

(* Seeded fault: the index of the option runs on. *)
OperatedUnbounded(item, v) ==
    CASE item.kind = "toggle"   -> ~v
      [] item.kind = "dropdown" -> v + 1
      [] item.kind = "button" /\ item.value = "Check Now" -> "Up to date"
      [] OTHER -> v

(* What the item's control does to its value.  "Check for Updates" waits    *)
(* two seconds in between; the other buttons change nothing here.           *)
Operated(item, v) ==
    CASE item.kind = "toggle"   -> ~v
      [] item.kind = "dropdown" -> (v + 1) % item.options
      [] item.kind = "button" /\ item.value = "Check Now" -> "Up to date"
      [] OTHER -> v

Content(p) ==
    LET i == Row(p.y, 60, 80)
        k == <<current_category, i>>
    IN  /\ p.x > 220
        /\ k \in Controls
        /\ selected_item' = i
        /\ values' = IF p.x > 650
                       THEN [values EXCEPT ![k] = Operated(Item(k), @)] ELSE values
        /\ UNCHANGED current_category

Next == \E p \in Points : Sidebar(p) \/ Content(p)

Spec == Init /\ [][Next]_saVars
=============================================================================
