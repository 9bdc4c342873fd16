---------------------------- MODULE FileManager ----------------------------
(***************************************************************************)
(* The file manager windows of src/src/apps/file_manager.c.  Each has a    *)
(* path, a selection and a scroll offset of its own; the list of the files *)
(* is one array for all of them, filled by whichever loaded last.  A path  *)
(* is the sequence of its names; paths_full is set when one would not fit  *)
(* its 256 bytes, which nothing looks at.  What is then written over, and  *)
(* what the window does from there on, is not modelled.                    *)
(***************************************************************************)
EXTENDS Integers, Sequences, SequencesExt

CONSTANTS
    Managers,        \* the windows, 2 of them in the code
    Directories,     \* the names of the sample directories and files, which
    Files,           \*   every directory holds, as sequences
    PAGE,            \* how many entries a window shows: 15
    PathMax,         \* how many names fit a path
    Parent           \* ".."

FileManagerAssumption ==
    /\ PAGE \in Nat \ {0}
    /\ PathMax \in Nat \ {0, 1}
    /\ Directories \in Seq(Range(Directories))
    /\ Files \in Seq(Range(Files)) /\ Files # <<>>

VARIABLES
    current_path, file_count, selected_file, scroll_offset,   \* of each window
    open,            \* the windows that are active
    file_list,
    paths_full

fmVars == <<current_path, file_count, selected_file, scroll_offset, open, file_list, paths_full>>

Home  == <<"home", "user">>
Names == Range(Home) \cup Range(Directories)

(* What fm_load_directory puts into the list: only the root has no parent. *)
Listing(path) ==
    (IF path = <<>> THEN <<>> ELSE <<[name |-> Parent, dir |-> TRUE]>>)
        \o [i \in DOMAIN Directories |-> [name |-> Directories[i], dir |-> TRUE]]
        \o [i \in DOMAIN Files |-> [name |-> Files[i], dir |-> FALSE]]

TypeOK ==
    /\ open \subseteq Managers
    /\ current_path \in [Managers -> {path \in Seq(Names) : Len(path) <= PathMax}]
    /\ file_count \in [Managers -> 0 .. Len(Listing(Home))]
    /\ selected_file \in [Managers -> Nat]
    /\ scroll_offset \in [Managers -> Nat]
    /\ paths_full \in BOOLEAN

Init ==
    /\ current_path = [m \in Managers |-> <<>>]
    /\ file_count = [m \in Managers |-> 0]
    /\ selected_file = [m \in Managers |-> 0]
    /\ scroll_offset = [m \in Managers |-> 0]
    /\ open = {}
    /\ file_list = <<>>
    /\ paths_full = FALSE
-----------------------------------------------------------------------------
(* fm_load_directory: entries of the shared list behind the last one        *)
(* written stay.                                                            *)
Load(m, path) ==
    LET new == Listing(path)
    IN  /\ current_path' = [current_path EXCEPT ![m] = path]
        /\ file_count' = [file_count EXCEPT ![m] = Len(new)]
        /\ file_list' = new \o SubSeq(file_list, Len(new) + 1, Len(file_list))
        /\ selected_file' = [selected_file EXCEPT ![m] = 0]
        /\ scroll_offset' = [scroll_offset EXCEPT ![m] = 0]

(* app_launch_file_manager *)
Launch(m) ==
    /\ m \notin open
    /\ Load(m, Home)
    /\ open' = open \cup {m}
    /\ UNCHANGED paths_full

(* fm_handle_input, by key. *)
KeyUp(m) ==
    /\ m \in open /\ ~paths_full
    /\ selected_file[m] > 0
    /\ LET s == selected_file[m] - 1
       IN  /\ selected_file' = [selected_file EXCEPT ![m] = s]
           /\ scroll_offset' = [scroll_offset EXCEPT ![m] = IF s < @ THEN s ELSE @]
    /\ UNCHANGED <<current_path, file_count, open, file_list, paths_full>>

(* Seeded fault: the window scrolls one entry too late. *)
ScrolledLate(s, offset) == IF s > offset + PAGE THEN s - PAGE ELSE offset

ScrolledDown(s, offset) == IF s >= offset + PAGE THEN s - (PAGE - 1) ELSE offset

KeyDown(m) ==
    /\ m \in open /\ ~paths_full
    /\ selected_file[m] < file_count[m] - 1
    /\ selected_file' = [selected_file EXCEPT ![m] = @ + 1]
    /\ scroll_offset' = [scroll_offset EXCEPT ![m] = ScrolledDown(selected_file[m] + 1, @)]
    /\ UNCHANGED <<current_path, file_count, open, file_list, paths_full>>

(* The last slash is cut off with what follows it, unless it is the first.  *)
ParentOf(path) == IF Len(path) <= 1 THEN path ELSE Front(path)

(* The entry is read from the list as it is now. *)
KeyEnter(m) ==
    /\ m \in open /\ ~paths_full
    /\ selected_file[m] < file_count[m]
    /\ LET entry == file_list[selected_file[m] + 1]
           path  == IF entry.name = Parent THEN ParentOf(current_path[m])
                    ELSE Append(current_path[m], entry.name)
       IN  /\ entry.dir
           /\ IF Len(path) > PathMax
                THEN /\ paths_full' = TRUE
                     /\ UNCHANGED <<current_path, file_count, selected_file,
                                    scroll_offset, file_list>>
                ELSE Load(m, path) /\ UNCHANGED paths_full
    /\ UNCHANGED open

Next ==
    \/ \E m \in Managers : Launch(m)
    \/ \E m \in Managers : KeyUp(m)
    \/ \E m \in Managers : KeyDown(m)
    \/ \E m \in Managers : KeyEnter(m)

Spec == Init /\ [][Next]_fmVars
-----------------------------------------------------------------------------
(* What Enter opens is what the window shows: the selected entry is one of  *)
(* those fm_render draws, and they are the entries of the window's own      *)
(* directory, though the list all windows read was last filled for some     *)
(* other path.  That holds because all directories but the root are alike,  *)
(* and no path leads back to the root.                                      *)
SelectionIsShown ==
    \A m \in open :
        /\ selected_file[m] < file_count[m]
        /\ scroll_offset[m] <= selected_file[m]
        /\ selected_file[m] < scroll_offset[m] + PAGE
        /\ SubSeq(file_list, 1, file_count[m]) = Listing(current_path[m])
=============================================================================
