------------------------------- MODULE MCGui -------------------------------
(***************************************************************************)
(* The desktop and the applications for TLC: two window slots, and screens,*)
(* lines, lists and tables of a few entries each.                          *)
(***************************************************************************)
EXTENDS Gui, TLC

CONSTANT MaxIds    \* bound: how many windows a behaviour may open

MCEditorWelcome == 0 :> <<"a">> @@ 1 :> <<>> @@ 2 :> <<>>
MCSample        == 0 :> <<>> @@ 1 :> <<"b", "a">> @@ 2 :> <<>>
MCSavedNote     == <<"b">>

MCTerminalWelcome == <<<<"w">>>>
MCPrompt          == <<"$">>
MCCommands        == <<"h">> :> <<<<"x", "x", "x", "x", "x">>, <<"h">>, <<"y">>>>
MCClearCommand    == <<"c">>
MCExitCommand     == <<"q">>
MCEchoCommand     == <<"e">>
MCNotFound        == <<"n", "f">>

MCDirectories == <<"Desktop", "Music">>
MCFiles       == <<"readme.txt", "photo.jpg">>

MCHomePage == <<"h">>

MCPanelPoints == [x : {100, 230, 660}, y : {19, 20, 69, 70, 120, 200, 230, 270}]

MCPackagePoints ==
    [x : {105, 195, 285}, y : {10}]
    \cup [x : {20}, y : {50, 109, 110, 170, 230, 290, 350, 410, 470, 499, 500}]

(* A margin, a preview, the strip beside the last one of a row, the buttons *)
(* and the switch of the slideshow.                                         *)
MCSelectorPoints ==
    [x : {10, 20, 540}, y : {60, 399}]
    \cup {[x |-> 400, y |-> 450], [x |-> 500, y |-> 450], [x |-> 200, y |-> 415]}

MCAppRect ==
    [k \in Kinds |->
        CASE k = "terminal" -> [x |-> 200, y |-> 150, width |-> 600, height |-> 400]
          [] k = "files"    -> [x |-> 300, y |-> 200, width |-> 700, height |-> 500]
          [] k = "editor"   -> [x |-> 250, y |-> 100, width |-> 650, height |-> 450]]
MCMoveTo == {[x |-> 200, y |-> 150]}
MCSizes  == {[width |-> 600, height |-> 400]}
MCLimit  == [k \in Kinds |-> IF k = "terminal" THEN 4 ELSE 2]

(* The Start button, icons, tabs, two title bars, a window's inside, and a  *)
(* close button.                                                            *)
MCPoints ==
    {[x |-> 10, y |-> 740], [x |-> 60, y |-> 60], [x |-> 60, y |-> 120],
     [x |-> 60, y |-> 160], [x |-> 150, y |-> 740], [x |-> 280, y |-> 740],
     [x |-> 725, y |-> 160], [x |-> 500, y |-> 260], [x |-> 765, y |-> 160]}

(* The menu and the modifiers matter to nothing else: they are not combined *)
(* with all the rest.                                                       *)
Bound ==
    /\ wm.next_window_id <= MaxIds
    /\ start_menu_open => mode # "text" /\ ~ctrl /\ ~alt
    /\ Len(apps["files"]) + Len(apps["editor"]) <= 1
=============================================================================
