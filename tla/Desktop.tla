------------------------------ MODULE Desktop ------------------------------
(***************************************************************************)
(* The graphical side of Kronos: the desktop (src/src/gui/desktop.c) and   *)
(* the GUI loop (src/src/gui/gui_main.c) over the window manager, with the *)
(* tables in which the applications keep their windows.                    *)
(*                                                                         *)
(* gui_main_loop handles one key and one mouse event in each round and has *)
(* no other thread beside it, so one event is one step.  Where the         *)
(* simulated mouse is when it clicks is any of Points.  Keys are not       *)
(* routed to the applications yet; a quit typed into one (Quit) is taken   *)
(* to need its window's focus, as the comment in gui_handle_keyboard says. *)
(***************************************************************************)
EXTENDS WindowManager, Sequences, SequencesExt

CONSTANTS
    MAX_TASKBAR_ITEMS,
    Points,           \* where the mouse may click: records x, y
    AppRect,          \* the window each application opens with; it draws that size
    Limit,            \* how many of each application are kept track of
    TASKBAR_Y,        \* where the taskbar begins
    MoveTo, Sizes     \* the arguments of events for windows

Kinds == {"terminal", "files", "editor"}
Icons == 0 .. 15      \* MAX_DESKTOP_ICONS

ASSUME DesktopAssumption ==
    /\ MAX_TASKBAR_ITEMS \in Nat \ {0}
    /\ AppRect \in [Kinds -> Rects]
    /\ Limit \in [Kinds -> Nat]
    /\ MoveTo \subseteq [x: Nat, y: Nat]
    /\ Sizes \subseteq [width: Nat, height: Nat]

VARIABLES
    wm,
    taskbar,          \* taskbar_items up to taskbar_item_count
    start_menu_open,
    icons,            \* the slots of desktop_icons that are visible
    icon_count,
    apps,             \* the applications' own tables
    mode,             \* "text", or who called gui_init
    ctrl, alt         \* statics of gui_handle_keyboard

guiVars  == <<mode, ctrl, alt>>
deskVars == <<taskbar, start_menu_open, icons, icon_count>>
vars     == <<wm, deskVars, apps, guiVars>>

TypeOK ==
    /\ wm.windows \in [WinSlots -> Window]
    /\ wm.next_window_id \in Nat \ {0}
    /\ wm.focused_window \in Nat
    /\ wm.held \subseteq Buffers
    /\ taskbar \in Seq([window_id: Nat, active: BOOLEAN])
    /\ Len(taskbar) <= MAX_TASKBAR_ITEMS
    /\ start_menu_open \in BOOLEAN
    /\ icons \subseteq Icons /\ icon_count \in Nat
    /\ \A k \in Kinds :
           apps[k] \in Seq([window_id: Nat, active: BOOLEAN]) /\ Len(apps[k]) <= Limit[k]
    /\ mode \in {"text", "gui", "demo"}
    /\ {ctrl, alt} \subseteq BOOLEAN

Init ==
    /\ wm = WmStart
    /\ taskbar = <<>>
    /\ start_menu_open = FALSE
    /\ icons = {} /\ icon_count = 0
    /\ apps = [k \in Kinds |-> <<>>]
    /\ mode = "text"
    /\ ctrl = FALSE /\ alt = FALSE
-----------------------------------------------------------------------------
(* desktop_add_taskbar_item: the new item is the active one. *)
AddTab(tabs, id) ==
    IF Len(tabs) >= MAX_TASKBAR_ITEMS THEN tabs
    ELSE Append([i \in DOMAIN tabs |-> [tabs[i] EXCEPT !.active = FALSE]],
                [window_id |-> id, active |-> TRUE])

(* desktop_remove_taskbar_item takes the first item of that window. *)
RemoveTab(tabs, id) ==
    LET of == {i \in DOMAIN tabs : tabs[i].window_id = id}
    IN  IF of = {} THEN tabs ELSE RemoveAt(tabs, Least(of))

(* app_launch_terminal, app_launch_file_manager, app_launch_text_editor:    *)
(* when the table is full, the window stays empty.                          *)
Enter(table, k, id) ==
    IF Len(table[k]) >= Limit[k] THEN table
    ELSE [table EXCEPT ![k] = Append(@, [window_id |-> id, active |-> TRUE])]

(* desktop_launch_app, on all it changes, for each outcome of kmalloc: what *)
(* wm_create_window returned is handed on unseen.                           *)
Launch(d, k) ==
    {[d EXCEPT !.wm   = Create(@, AppRect[k], b),
               !.tabs = AddTab(@, Created(d.wm, b)),
               !.apps = Enter(@, k, Created(d.wm, b))] : b \in Mallocs(d.wm)}

(* What gui_show_demo does when the loop that its gui_init ran has ended.   *)
LaunchDemo(d) ==
    UNION {UNION {Launch(e, "editor") : e \in Launch(f, "files")} : f \in Launch(d, "terminal")}

Now == [wm |-> wm, tabs |-> taskbar, apps |-> apps, menu |-> start_menu_open]

Becomes(d) ==
    /\ wm' = d.wm
    /\ taskbar' = d.tabs
    /\ apps' = d.apps
    /\ start_menu_open' = d.menu

(* gui_init up to its loop: the windows, the desktop, the applications.     *)
(* desktop_init adds the icons behind those it counted before, and then     *)
(* sets the count back.                                                     *)
GuiInit(who) ==
    /\ mode = "text"
    /\ mode' = who
    /\ wm' = WmInit(wm)
    /\ icons' = {i \in Icons : i >= icon_count /\ i < icon_count + 6}
    /\ icon_count' = 6
    /\ taskbar' = <<>>
    /\ start_menu_open' = FALSE
    /\ apps' = [k \in Kinds |-> <<>>]
    /\ UNCHANGED <<ctrl, alt>>

(* Ctrl+A and Esc stand for the two modifiers; each stays pressed until a   *)
(* key other than these, and other than q, has come.                        *)
KeyCtrl == mode # "text" /\ ctrl' = TRUE /\ UNCHANGED <<wm, deskVars, apps, mode, alt>>
KeyAlt  == mode # "text" /\ alt' = TRUE /\ UNCHANGED <<wm, deskVars, apps, mode, ctrl>>

(* Ctrl+Alt+T, Ctrl+Alt+F, Ctrl+Alt+E. *)
KeyLaunch(k) ==
    /\ mode # "text"
    /\ \E d \in IF ctrl /\ alt THEN Launch(Now, k) ELSE {Now} : Becomes(d)
    /\ ctrl' = FALSE /\ alt' = FALSE
    /\ UNCHANGED <<icons, icon_count, mode>>

(* Ctrl+Alt+Q ends the loop and with it gui_init. *)
KeyQuit ==
    /\ mode # "text"
    /\ IF ctrl /\ alt
         THEN /\ mode' = "text"
              /\ \E d \in IF mode = "demo" THEN LaunchDemo(Now) ELSE {Now} : Becomes(d)
              /\ UNCHANGED <<ctrl, alt>>
         ELSE /\ ctrl' = FALSE /\ alt' = FALSE
              /\ UNCHANGED <<wm, taskbar, start_menu_open, apps, mode>>
    /\ UNCHANGED <<icons, icon_count>>

OnStart(p) == p.y >= TASKBAR_Y /\ p.x \in 4 .. 84

TabAt(p) ==
    {i \in DOMAIN taskbar : p.y >= TASKBAR_Y /\ p.x - 124 * (i - 1) \in 100 .. 220}

(* Icons at the same place show the same, so any that is hit will do.       *)
IconAt(p) ==
    {i % 6 : i \in {j \in icons : j < icon_count /\ p.x \in 50 .. 82
                                                 /\ p.y - 50 * (j % 6) \in 50 .. 82}}

(* desktop_handle_click; three of the icons launch nothing yet. *)
DesktopClick(p) ==
    IF OnStart(p) THEN {[Now EXCEPT !.menu = ~@]}
    ELSE IF TabAt(p) # {} THEN
        LET i == Least(TabAt(p))
        IN  {[Now EXCEPT !.wm = SetFocus(@, taskbar[i].window_id, TRUE),
                         !.tabs = [j \in DOMAIN taskbar |->
                                     [taskbar[j] EXCEPT !.active = (j = i)]]]}
    ELSE IF IconAt(p) # {} THEN
        CASE 0 \in IconAt(p) -> Launch(Now, "terminal")
          [] 1 \in IconAt(p) -> Launch(Now, "files")
          [] 2 \in IconAt(p) -> Launch(Now, "editor")
          [] OTHER           -> {Now}
    ELSE {[Now EXCEPT !.menu = FALSE]}

(* gui_handle_mouse gives a click to the desktop and then to the windows.   *)
Click(p) ==
    /\ mode # "text"
    /\ \E d \in DesktopClick(p) : Becomes([d EXCEPT !.wm = WmClick(@, p)])
    /\ UNCHANGED <<icons, icon_count, guiVars>>

(* gui_handle_window_event, for a window that exists. *)
EventClose(id) ==
    /\ Becomes([Now EXCEPT !.wm = Destroy(@, id), !.tabs = RemoveTab(@, id)])
    /\ UNCHANGED <<icons, icon_count, guiVars>>

EventFocus(id) ==
    /\ wm' = SetFocus(wm, id, TRUE)
    /\ UNCHANGED <<deskVars, apps, guiVars>>

EventMove(id, to) ==
    /\ wm' = Move(wm, id, to.x, to.y)
    /\ UNCHANGED <<deskVars, apps, guiVars>>

EventResize(id, size) ==
    /\ \E b \in ResizeMallocs(wm, id) : wm' = Resize(wm, id, size.width, size.height, b)
    /\ UNCHANGED <<deskVars, apps, guiVars>>

(* exit in a terminal, Ctrl+Q in an editor. *)
Quit(k, i) ==
    LET id == apps[k][i].window_id
    IN  /\ apps[k][i].active /\ id # 0 /\ wm.focused_window = id
        /\ Becomes([Now EXCEPT !.wm = Destroy(@, id), !.tabs = RemoveTab(@, id),
                               !.apps[k][i].active = FALSE])
        /\ UNCHANGED <<icons, icon_count, guiVars>>

LiveIds == {wm.windows[i].id : i \in Live(wm)}

Next ==
    \/ \E who \in {"gui", "demo"} : GuiInit(who)
    \/ KeyCtrl
    \/ KeyAlt
    \/ \E k \in Kinds : KeyLaunch(k)
    \/ KeyQuit
    \/ \E p \in Points : Click(p)
    \/ \E id \in LiveIds : EventClose(id)
    \/ \E id \in LiveIds : EventFocus(id)
    \/ \E id \in LiveIds, to \in MoveTo : EventMove(id, to)
    \/ \E id \in LiveIds, size \in Sizes : EventResize(id, size)
    \/ \E k \in {"terminal", "editor"} : \E i \in DOMAIN apps[k] : Quit(k, i)

Spec == Init /\ [][Next]_vars
-----------------------------------------------------------------------------
(* The two places that know the focus agree: a window is drawn as focused,  *)
(* on top, exactly if it is focused_window; and focused_window is 0 or a    *)
(* window that exists, whatever was closed, clicked or failed to open.      *)
FocusAgrees ==
    /\ \A i \in Live(wm) : wm.windows[i].focused <=> wm.windows[i].id = wm.focused_window
    /\ wm.focused_window # 0 => \E i \in Live(wm) : wm.windows[i].id = wm.focused_window

(* Whatever id an application still holds, be it of a window that is gone   *)
(* or of one that never came, the pointer it gets to draw through is NULL   *)
(* or that very window's own buffer: held, no other slot's, and exactly as  *)
(* large as wm_render reads it.                                             *)
BufferIsOwn ==
    \A k \in Kinds : \A i \in DOMAIN apps[k] :
        LET id == apps[k][i].window_id
        IN  BufferOf(wm, id) # NoBuffer =>
                /\ BufferOf(wm, id) \in wm.held
                /\ \A j \in WinSlots :
                       wm.windows[j].buffer = BufferOf(wm, id) =>
                           /\ wm.windows[j].id = id /\ id # 0
                           /\ wm.windows[j].pixels = Area(wm.windows[j].rect)

(* "Assuming window size" (terminal_app.c:189): each application clears and *)
(* fills as many pixels as the window it opened with had (terminal_render,  *)
(* fm_render, editor_render), so its buffer should have them.  A window     *)
(* that was made smaller has not, and the drawing runs over its end.        *)
DrawsFit ==
    \A k \in Kinds : \A i \in DOMAIN apps[k] :
        LET id == apps[k][i].window_id
        IN  apps[k][i].active /\ BufferOf(wm, id) # NoBuffer =>
                Area(AppRect[k]) <= PixelsOf(wm, id)
=============================================================================
