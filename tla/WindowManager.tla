--------------------------- MODULE WindowManager ---------------------------
(***************************************************************************)
(* The window table of src/src/gui/window_manager.c as operators on a      *)
(* record wm: the desktop calls several of its functions in one step (a    *)
(* click goes to the desktop and then to the windows).                     *)
(*                                                                         *)
(* A window's place and size are its rect.  kmalloc is external here: it   *)
(* hands out a buffer that is not held, or fails; wm.held is what it has   *)
(* handed out and not got back.  The window buffers are all the window     *)
(* manager takes from the heap, so a buffer is its number; how many pixels *)
(* kmalloc was asked for is `pixels` (the pointer does not tell).  All     *)
(* windows are created with the same flags.  Of a slot that is free only   *)
(* the buffer is ever read, so the rest of it is cleared here and not      *)
(* there.                                                                  *)
(***************************************************************************)
EXTENDS Integers, FiniteSets

CONSTANTS
    MAX_WINDOWS,
    BORDER_WIDTH,
    TITLE_BAR_HEIGHT

WinSlots == 0 .. (MAX_WINDOWS - 1)
NoBuffer == 0
Buffers  == 1 .. MAX_WINDOWS

ASSUME WindowAssumption == MAX_WINDOWS \in Nat \ {0}

Rects == [x: Nat, y: Nat, width: Nat, height: Nat]
NoRect == [x |-> 0, y |-> 0, width |-> 0, height |-> 0]

Area(r) == r.width * r.height

Window == [id: Nat, rect: Rects, visible: BOOLEAN, focused: BOOLEAN,
           minimized: BOOLEAN, buffer: Buffers \cup {NoBuffer}, pixels: Nat]

Free(b) ==
    [id |-> 0, rect |-> NoRect, visible |-> FALSE, focused |-> FALSE, minimized |-> FALSE,
     buffer |-> b, pixels |-> 0]

Live(w) == {i \in WinSlots : w.windows[i].id # 0}

(* Where the loops of the window manager stop: the first slot with that id. *)
(* For id 0 that is the first slot that is free.                            *)
Least(S) == CHOOSE i \in S : \A j \in S : i <= j

Named(w, id) == {i \in WinSlots : w.windows[i].id = id}

(* What kmalloc can do: fail, or hand out what was given back last.  A      *)
(* buffer that was freed comes back at once if any can.                     *)
Mallocs(w) ==
    {NoBuffer} \cup (IF Buffers \subseteq w.held THEN {} ELSE {Least(Buffers \ w.held)})
-----------------------------------------------------------------------------
(* The table before the first wm_init. *)
WmStart ==
    [windows |-> [i \in WinSlots |-> Free(NoBuffer)],
     next_window_id |-> 1, focused_window |-> 0, window_count |-> 0, held |-> {}]

(* wm_init keeps next_window_id, and gives no buffer back: what was held is *)
(* lost, and taken out of the model.                                        *)
WmInit(w) ==
    [w EXCEPT !.windows = [i \in WinSlots |-> Free(NoBuffer)],
              !.focused_window = 0, !.window_count = 0, !.held = {}]

(* Seeded fault: the other windows keep their focus. *)
SetFocusAlone(w, id, focused) ==
    IF Named(w, id) = {} THEN w
    ELSE LET f == Least(Named(w, id))
         IN  [w EXCEPT !.windows[f].focused = focused,
                       !.focused_window = IF focused THEN id ELSE @]

(* wm_set_window_focus *)
SetFocus(w, id, focused) ==
    IF Named(w, id) = {} THEN w
    ELSE LET f == Least(Named(w, id))
         IN  [w EXCEPT
                !.windows = [i \in WinSlots |->
                    IF i = f THEN [w.windows[i] EXCEPT !.focused = focused]
                    ELSE IF focused /\ w.windows[i].id # 0
                      THEN [w.windows[i] EXCEPT !.focused = FALSE]
                    ELSE w.windows[i]],
                !.focused_window = IF focused THEN id ELSE @]

(* wm_create_window, with what kmalloc gives it.  A creation that fails     *)
(* leaves the slot free, and has used an id.                                *)
Create(w, r, b) ==
    IF w.window_count >= MAX_WINDOWS THEN w
    ELSE LET s  == IF Named(w, 0) = {} THEN 0 ELSE Least(Named(w, 0))
             id == w.next_window_id
             n  == [w EXCEPT !.next_window_id = @ + 1,
                             !.windows[s] = IF b = NoBuffer THEN Free(NoBuffer)
                                            ELSE [id |-> id, rect |-> r, visible |-> TRUE,
                                                  focused |-> TRUE, minimized |-> FALSE,
                                                  buffer |-> b, pixels |-> Area(r)]]
             u  == IF n.focused_window = 0 THEN n ELSE SetFocus(n, n.focused_window, FALSE)
         IN  IF b = NoBuffer THEN n
             ELSE [u EXCEPT !.focused_window = id, !.window_count = @ + 1, !.held = @ \cup {b}]

(* What wm_create_window returns. *)
Created(w, b) ==
    IF w.window_count >= MAX_WINDOWS \/ b = NoBuffer THEN 0 ELSE w.next_window_id

(* Seeded fault: the slot keeps the pointer to the buffer that was freed. *)
ReleasedUncleared(w, s) ==
    [w EXCEPT !.windows[s] = Free(@.buffer),
              !.window_count = @ - 1, !.held = @ \ {w.windows[s].buffer}]

Released(w, s) ==
    [w EXCEPT !.windows[s] = Free(NoBuffer),
              !.window_count = @ - 1, !.held = @ \ {w.windows[s].buffer}]

(* wm_destroy_window: when it had the focus, the first window left gets it, *)
(* and none of the others is told.                                          *)
Destroy(w, id) ==
    IF Named(w, id) = {} THEN w
    ELSE LET g == Released(w, Least(Named(w, id)))
             t == {i \in Live(g) : g.windows[i].visible}
         IN  IF w.focused_window # id THEN g
             ELSE IF t = {} THEN [g EXCEPT !.focused_window = 0]
             ELSE [g EXCEPT !.focused_window = g.windows[Least(t)].id,
                            !.windows[Least(t)].focused = TRUE]

(* wm_move_window *)
Move(w, id, x, y) ==
    IF Named(w, id) = {} THEN w
    ELSE LET s == Least(Named(w, id))
         IN  [w EXCEPT !.windows[s].rect.x = x, !.windows[s].rect.y = y]

(* What kmalloc can do for a resize, which has freed the old buffer first.  *)
ResizeMallocs(w, id) ==
    IF Named(w, id) = {} THEN {NoBuffer}
    ELSE Mallocs([w EXCEPT !.held = @ \ {w.windows[Least(Named(w, id))].buffer}])

(* The size is the window's only if there is memory for it.  Without, there *)
(* is nothing to draw into.                                                 *)
Resized(win, width, height, b) ==
    IF b = NoBuffer THEN [win EXCEPT !.buffer = NoBuffer, !.pixels = 0]
    ELSE LET r == [win.rect EXCEPT !.width = width, !.height = height]
         IN  [win EXCEPT !.rect = r, !.buffer = b, !.pixels = Area(r)]

(* wm_resize_window *)
Resize(w, id, width, height, b) ==
    IF Named(w, id) = {} THEN w
    ELSE LET s == Least(Named(w, id))
         IN  [w EXCEPT !.windows[s] = Resized(@, width, height, b),
                       !.held = (@ \ {w.windows[s].buffer}) \cup ({b} \ {NoBuffer})]

(* wm_get_window_buffer *)
BufferOf(w, id) ==
    IF Named(w, id) = {} THEN NoBuffer ELSE w.windows[Least(Named(w, id))].buffer

PixelsOf(w, id) ==
    IF Named(w, id) = {} THEN 0 ELSE w.windows[Least(Named(w, id))].pixels
-----------------------------------------------------------------------------
Within(p, x, y, width, height) ==
    p.x >= x /\ p.x < x + width /\ p.y >= y /\ p.y < y + height

Hit(w, p) ==
    {i \in Live(w) :
        /\ w.windows[i].visible
        /\ LET r == w.windows[i].rect
           IN  Within(p, r.x - BORDER_WIDTH, r.y - BORDER_WIDTH, r.width + 2 * BORDER_WIDTH,
                      r.height + TITLE_BAR_HEIGHT + 2 * BORDER_WIDTH)}

(* Whether p is on the control that is dx to the left of a title bar's end. *)
OnControl(r, p, dx) ==
    Within(p, r.x + r.width - 20 - dx, r.y, 16, TITLE_BAR_HEIGHT)

(* wm_handle_mouse_click with the left button: the first slot under the     *)
(* point, whichever window is drawn on top there.                           *)
WmClick(w, p) ==
    IF Hit(w, p) = {} THEN w
    ELSE LET s == Least(Hit(w, p))
             r == w.windows[s].rect
             g == SetFocus(w, w.windows[s].id, TRUE)
         IN  CASE OnControl(r, p, 60) -> Destroy(g, w.windows[s].id)
               [] OnControl(r, p, 20) -> [g EXCEPT !.windows[s].minimized = ~@]
               [] OTHER -> g
=============================================================================
