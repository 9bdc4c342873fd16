----------------------------- MODULE Wallpaper -----------------------------
(***************************************************************************)
(* The wallpaper manager (src/src/gui/wallpaper_manager.c) with its        *)
(* selector windows.  Colours and previews are left out.  When the next    *)
(* picture of the slideshow is due is open, the clock being external, and  *)
(* so is desktop_set_wallpaper, which has no body: shown is what it was    *)
(* called with last.  Coordinates are unsigned.                            *)
(***************************************************************************)
EXTENDS Integers

CONSTANTS
    wallpaper_count, \* 12 are built in
    Points,          \* where a selector is clicked: the set of [x, y]
    WORD             \* 2^32

Wallpapers == 0 .. (wallpaper_count - 1)
Selectors  == {1, 2}
NoPicture  == wallpaper_count

WallpaperAssumption == wallpaper_count \in Nat \ {0}

VARIABLES
    current_wallpaper, slideshow_enabled,
    selectors,       \* selected_wallpaper and active of each
    selector_count,
    shown

wpVars == <<current_wallpaper, slideshow_enabled, selectors, selector_count, shown>>

TypeOK ==
    /\ current_wallpaper \in Wallpapers
    /\ slideshow_enabled \in BOOLEAN
    /\ selectors \in [Selectors -> [selected: Wallpapers, active: BOOLEAN]]
    /\ selector_count \in {0, 1, 2}
    /\ shown \in {NoPicture, current_wallpaper}

(* wallpaper_manager_init and app_wallpaper_selector_init *)
Init ==
    /\ current_wallpaper = 0
    /\ slideshow_enabled = FALSE
    /\ selectors = [s \in Selectors |-> [selected |-> 0, active |-> FALSE]]
    /\ selector_count = 0
    /\ shown = NoPicture
-----------------------------------------------------------------------------
(* wallpaper_set_current *)
SetCurrent(w) ==
    IF w \in Wallpapers THEN current_wallpaper' = w /\ shown' = w
    ELSE UNCHANGED <<current_wallpaper, shown>>

Following == (current_wallpaper + 1) % wallpaper_count

(* app_launch_wallpaper_selector; wallpaper_update_slideshow when it is due. *)
Cycle == SetCurrent(Following) /\ UNCHANGED <<slideshow_enabled, selectors, selector_count>>

Slideshow == slideshow_enabled /\ Cycle

(* app_launch_wallpaper_selector_window *)
LaunchSelector ==
    /\ selector_count < 2
    /\ selector_count' = selector_count + 1
    /\ selectors' = [selectors EXCEPT ![selector_count + 1] =
                         [selected |-> current_wallpaper, active |-> TRUE]]
    /\ UNCHANGED <<current_wallpaper, slideshow_enabled, shown>>

(* Three to a row; the strip to the right of a row is the next one's first. *)
GridIndex(p) == ((p.y - 60) \div 140) * 3 + ((p.x - 20) % WORD) \div 170

Grid(s, p) ==
    /\ p.y \in 60 .. 399
    /\ GridIndex(p) \in Wallpapers
    /\ selectors' = [selectors EXCEPT ![s].selected = GridIndex(p)]
    /\ UNCHANGED <<current_wallpaper, slideshow_enabled, selector_count, shown>>

(* Apply and Cancel close the window, which keeps its slot. *)
Buttons(s, p) ==
    /\ p.y \in 450 .. 479
    /\ \/ p.x \in 400 .. 479 /\ SetCurrent(selectors[s].selected)
       \/ p.x \in 500 .. 579 /\ UNCHANGED <<current_wallpaper, shown>>
    /\ selectors' = [selectors EXCEPT ![s].active = FALSE]
    /\ UNCHANGED <<slideshow_enabled, selector_count>>

Toggle(p) ==
    /\ p.y \in 415 .. 434 /\ p.x \in 200 .. 259
    /\ slideshow_enabled' = ~slideshow_enabled
    /\ UNCHANGED <<current_wallpaper, selectors, selector_count, shown>>

Click(s, p) == selectors[s].active /\ (Grid(s, p) \/ Buttons(s, p) \/ Toggle(p))

Next ==
    \/ Cycle
    \/ Slideshow
    \/ LaunchSelector
    \/ \E s \in Selectors, p \in Points : Click(s, p)

Spec == Init /\ [][Next]_wpVars
=============================================================================
