-------------------------------- MODULE Gui --------------------------------
(***************************************************************************)
(* The desktop and the applications in one system, one of them at a time:  *)
(* they keep no state in common, so that every behaviour of all of them is *)
(* one of each, and app says whose turn the whole behaviour is.            *)
(***************************************************************************)
EXTENDS Desktop

CONSTANTS
    EDITOR_ROWS, MAX_LINE_LENGTH, EditorChars, EditorWelcome, WelcomeCursor, Sample, SavedNote,
    TERM_ROWS, TERM_COLS, Printable, Blank, TerminalChars, TerminalWelcome, Prompt, Commands,
    ClearCommand, ExitCommand, EchoCommand, NotFound,
    Managers, Directories, Files, PAGE, PathMax, Parent,
    Settings, Ints, Strings, BlankEntry, MAX_SETTINGS_PER_CATEGORY,
    PanelPoints, PackagePoints, SelectorPoints, WORD,
    MAX_TABS, MAX_HISTORY, MAX_URL_LENGTH, BrowserChars, HomePage,
    wallpaper_count

VARIABLES
    app,
    lines, cursor_x, cursor_y, modified, filename, overrun,
    buffer, cx, cy, input_line, active,
    current_path, file_count, selected_file, scroll_offset, open, file_list, paths_full,
    entries, result, accepted,
    values, current_category, selected_item,
    status, selected_package, scroll_position, show_details,
    tabs, active_tab, address_bar, history, typed,
    current_wallpaper, slideshow_enabled, selectors, selector_count, shown

Ed == INSTANCE TextEditor WITH Chars <- EditorChars, Welcome <- EditorWelcome

Tm == INSTANCE Terminal WITH Chars <- TerminalChars, Welcome <- TerminalWelcome

Fm == INSTANCE FileManager

Sm == INSTANCE SettingsManager WITH Names <- Settings, Blank <- BlankEntry

Sa == INSTANCE SettingsApp WITH Points <- PanelPoints

Pm == INSTANCE PackageManager WITH Points <- PackagePoints

Wb == INSTANCE WebBrowser WITH Chars <- BrowserChars, Home <- HomePage

Wp == INSTANCE Wallpaper WITH Points <- SelectorPoints

ASSUME GuiAssumption ==
    /\ Ed!EditorAssumption
    /\ Tm!TerminalAssumption
    /\ Fm!FileManagerAssumption
    /\ Sm!SettingsAssumption
    /\ Pm!PackageAssumption
    /\ Wb!BrowserAssumption
    /\ Wp!WallpaperAssumption
-----------------------------------------------------------------------------
Apps == {"desktop", "editor", "terminal", "files", "settings", "panel", "packages",
         "browser", "wallpaper"}

GuiStart ==
    /\ app \in Apps
    /\ Init /\ Ed!Init /\ Tm!Init /\ Fm!Init /\ Sm!Init /\ Sa!Init /\ Pm!Init
    /\ Wb!Init /\ Wp!Init

edVars   == <<lines, cursor_x, cursor_y, modified, filename, overrun>>
termVars == <<buffer, cx, cy, input_line, active>>
fmVars   == <<current_path, file_count, selected_file, scroll_offset, open, file_list,
              paths_full>>
smVars   == <<entries, result, accepted>>
saVars   == <<values, current_category, selected_item>>
pmVars   == <<status, selected_package, scroll_position, show_details>>
wbVars   == <<tabs, active_tab, address_bar, history, typed>>
wpVars   == <<current_wallpaper, slideshow_enabled, selectors, selector_count, shown>>

GuiNext ==
    \/ /\ app = "desktop" /\ Next
       /\ UNCHANGED <<app, edVars, termVars, fmVars, smVars, saVars, pmVars, wbVars, wpVars>>
    \/ /\ app = "editor" /\ Ed!Next
       /\ UNCHANGED <<app, vars, termVars, fmVars, smVars, saVars, pmVars, wbVars, wpVars>>
    \/ /\ app = "terminal" /\ Tm!Next
       /\ UNCHANGED <<app, vars, edVars, fmVars, smVars, saVars, pmVars, wbVars, wpVars>>
    \/ /\ app = "files" /\ Fm!Next
       /\ UNCHANGED <<app, vars, edVars, termVars, smVars, saVars, pmVars, wbVars, wpVars>>
    \/ /\ app = "settings" /\ Sm!Next
       /\ UNCHANGED <<app, vars, edVars, termVars, fmVars, saVars, pmVars, wbVars, wpVars>>
    \/ /\ app = "panel" /\ Sa!Next
       /\ UNCHANGED <<app, vars, edVars, termVars, fmVars, smVars, pmVars, wbVars, wpVars>>
    \/ /\ app = "packages" /\ Pm!Next
       /\ UNCHANGED <<app, vars, edVars, termVars, fmVars, smVars, saVars, wbVars, wpVars>>
    \/ /\ app = "browser" /\ Wb!Next
       /\ UNCHANGED <<app, vars, edVars, termVars, fmVars, smVars, saVars, pmVars, wpVars>>
    \/ /\ app = "wallpaper" /\ Wp!Next
       /\ UNCHANGED <<app, vars, edVars, termVars, fmVars, smVars, saVars, pmVars, wbVars>>

allVars == <<app, vars, edVars, termVars, fmVars, smVars, saVars, pmVars, wbVars, wpVars>>

GuiSpec == GuiStart /\ [][GuiNext]_allVars

(* The fields of the desktop and of every application have their types.    *)
AllTypeOK ==
    /\ TypeOK
    /\ Ed!TypeOK
    /\ Tm!TypeOK
    /\ Fm!TypeOK
    /\ Sm!TypeOK
    /\ Sa!TypeOK
    /\ Pm!TypeOK
    /\ Wb!TypeOK
    /\ Wp!TypeOK

(* The applications' properties, under the names they have in their modules *)
(* where they are stated and explained.                                     *)
CursorInLine      == Ed!CursorInLine
EditsAtCursor     == Ed!EditsAtCursor
InputIsShown      == Tm!InputIsShown
SelectionIsShown  == Fm!SelectionIsShown
ReadsLastAccepted == Sm!ReadsLastAccepted
TabsAgree         == Wb!TabsAgree
=============================================================================
