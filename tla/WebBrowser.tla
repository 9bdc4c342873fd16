----------------------------- MODULE WebBrowser -----------------------------
(***************************************************************************)
(* One window of src/src/apps/web_browser.c: its tabs, the address bar and *)
(* the history.  What a tab shows besides its URL follows from the URL.    *)
(* Nothing opens the panel of bookmarks or scrolls a page.  Closing a tab  *)
(* has its function, and no button that calls it yet.                      *)
(***************************************************************************)
EXTENDS Integers, Sequences, SequencesExt

CONSTANTS
    MAX_TABS, MAX_HISTORY, MAX_URL_LENGTH,
    Chars,           \* the printable characters
    Home             \* "https://kronos-os.org"

Urls == {url \in Seq(Chars) : Len(url) < MAX_URL_LENGTH}

BrowserAssumption ==
    /\ MAX_TABS \in Nat \ {0}
    /\ MAX_HISTORY \in Nat \ {0}
    /\ MAX_URL_LENGTH \in Nat
    /\ Home \in Urls

VARIABLES
    tabs,            \* those up to tab_count
    active_tab,      \* from 1 here
    address_bar,
    history,
    typed            \* history variable: the address bar need not be the tab's

wbVars == <<tabs, active_tab, address_bar, history, typed>>

TypeOK ==
    /\ tabs \in Seq([url: Urls, active: BOOLEAN]) /\ Len(tabs) \in 1 .. MAX_TABS
    /\ active_tab \in 1 .. MAX_TABS
    /\ address_bar \in Urls
    /\ history \in Seq(Urls) /\ Len(history) \in 1 .. MAX_HISTORY
    /\ typed \in BOOLEAN

(* browser_add_to_history drops the oldest entry of a full history. *)
Remembered(url) ==
    Append(IF Len(history) >= MAX_HISTORY THEN Tail(history) ELSE history, url)

(* app_launch_web_browser *)
Init ==
    /\ tabs = <<[url |-> Home, active |-> TRUE]>>
    /\ active_tab = 1
    /\ address_bar = Home
    /\ history = <<Home>>
    /\ typed = FALSE
-----------------------------------------------------------------------------
(* browser_load_page, into the tab that is active. *)
LoadPage(open, t, url) ==
    /\ tabs' = [open EXCEPT ![t].url = url]
    /\ active_tab' = t
    /\ address_bar' = url
    /\ history' = Remembered(url)
    /\ typed' = FALSE

Back    == LoadPage(tabs, active_tab, Home)
Refresh == LoadPage(tabs, active_tab, tabs[active_tab].url)
Enter   == LoadPage(tabs, active_tab, address_bar)

(* The tab t of them is marked active, and the one that was is not. *)
Activated(open, t) ==
    [[open EXCEPT ![active_tab].active = FALSE] EXCEPT ![t].active = TRUE]

SwitchTab(t) ==
    /\ tabs' = Activated(tabs, t)
    /\ active_tab' = t
    /\ address_bar' = tabs[t].url
    /\ typed' = FALSE
    /\ UNCHANGED history

NewTab ==
    /\ Len(tabs) < MAX_TABS
    /\ LET open == Append(tabs, [url |-> Home, active |-> FALSE])
       IN  LoadPage(Activated(open, Len(open)), Len(open), Home)

(* Seeded fault: only a tab to the left of the active one moves it. *)
LeftOf(t) == IF active_tab > t THEN active_tab - 1 ELSE active_tab

(* The tab that is active when t has been closed. *)
Successor(t) == IF active_tab >= t /\ active_tab > 1 THEN active_tab - 1 ELSE active_tab

(* browser_close_tab leaves the address bar alone, whatever tab comes up.   *)
CloseTab(t) ==
    /\ Len(tabs) > 1
    /\ tabs' = [RemoveAt(tabs, t) EXCEPT ![Successor(t)].active = TRUE]
    /\ active_tab' = Successor(t)
    /\ typed' = (typed \/ t = active_tab)
    /\ UNCHANGED <<address_bar, history>>

Type(c) ==
    /\ Len(address_bar) < MAX_URL_LENGTH - 1
    /\ address_bar' = Append(address_bar, c)
    /\ typed' = TRUE
    /\ UNCHANGED <<tabs, active_tab, history>>

Backspace ==
    /\ address_bar # <<>>
    /\ address_bar' = Front(address_bar)
    /\ typed' = TRUE
    /\ UNCHANGED <<tabs, active_tab, history>>

Next ==
    \/ Back
    \/ Refresh
    \/ Enter
    \/ NewTab
    \/ \E t \in DOMAIN tabs : SwitchTab(t)
    \/ \E t \in DOMAIN tabs : CloseTab(t)
    \/ \E c \in Chars : Type(c)
    \/ Backspace

Spec == Init /\ [][Next]_wbVars
-----------------------------------------------------------------------------
(* One tab is drawn as active, and it is the one whose page is shown and    *)
(* the next page is loaded into, whatever tabs were closed, in whatever     *)
(* order; and the address bar has its URL, unless it was edited since, or   *)
(* the tab that it was of was closed.                                       *)
TabsAgree ==
    /\ active_tab \in DOMAIN tabs
    /\ \A t \in DOMAIN tabs : tabs[t].active <=> t = active_tab
    /\ ~typed => address_bar = tabs[active_tab].url
=============================================================================
