--------------------------- MODULE PackageManager ---------------------------
(***************************************************************************)
(* One window of src/src/apps/package_manager.c.  Each window has its own  *)
(* copy of the sample packages: a package installed in one is not          *)
(* installed in the other.  Rows are drawn and clicked by arithmetic of    *)
(* their own, which is kept; pixels and texts are not.                     *)
(***************************************************************************)
EXTENDS Integers, Sequences

CONSTANTS Points     \* where the window is clicked: the set of [x, y]

PackageAssumption == Points \subseteq [x: Nat, y: Nat]

ItemHeight == 60
ListTop    == 50
ListHeight == 450

(* sample_packages: none of them is essential. *)
Samples == <<"INSTALLED", "INSTALLED", "INSTALLED", "INSTALLED", "NOT_INSTALLED",
             "NOT_INSTALLED", "NOT_INSTALLED", "INSTALLED", "NOT_INSTALLED", "NOT_INSTALLED",
             "UPGRADABLE", "INSTALLED", "NOT_INSTALLED", "NOT_INSTALLED", "NOT_INSTALLED">>

Essential == {}

package_count == Len(Samples)
Packages == 0 .. (package_count - 1)

VARIABLES status, selected_package, scroll_position, show_details

pmVars == <<status, selected_package, scroll_position, show_details>>

TypeOK ==
    /\ status \in [Packages -> {"INSTALLED", "NOT_INSTALLED", "UPGRADABLE"}]
    /\ selected_package \in Packages
    /\ scroll_position \in Nat
    /\ show_details \in BOOLEAN

(* app_launch_package_manager; nothing scrolls the list afterwards. *)
Init ==
    /\ status = [p \in Packages |-> Samples[p + 1]]
    /\ selected_package = 0
    /\ scroll_position = 0
    /\ show_details = FALSE
-----------------------------------------------------------------------------
(* pm_upgrade_packages, pm_install_selected_package and                     *)
(* pm_remove_selected_package; pm_update_package_cache only waits.          *)
Upgraded == [p \in Packages |-> IF status[p] = "UPGRADABLE" THEN "INSTALLED" ELSE status[p]]

Installed ==
    IF status[selected_package] = "NOT_INSTALLED"
      THEN [status EXCEPT ![selected_package] = "INSTALLED"] ELSE status

Removed ==
    IF status[selected_package] = "INSTALLED" /\ selected_package \notin Essential
      THEN [status EXCEPT ![selected_package] = "NOT_INSTALLED"] ELSE status

(* The toolbar's buttons, where draw_pm_toolbar draws them; its search box  *)
(* and view buttons do nothing.                                             *)
Toolbar(p) ==
    /\ p.y < ListTop
    /\ status' = CASE p.x \in 100 .. 179 -> Upgraded
                   [] p.x \in 190 .. 269 -> Installed
                   [] p.x \in 280 .. 359 -> Removed
                   [] OTHER -> status
    /\ UNCHANGED <<selected_package, scroll_position, show_details>>

RowAt(p) == (p.y - ListTop) \div ItemHeight + scroll_position

(* The list's last half row is not drawn and can be clicked.  The details'  *)
(* own button lies over the list and selects the row below it.              *)
List(p) ==
    /\ p.y \in ListTop .. (ListTop + ListHeight - 1)
    /\ RowAt(p) < package_count
    /\ selected_package' = RowAt(p)
    /\ show_details' = TRUE
    /\ UNCHANGED <<status, scroll_position>>

Next == \E p \in Points : Toolbar(p) \/ List(p)

Spec == Init /\ [][Next]_pmVars
=============================================================================
