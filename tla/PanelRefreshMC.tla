--------------------------- MODULE PanelRefreshMC ---------------------------
(* Instances of PanelRefresh for TLC.                                       *)
EXTENDS PanelRefresh, TLC

Both == {"ssd1677", "uc8253"}
Same == Permutations(Views) \union Permutations(Pages)
=============================================================================
