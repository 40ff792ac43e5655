--------------------------- MODULE MCBrowserClient ---------------------------
(* Pages and slots are model values; pages of one kind are alike.           *)
EXTENDS BrowserClient, TLC

Symmetry ==
  Permutations(Careful) \cup Permutations(Pages \ Careful) \cup Permutations(Slots)
=============================================================================
