----------------------------- MODULE BookCacheMC -----------------------------
(* An instance of BookCache for TLC: a book of two chapters whose first     *)
(* takes two sections, or three at the larger size, when the index has no   *)
(* room for the second; and a book of one section. The two spacings of the  *)
(* smaller size cut the first chapter at different lines.                   *)
EXTENDS BookCache

CONSTANTS novel, note
BothBooks == {novel, note}
LinesOf == [b \in BothBooks |-> IF b = novel THEN << <<4, 1>>, <<7, 1>> >> ELSE << <<1>>, <<1>> >>]
ThreeLayouts ==
  {[size |-> 1, spacing |-> 1], [size |-> 1, spacing |-> 2], [size |-> 2, spacing |-> 1]}
RowsOf == [L \in ThreeLayouts |-> IF L = [size |-> 1, spacing |-> 1] THEN 1 ELSE 2]
=============================================================================
