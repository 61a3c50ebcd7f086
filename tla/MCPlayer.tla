------------------------------ MODULE MCPlayer ------------------------------
(* Small discs for Player. *)
EXTENDS Player

Cell(vts, domain, cellN, start, vobus, still, menu, angles) ==
  [vts |-> vts, domain |-> domain, cellN |-> cellN, start |-> start, vobus |-> vobus,
   still |-> still, menu |-> menu, angles |-> angles]

(* A menu with a still and two cells of a title, the first of two VOBUs. *)
SmallCells == {"menu", "a", "b"}
SmallDisc == [c \in SmallCells |->
  CASE c = "menu" -> Cell(0, "vmgm",  1, 0, 1, TRUE,  "buttons", FALSE)
    [] c = "a"    -> Cell(1, "title", 1, 0, 2, FALSE, "no",      FALSE)
    [] c = "b"    -> Cell(1, "title", 2, 4, 1, TRUE,  "no",      FALSE)]

(* A menu and a title cell of two VOBUs with angles. *)
TinyCells == {"menu", "a"}
TinyDisc == [c \in TinyCells |->
  CASE c = "menu" -> Cell(1, "vtsm",  1, 0, 1, FALSE, "plain", FALSE)
    [] c = "a"    -> Cell(1, "title", 1, 0, 2, TRUE,  "no",    TRUE)]

(* Two title sets of a cell each, the second with angles. *)
TwoSetsCells == {"a", "b"}
TwoSetsDisc == [c \in TwoSetsCells |->
  CASE c = "a" -> Cell(1, "title", 1, 0, 2, FALSE, "no", FALSE)
    [] c = "b" -> Cell(2, "title", 1, 0, 1, FALSE, "no", TRUE)]
=============================================================================
