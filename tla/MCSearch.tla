------------------------------- MODULE MCSearch -------------------------------
(* A title of two programs with VOBUs of one to three blocks, one with an   *)
(* angle block of two interleaved cells in the middle, and one whose angle  *)
(* block ends the chain; titles for the chapter times.                      *)
EXTENDS Search

PlainCell(f, l, t) == [first |-> f, last |-> l, time |-> t, block |-> "none"]
AngleOne(f, l, t) == [PlainCell(f, l, t) EXCEPT !.block = "first"]
OtherAngle(f, l, t) == [PlainCell(f, l, t) EXCEPT !.block = "in"]
V(s, c, t) == [start |-> s, cell |-> c, time |-> t]

Plain ==
  [cells |-> <<PlainCell(0, 4, 5), PlainCell(5, 6, 4), PlainCell(7, 10, 3)>>, map |-> <<1, 3>>,
   vobus |-> <<V(0, 1, 0), V(3, 1, 3), V(5, 2, 0), V(6, 2, 2), V(7, 3, 0), V(9, 3, 1)>>,
   angles |-> 1]
Middle ==
  [cells |-> <<PlainCell(0, 1, 2), AngleOne(2, 6, 4), OtherAngle(4, 7, 4), PlainCell(8, 8, 2)>>,
   map |-> <<1, 2, 4>>,
   vobus |-> <<V(0, 1, 0), V(2, 2, 0), V(4, 3, 0), V(6, 2, 2), V(7, 3, 2), V(8, 4, 0)>>,
   angles |-> 2]
Final ==
  [cells |-> <<PlainCell(0, 0, 0), AngleOne(1, 4, 3), OtherAngle(2, 5, 3)>>, map |-> <<1>>,
   vobus |-> <<V(0, 1, 0), V(1, 2, 0), V(2, 3, 0), V(4, 2, 1), V(5, 3, 1)>>,
   angles |-> 2]
MCChains == {Plain, Middle, Final}

Hollow == [cells |-> <<>>, map |-> <<>>, vobus |-> <<>>, angles |-> 1]
Inside == [Final EXCEPT !.map = <<1, 3>>]   \* a program begins in the angle block
Part(c, n) == [pgc |-> c, pgn |-> n]
MCTitles == {<<Part(Plain, 1), Part(Plain, 2)>>, <<Part(Plain, 1)>>,
             <<Part(Middle, 1), Part(Middle, 3), Part(Plain, 1)>>,
             <<Part(NoChain, 1), Part(Final, 1), Part(Hollow, 1)>>,
             <<Part(Middle, 1), Part(Middle, 2), Part(Middle, 4)>>,
             <<Part(Middle, 3), Part(Middle, 1)>>,
             <<Part(Final, 1), Part(Inside, 2), Part(Plain, 1)>>}

MCOffsets == {-3, 0, 1, 8}

(* The suppositions of the theorems about searches hold of this title.      *)
ASSUME SearchesFit == OffsetsFit /\ EvenTimes
===============================================================================
