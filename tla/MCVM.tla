-------------------------------- MODULE MCVM --------------------------------
(* Discs for TLC. *)
EXTENDS VMInv

None == {NoJump}
Cell(block, commands) == [block |-> block, cmd |-> commands]
Plain1 == Cell("normal", None)

\* A menu of one cell with buttons.
MenuPgc(id, end, buttons) ==
  [map |-> <<1>>, cells |-> <<Cell("normal", {Due("LinkTopC")} \cup end)>>, prev |-> 0, next |-> 0, goup |-> 0,
   id |-> id, pre |-> None, post |-> None, buttons |-> buttons]

FirstPlay == [map |-> <<>>, cells |-> <<>>, prev |-> 0, next |-> 0, goup |-> 0, id |-> 0,
              pre |-> {Link("JumpSS_VMGM_MENU", Title, 0, 0), Link("JumpTT", 1, 0, 0),
                      Link("JumpSS_VTSM", 1, 1, Root)},
              post |-> None, buttons |-> None]

Vmgm == <<
  MenuPgc(Title, {},
    {Link("JumpTT", 2, 0, 0), Link("JumpTT", 3, 0, 0), Link("JumpSS_VTSM", 1, 2, Root),
     Link("JumpSS_VMGM_PGC", 2, 0, 0), Link("LinkNoLink", 2, 0, 0), Due("LinkRSM")}),
  [MenuPgc(0, {NoJump}, {Link("LinkPGCN", 1, 0, 0), Due("JumpSS_FP"), Due("Exit")}) EXCEPT !.goup = 1] >>

Vtsm1 == <<
  MenuPgc(Root, {Due("LinkRSM")},
    {Link("JumpVTS_TT", 2, 0, 0), Link("JumpVTS_PTT", 1, 2, 0), Due("LinkRSM"),
     Link("JumpSS_VMGM_MENU", Title, 0, 0), Link("JumpSS_VTSM", 0, 1, Root),
     Link("LinkTopPGC", 2, 0, 0)}) >>

\* A chain with an angle block at its end, one behind it, and one without cells.
Title1 == <<
  [map |-> <<1, 2, 3>>,
   cells |-> <<Cell("normal", {NoJump, Link("CallSS_VTSM", Root, 0, 0), Due("LinkNextPG")}),
               Cell("normal", {NoJump, Due("LinkPrevC"), Due("LinkPrevPG")}),
               Cell("first", {NoJump, Link("LinkCN", 1, 0, 0)}),
               Cell("in", None)>>,
   prev |-> 0, next |-> 2, goup |-> 0, id |-> 1,
   pre |-> None,
   post |-> {NoJump, Link("CallSS_VMGM_MENU", Title, 2, 0), Due("LinkNextPGC")},
   buttons |-> {Due("LinkTailPGC"), Link("LinkPTTN", 2, 0, 0), Due("LinkTopPG"), Due("LinkTopC")}],
  [map |-> <<1>>,
   cells |-> <<Plain1>>,
   prev |-> 1, next |-> 0, goup |-> 1, id |-> 1,
   pre |-> {NoJump, Link("CallSS_VMGM_PGC", 2, 0, 0)},
   post |-> {NoJump, Due("LinkPrevPGC"), Due("LinkGoUpPGC")},
   buttons |-> {Due("LinkNextC"), Link("LinkPGN", 1, 2, 0), Link("CallSS_FP", 1, 0, 0)}],
  [map |-> <<>>, cells |-> <<>>, prev |-> 0, next |-> 0, goup |-> 0, id |-> 2,
   pre |-> {NoJump, Link("CallSS_VMGM_MENU", Title, 0, 0)},
   post |-> {NoJump, Link("JumpVTS_TT", 1, 0, 0)}, buttons |-> None] >>

\* VTS 2 has no menus.
Title2 == <<
  [map |-> <<1>>, cells |-> <<Cell("normal", {Link("CallSS_VTSM", Root, 0, 0), NoJump})>>,
   prev |-> 0, next |-> 0, goup |-> 0, id |-> 1,
   pre |-> {NoJump, Link("CallSS_VMGM_MENU", Title, 0, 0)}, post |-> None, buttons |-> None] >>

Disc == [t \in {FP, <<"vmgm", 0>>, <<"vtsm", 1>>, <<"title", 1>>, <<"title", 2>>} |->
           CASE t = FP -> <<FirstPlay>>
             [] t = <<"vmgm", 0>> -> Vmgm
             [] t = <<"vtsm", 1>> -> Vtsm1
             [] t = <<"title", 1>> -> Title1
             [] t = <<"title", 2>> -> Title2]

DiscTitles == << [vts |-> 1, ttn |-> 1], [vts |-> 1, ttn |-> 2], [vts |-> 2, ttn |-> 1] >>
At1(pgcn, pgn) == [pgcn |-> pgcn, pgn |-> pgn]
DiscPtts == << << <<At1(1, 1), At1(1, 2), At1(2, 1)>>, <<At1(3, 1)>> >>, << <<At1(1, 1)>> >> >>
DiscPrograms == {<<1, 1, 3>>, <<3, 1, 1>>}
=============================================================================
