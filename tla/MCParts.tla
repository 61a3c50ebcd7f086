------------------------------- MODULE MCParts -------------------------------
(* Three components that share no state, one of them in each behaviour: a   *)
(* map of two programs with ranges that overlap in all ways, two screens of *)
(* buttons, chains of a menu and of titles with and without streams.        *)
EXTENDS Remap, Buttons, Streams

VARIABLE part

ProgramA == <<2, 1, 1>>
ProgramB == <<2, 1, 2>>
MCPlaces == {ProgramA, ProgramB}
Listed(p, a, b) == [place |-> p, start |-> a, end |-> b]
MCLines == {Listed(ProgramA, 3, 4), Listed(ProgramA, 5, 6), Listed(ProgramA, 1, 6),
            Listed(ProgramA, 6, 8), Listed(ProgramA, 7, 2),
            Listed(ProgramB, 2, 3), Listed(ProgramB, 3, 5)}

(* Two buttons that overlap, the second with an automatic action; a button  *)
(* whose neighbours do not exist, and which jumps.                          *)
Button(u, d, l, r, auto, cmd, x, y) ==
  [up |-> u, down |-> d, left |-> l, right |-> r, auto |-> auto, cmd |-> cmd, x |-> x, y |-> y]
Stay == [jump |-> FALSE, hl |-> -1]
Go(n) == [jump |-> TRUE, hl |-> n]
Main == [lbn |-> 0, buttons |-> <<Button(2, 2, 0, 3, FALSE, Go(-1), <<0, 4>>, <<0, 2>>),
                                  Button(1, 1, 2, 2, TRUE, [Stay EXCEPT !.hl = 40], <<3, 7>>, <<0, 2>>)>>]
Sub == [lbn |-> 5, buttons |-> <<Button(0, 9, 1, 0, TRUE, Go(2), <<1, 5>>, <<1, 3>>)>>]
MCScreens == {Main, Sub}
MCStrays == {Button(2, 0, 1, 40, TRUE, Go(-1), <<0, 0>>, <<0, 0>>),
             Button(40, 1, 0, 0, FALSE, Stay, <<0, 0>>, <<0, 0>>)}
MCLinks == {0, 1, 2, 40}
MCPoints == {0, 3, 4, 6, 8} \X {1, 3}

(* Control words of the streams.                                            *)
Subp(full, wide, letterbox, pan) ==
  [full |-> full, wide |-> wide, letterbox |-> letterbox, pan_scan |-> pan]
Streams1 == [n \in {1, 2} |-> IF n = 1 THEN 3 ELSE 0]
Subps1 == [n \in {1} |-> Subp(0, 4, 5, 31)]
MCChains == {[title |-> TRUE, aspect |-> 3, audio |-> Streams1, subp |-> Subps1],
             [title |-> TRUE, aspect |-> 0, audio |-> [n \in {0} |-> 1], subp |-> Subps1],
             [title |-> TRUE, aspect |-> 0, audio |-> <<>>, subp |-> <<>>],
             [title |-> FALSE, aspect |-> 3, audio |-> Streams1, subp |-> [n \in {0} |-> Subp(2, 1, 0, 3)]],
             [title |-> FALSE, aspect |-> 0, audio |-> <<>>, subp |-> Subps1]}
MCSubpRegs == [n : {0, 1, 62}, show : BOOLEAN]

Init ==
  /\ part \in {"remap", "buttons", "streams"}
  /\ RemapInit /\ ButtonsInit /\ StreamsInit
  /\ part # "buttons" => screen = Main
  /\ part # "streams" => ast = 15 /\ spst = [n |-> 62, show |-> FALSE] /\ ~chain.title /\ chain.aspect = 3
Next ==
  /\ UNCHANGED part
  /\ \/ part = "remap" /\ RemapNext /\ UNCHANGED <<buttonVars, streamVars>>
     \/ part = "buttons" /\ ButtonsNext /\ UNCHANGED <<remapVars, streamVars>>
     \/ part = "streams" /\ StreamsNext /\ UNCHANGED <<remapVars, buttonVars>>
Spec == Init /\ [][Next]_<<part, remapVars, buttonVars, streamVars>>
==============================================================================
