------------------------------ MODULE MCDecoder ------------------------------
(* Blocks and registers on which TLC runs the command decoder: every kind   *)
(* of command alone, and every block of three out of a few, over words of   *)
(* three bits.                                                              *)
EXTENDS Decoder, TLC
Bits == INSTANCE Bitwise

MCWords == 8
MCAnd(a, b) == Bits!&(a, b)
MCOr(a, b)  == Bits!|(a, b)
MCXor(a, b) == Bits!^^(a, b)

Imm(n)  == [kind |-> "imm", n |-> n]
Gprm(n) == [kind |-> "gprm", n |-> n]
Sprm(n) == [kind |-> "sprm", n |-> n]
NoValue == [kind |-> "none", n |-> 0]

Nop == [type |-> 0, cmp |-> 0, left |-> Imm(0), right |-> Imm(0), set |-> 0, dst |-> 0,
        reg2 |-> 0, src |-> Imm(0), streams |-> [n \in 1..3 |-> NoValue], op |-> 0,
        sub |-> 0, jump |-> FALSE, d |-> [n \in 1..3 |-> n], line |-> 0, counter |-> FALSE]
If(c, op, l, r) == [c EXCEPT !.cmp = op, !.left = l, !.right = r]

Special(op, line) == [Nop EXCEPT !.op = op, !.line = line]
Linking(op, sub)  == [Nop EXCEPT !.type = 1, !.op = op, !.sub = sub]
Jumping(op, sub)  == [Linking(op, sub) EXCEPT !.jump = TRUE]
Streams(n, o)     == [Nop EXCEPT !.type = 2, !.set = 1, !.streams[n] = o]
System(set, o)    == [Nop EXCEPT !.type = 2, !.set = set, !.src = o]
Mode(k, counter, o) == [System(3, o) EXCEPT !.dst = k, !.counter = counter]
Set(type, set, k, o) ==
  [Nop EXCEPT !.type = type, !.set = set, !.dst = k, !.src = o,
              !.reg2 = IF o.kind = "gprm" THEN o.n ELSE 0, !.sub = 6]

Subs == {0, 4, 6, 8, 13, 14, 15, 16, 17}
Specials == {Special(op, line) : op \in 0..4, line \in {0, 1, 2}}
Links == {Linking(1, sub) : sub \in Subs} \cup {Linking(op, 0) : op \in {0, 2, 4, 5, 6, 7}}
           \cup {Jumping(op, 0) : op \in {1, 2, 3, 4, 5}}
           \cup {Jumping(op, sub) : op \in {6, 8}, sub \in 0..3}
Systems == {Streams(n, o) : n \in 1..3, o \in {Imm(5), Gprm(0)}}
             \cup {System(set, o) : set \in {2, 6, 7}, o \in {Imm(5), Gprm(0)}}
             \cup {Mode(0, counter, o) : counter \in BOOLEAN, o \in {Imm(5), Gprm(0), Gprm(1)}}
             \cup {[System(6, Gprm(1)) EXCEPT !.op = 7]}
Sets == {Set(type, set, 0, o) : type \in 3..6, set \in 0..12,
                                o \in {Imm(0), Imm(1), Imm(3), Imm(7), Gprm(0), Gprm(1), Sprm(24)}}

Tests == {<<2, Gprm(0), Imm(3)>>, <<4, Gprm(0), Gprm(1)>>, <<7, Gprm(1), Sprm(13)>>,
          <<1, Gprm(0), Imm(2)>>, <<3, Sprm(13), Gprm(0)>>, <<5, Gprm(1), Imm(0)>>, <<6, Gprm(0), Imm(1)>>}
Conditional(C) == C \cup {If(c, t[1], t[2], t[3]) : c \in C, t \in Tests}

Few == {Special(0, 0), If(Special(1, 1), 4, Gprm(0), Gprm(1)), Special(1, 3), Special(2, 0),
        If(Mode(0, TRUE, Imm(2)), 5, Gprm(1), Imm(0)), Mode(0, FALSE, Gprm(0)),
        Set(3, 3, 0, Imm(1)), Set(3, 2, 0, Gprm(1)), If(Set(4, 7, 1, Gprm(0)), 2, Gprm(1), Imm(0)),
        If(Linking(1, 4), 7, Gprm(0), Imm(2))}

MCBlocks == {<<>>} \cup {<<c>> : c \in Conditional(Specials \cup Links \cup Systems \cup Sets)}
              \cup {<<a, b, c>> : a, b, c \in Few}

Content(a, b, ca, cb) ==
  [sprm |-> [n \in SPRMs |-> IF n = 13 THEN 2 ELSE 0],
   gprm |-> (0 :> a) @@ (1 :> b) @@ [n \in GPRMs |-> 0],
   counts |-> (0 :> ca) @@ (1 :> cb) @@ [n \in GPRMs |-> FALSE],
   start |-> (0 :> 0 - a) @@ (1 :> 0 - b) @@ [n \in GPRMs |-> 0]]
MCRegisters == {Content(3, 0, FALSE, FALSE), Content(0, 7, FALSE, TRUE),
                Content(7, 2, TRUE, FALSE), Content(1, 1, TRUE, TRUE)}
=============================================================================
