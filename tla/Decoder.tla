------------------------------- MODULE Decoder -------------------------------
(***************************************************************************)
(* The command decoder of the virtual machine (src/src/vm/decoder.c):      *)
(* vmEval_CMD runs one block of commands over the system and the general   *)
(* registers until a command links away or the block ends.                 *)
(*                                                                         *)
(* A command is the record of the fields vm_getbits cuts out of its eight  *)
(* bytes.  Registers are words, numbers modulo Words (2^16 in the code).   *)
(* A general register in counter mode shows the seconds since its start.   *)
(* The clock counts whole seconds and stands still during a command.       *)
(***************************************************************************)
EXTENDS Integers, Sequences

CONSTANTS
  Words,                         \* number of values of a uint16_t
  And(_, _), Or(_, _), Xor(_, _),\* the operators &, | and ^ of C on words
  Blocks,                        \* the command blocks a call may be given
  Registers,                     \* the register contents a call may find
  MaxTotal,                      \* the bound on executed commands, 100000
  MaxClock                       \* bound: seconds that may pass during a call

Word == 0..Words - 1
GPRMs == 0..15
SPRMs == 0..23

(* registers_t; start is the second from which a counter counts. *)
RegisterSet ==
  [sprm : [SPRMs -> Word], gprm : [GPRMs -> Word],
   counts : [GPRMs -> BOOLEAN], start : [GPRMs -> Int]]

(* link_t, with the numbers of link_cmd_t. *)
LinkTypes == [cmd : 0..32, d : [1..3 -> Word]]
NoData == [i \in 1..3 |-> 0]
NoLink == [cmd |-> 0, d |-> NoData]

(* A register operand of 24 and more lies behind the system registers.     *)
Operand == [kind : {"imm"}, n : Word] \cup [kind : {"gprm"}, n : GPRMs]
             \cup [kind : {"sprm"}, n : 0..31]

(* The fields of a command: its type, its comparison (none = 0) and the    *)
(* operands of it, the set operation with target, other register of a swap *)
(* and data, the values for SPRM 1 to 3, the link or special operation and *)
(* its sub-operation, whether the link is a jump, the data of the link or  *)
(* line and level, and whether a mode command asks for a counter.          *)
Command ==
  [type : 0..6, cmp : 0..7, left : Operand, right : Operand,
   set : 0..15, dst : GPRMs, reg2 : GPRMs, src : Operand,
   streams : [1..3 -> Operand \cup {[kind |-> "none", n |-> 0]}],
   op : 0..15, sub : 0..31, jump : BOOLEAN, d : [1..3 -> Word],
   line : 0..255, counter : BOOLEAN]

ASSUME WordsAssumption == Words \in Nat \ {0}
ASSUME BitsAssumption ==
  \A a, b \in Word : And(a, b) \in Word /\ Or(a, b) \in Word /\ Xor(a, b) \in Word
ASSUME BlocksAssumption == Blocks \subseteq Seq(Command)
ASSUME RegistersAssumption == Registers \subseteq RegisterSet
ASSUME BoundsAssumption == MaxTotal \in Nat /\ MaxClock \in Nat

VARIABLES
  block,     \* commands, the block being run
  regs,      \* the registers, shared with the machine
  i,         \* index of the next command, from 0
  total,     \* commands executed
  link,      \* return_values
  result,    \* "running", then "link" (returned 1) or "none" (returned 0)
  clock      \* seconds

vars == <<block, regs, i, total, link, result, clock>>

-----------------------------------------------------------------------------
(* Registers and operands *)

(* get_GPRM; what a counter shows is also written to the register. *)
Value(r, k) == IF r.counts[k] THEN (clock - r.start[k]) % Words ELSE r.gprm[k]
WriteBack(r, K) ==
  [r EXCEPT !.gprm = [k \in GPRMs |-> IF k \in K THEN Value(r, k) ELSE @[k]]]

(* set_GPRM *)
SetGprm(r, k, v) ==
  [r EXCEPT !.gprm[k] = v % Words,
            !.start[k] = IF r.counts[k] THEN clock - (v % Words) ELSE @]

(* eval_reg and eval_reg_or_data.  Behind the last system register the     *)
(* general registers are read, whatever their mode.                        *)
Eval(r, o) ==
  CASE o.kind = "imm"                -> o.n
    [] o.kind = "gprm"               -> Value(r, o.n)
    [] o.kind = "sprm" /\ o.n < 24   -> r.sprm[o.n]
    [] o.kind = "sprm" /\ o.n >= 24  -> r.gprm[o.n - 24]
Reads(o) == IF o.kind = "gprm" THEN {o.n} ELSE {}

(* eval_compare *)
Compare(op, a, b) ==
  CASE op = 1 -> And(a, b) # 0
    [] op = 2 -> a = b
    [] op = 3 -> a # b
    [] op = 4 -> a >= b
    [] op = 5 -> a > b
    [] op = 6 -> a <= b
    [] op = 7 -> a < b

(* eval_if_version_1 to 4: they differ in where the operands lie.  One     *)
(* behind the last system register is taken to be read last.               *)
Holds(r, c) == c.cmp = 0 \/ Compare(c.cmp, Eval(r, c.left), Eval(r, c.right))
Compared(r, c) ==
  IF c.cmp = 0 THEN r ELSE WriteBack(r, Reads(c.left) \cup Reads(c.right))

-----------------------------------------------------------------------------
(* Set operations *)

(* Mutant: sums and products wrap. *)
AtMostWraps(n) == n % Words

(* A word, or the largest one. *)
AtMost(n) == IF n >= Words THEN Words - 1 ELSE n

(* Products are computed in an int32_t: those it cannot hold are undefined *)
(* and, as compiled, negative before they are cut to a word, or large.     *)
Overflows(n) == n >= (Words * Words) \div 2
Product(n) == IF Overflows(n) THEN {n % Words, Words - 1} ELSE {AtMost(n)}

(* eval_set_op: the values an operation may leave in its register.  The    *)
(* product for a random number is rounded to a float, up to data itself.   *)
SetValues(op, a, data) ==
  CASE op \in {1, 2} -> {data}
    [] op = 3  -> {AtMost(a + data)}
    [] op = 4  -> {IF a < data THEN 0 ELSE a - data}
    [] op = 5  -> Product(a * data)
    [] op = 6  -> {IF data # 0 THEN a \div data ELSE Words - 1}
    [] op = 7  -> {IF data # 0 THEN a % data ELSE Words - 1}
    [] op = 8  -> {(1 + n) % Words : n \in 0..data}
    [] op = 9  -> {And(a, data)}
    [] op = 10 -> {Or(a, data)}
    [] op = 11 -> {Xor(a, data)}
    [] OTHER   -> {}

SetOp(r, c, v) ==
  IF c.set = 2 THEN SetGprm(SetGprm(r, c.reg2, Value(r, c.dst)), c.dst, v)
  ELSE SetGprm(r, c.dst, v)

(* eval_set_version_1 and 2: the data is read whether or not it is used. *)
SetResults(r, c, cond) ==
  LET w == WriteBack(r, Reads(c.src))
      values == SetValues(c.set, Value(w, c.dst), Eval(w, c.src))
  IN  IF ~cond \/ values = {} THEN {w} ELSE {SetOp(w, c, v) : v \in values}

(* eval_system_set.  The mode of a register changes whatever the           *)
(* comparison says.                                                        *)
Given(c) == {n \in 1..3 : c.streams[n].kind # "none"}
SystemReads(c) ==
  CASE c.set = 1           -> UNION {Reads(c.streams[n]) : n \in Given(c)}
    [] c.set \in {2, 3, 6} -> Reads(c.src)
    [] OTHER               -> {}
(* Mutant: the comparison is not looked at. *)
SetSprmsAlways(r, values, cond) ==
  [r EXCEPT !.sprm = [n \in SPRMs |-> IF n \in DOMAIN values THEN values[n] ELSE @[n]]]

SetSprms(r, values, cond) ==
  IF cond THEN [r EXCEPT !.sprm = [n \in SPRMs |->
                                     IF n \in DOMAIN values THEN values[n] ELSE @[n]]]
  ELSE r
SetMode(r, c, data, cond) ==
  LET w == [r EXCEPT !.counts[c.dst] = c.counter]
  IN  IF cond THEN SetGprm(w, c.dst, data) ELSE w
SystemSet(r, c, cond) ==
  LET w == WriteBack(r, SystemReads(c))
      data == Eval(w, c.src)
  IN  CASE c.set = 1 -> SetSprms(w, [n \in Given(c) |-> Eval(w, c.streams[n])], cond)
        [] c.set = 2 -> SetSprms(w, [n \in {9, 10} |-> IF n = 9 THEN data ELSE c.d[1]], cond)
        [] c.set = 3 -> SetMode(w, c, data, cond)
        [] c.set = 6 -> SetSprms(w, [n \in {8} |-> data], cond)
        [] OTHER     -> w

(* eval_special_instruction: the row to go to, 0 for the next one, and the *)
(* temporary parental level.                                               *)
Break == 256
Row(c, cond) ==
  CASE cond /\ c.op \in {1, 3} -> c.line
    [] cond /\ c.op = 2        -> Break
    [] OTHER                   -> 0
SetLevel(r, c, cond) == IF cond /\ c.op = 3 THEN [r EXCEPT !.sprm[13] = c.d[1]] ELSE r

-----------------------------------------------------------------------------
(* Links *)

(* eval_link_subins, eval_link_instruction and eval_jump_instruction: the  *)
(* link a command asks for, none for an unknown code.  Link by             *)
(* sub-instruction takes its number as the link, 0 with a button included. *)
None == [cmd |-> -1, d |-> NoData]
LinkTo(cmd, c, n) == [cmd |-> cmd, d |-> [j \in 1..3 |-> IF j <= n THEN c.d[j] ELSE 0]]
(* Mutant: any number is taken for a link. *)
LinkSubinsAny(c) == LinkTo(c.sub, c, 1)

LinkSubins(c) == IF c.sub > 16 THEN None ELSE LinkTo(c.sub, c, 1)
LinkInstruction(c) ==
  CASE c.op = 1 -> LinkSubins(c)
    [] c.op = 4 -> LinkTo(17, c, 1)              \* LinkPGCN
    [] c.op \in 5..7 -> LinkTo(13 + c.op, c, 2)  \* LinkPTTN, LinkPGN, LinkCN
    [] OTHER    -> None
JumpInstruction(c) ==
  CASE c.op = 1 -> LinkTo(21, c, 0)              \* Exit
    [] c.op = 2 -> LinkTo(22, c, 1)              \* JumpTT
    [] c.op = 3 -> LinkTo(23, c, 1)              \* JumpVTS_TT
    [] c.op = 5 -> LinkTo(24, c, 2)              \* JumpVTS_PTT
    [] c.op = 6 /\ c.sub \in 0..3 ->             \* JumpSS_FP, _VMGM_MENU, _VTSM, _VMGM_PGC
         LinkTo(25 + c.sub, c, <<0, 1, 3, 1>>[c.sub + 1])
    [] c.op = 8 /\ c.sub \in 0..3 ->             \* CallSS_FP, _VMGM_MENU, _VTSM, _VMGM_PGC
         LinkTo(29 + c.sub, c, <<1, 2, 2, 2>>[c.sub + 1])
    [] OTHER -> None

-----------------------------------------------------------------------------
(* eval_command: whether the comparison holds, which commands 0 to 3, 5    *)
(* and 6 make before and 4 after the set operation; what may become of the *)
(* registers; and the link, none when the command does not link away.      *)
AfterSet(r, c) == IF c.type = 4 THEN SetResults(r, c, TRUE) ELSE {Compared(r, c)}
Executed(w, c) ==
  LET cond == Holds(w, c)
  IN  CASE c.type = 0         -> {SetLevel(w, c, cond)}
        [] c.type = 1         -> {w}
        [] c.type = 2         -> {SystemSet(w, c, cond)}
        [] c.type \in {3, 5, 6} -> SetResults(w, c, cond)
        [] c.type = 4         -> {Compared(w, c)}
LinkOf(w, c) ==
  IF c.type = 0 \/ (~Holds(w, c) /\ c.type # 6) THEN None
  ELSE CASE c.type = 1 /\ c.jump -> JumpInstruction(c)
         [] c.type \in 4..6      -> LinkSubins(c)
         [] OTHER                -> LinkInstruction(c)

(* vmEval_CMD *)
(* Mutant: nothing bounds the loop. *)
MoreUnbounded == i < Len(block)

More == i < Len(block) /\ total < MaxTotal
Current == block[i + 1]

Leave(to) == link' = to /\ result' = "link" /\ UNCHANGED <<i, total>>

(* Mutant: commands that go to a row are not counted. *)
GoOnUncounted(row) ==
  /\ i' = IF row > 0 THEN row - 1 ELSE i + 1
  /\ total' = IF row > 0 THEN total ELSE total + 1
  /\ UNCHANGED <<link, result>>

GoOn(row) ==
  /\ i' = IF row > 0 THEN row - 1 ELSE i + 1
  /\ total' = total + 1
  /\ UNCHANGED <<link, result>>

Step ==
  /\ result = "running" /\ More
  /\ \E w \in AfterSet(regs, Current) : \E r \in Executed(w, Current) :
       LET to  == LinkOf(w, Current)
           row == IF Current.type = 0 THEN Row(Current, Holds(w, Current)) ELSE 0
       IN  /\ regs' = r
           /\ IF to # None THEN Leave(to) ELSE GoOn(row)
  /\ UNCHANGED <<block, clock>>

Finish ==
  /\ result = "running" /\ ~More
  /\ link' = NoLink /\ result' = "none"
  /\ UNCHANGED <<block, regs, i, total, clock>>

Tick ==
  /\ result = "running" /\ clock < MaxClock
  /\ clock' = clock + 1
  /\ UNCHANGED <<block, regs, i, total, link, result>>

Init ==
  /\ block \in Blocks /\ regs \in Registers
  /\ i = 0 /\ total = 0
  /\ link = NoLink /\ result = "running"
  /\ clock = 0

Next == Step \/ Finish \/ Tick

Spec == Init /\ [][Next]_vars /\ WF_vars(Step \/ Finish)

-----------------------------------------------------------------------------
(* Properties *)

TypeOK ==
  /\ block \in Seq(Command) /\ regs \in RegisterSet
  /\ i \in Nat /\ total \in 0..MaxTotal
  /\ link \in LinkTypes /\ result \in {"running", "link", "none"}
  /\ clock \in 0..MaxClock

(* The links process_command has a case for. *)
Followed == {0, 1, 2, 3, 5, 6, 7, 9, 10, 11, 12, 13, 16} \cup 17..32
IsSubins(c) == c.type \in 4..6 \/ (c.op = 1 /\ ~(c.type = 1 /\ c.jump))

(* The numbers of the sub-instructions are taken over as link_cmd_t, so a  *)
(* sub-instruction never becomes another kind of link; but the numbers 4,  *)
(* 8, 14 and 15, which no link has, pass the test for unknown ones and     *)
(* leave process_command with a link its loop never gets rid of.  Nothing  *)
(* else yields such a link.                                                *)
LinksFollowed ==
  result = "link" =>
    \/ /\ link.cmd \in Followed
       /\ (IsSubins(Current) => link.cmd <= 16)
    \/ /\ IsSubins(Current)
       /\ Current.sub \in {4, 8, 14, 15}

(* What the registers show, and the steps that run a command. *)
Shown == [sprm |-> regs.sprm, gprm |-> [k \in GPRMs |-> Value(regs, k)]]
Runs == result = "running" /\ More /\ clock' = clock

(* An operand behind the last system register is none of the registers:    *)
(* what it shows depends on which counters the same command reads before   *)
(* it, its own comparison included, so it is left out.                     *)
Named(o) == o.kind = "sprm" => o.n \in SPRMs
Comparable(c) == Named(c.left) /\ Named(c.right)

(* A command whose comparison fails changes no register a later command    *)
(* could tell and does not link, but for the sub-instruction of type 6.    *)
(* Reading counters, which stores what they show, goes unnoticed.  The     *)
(* exception: a mode command switches its register all the same, which     *)
(* then shows the time since an old start or the value it had last shown.  *)
Switches(c, k) == c.type = 2 /\ c.set = 3 /\ c.dst = k
SkipsChangeNothing ==
  [][Runs /\ Current.type # 4 /\ Comparable(Current) /\ ~Holds(regs, Current) =>
       /\ Shown'.sprm = Shown.sprm
       /\ \A k \in GPRMs : Shown'.gprm[k] = Shown.gprm[k] \/ Switches(Current, k)
       /\ result' = "link" => Current.type = 6]_vars

(* What a set operation that runs leaves: sums and products stick at the   *)
(* largest word and never wrap, but for a product of half the square of    *)
(* Words or more, which may; differences stick at zero, a quotient or      *)
(* remainder is no larger than the register was, by zero it is the largest *)
(* word, a swap with a general register exchanges what the two show, of    *)
(* counters too, and no other register changes.  A random number lies      *)
(* between 1 and the data, but for the rounding of the product to data     *)
(* itself, and for data 0, for which it is 1.                              *)
SetsRun ==
  Current.type = 4 \/ (Current.type \in {3, 5, 6} /\ Comparable(Current) /\ Holds(regs, Current))
SetsInRange ==
  [][Runs /\ SetsRun /\ Named(Current.src) =>
       LET c    == Current
           data == Eval(regs, c.src)
           old  == Shown.gprm[c.dst]
           new  == Shown'.gprm[c.dst]
           swaps == c.set = 2 /\ c.src.kind = "gprm" /\ c.reg2 = c.src.n
       IN  /\ c.set = 3 => new >= old /\ new >= data
           /\ c.set = 4 => new <= old /\ (new = 0 \/ new + data = old)
           /\ c.set = 5 => \/ (data > 0 => new >= old) /\ (data = 0 => new = 0)
                           \/ Overflows(old * data)
           /\ c.set \in {6, 7} /\ data > 0 => new <= old
           /\ c.set \in {6, 7} /\ data = 0 => new = Words - 1
           /\ c.set = 8 => new \in 1..data + 1 \/ (data = Words - 1 /\ new = 0)
           /\ swaps => new = Shown.gprm[c.reg2] /\ Shown'.gprm[c.reg2] = old
           /\ \A k \in GPRMs : \/ k = c.dst \/ (c.set = 2 /\ k = c.reg2)
                               \/ Shown'.gprm[k] = Shown.gprm[k]
           /\ Shown'.sprm = Shown.sprm]_vars

(* Every block ends, those that go to an earlier row for ever too. *)
BlockEnds == <>(result # "running")

=============================================================================
