---------------------------- MODULE DecoderProofs ----------------------------
(* What holds of the command decoder for every block of commands, every     *)
(* content of the registers and every width of a word.                      *)
EXTENDS Decoder, TLAPS

-----------------------------------------------------------------------------
(* Words and operands *)

LEMMA WordFacts ==
  /\ 0 \in Word
  /\ \A n \in Int : n % Words \in Word
  /\ \A n \in Nat : AtMost(n) \in Word
BY WordsAssumption DEF Word, AtMost

(* A register set is one again after one of its registers was written.     *)
LEMMA RegisterFields ==
  ASSUME NEW r \in RegisterSet
  PROVE  /\ r.sprm \in [SPRMs -> Word] /\ r.gprm \in [GPRMs -> Word]
         /\ r.counts \in [GPRMs -> BOOLEAN] /\ r.start \in [GPRMs -> Int]
         /\ r = [sprm |-> r.sprm, gprm |-> r.gprm, counts |-> r.counts, start |-> r.start]
BY DEF RegisterSet

LEMMA CommandFields ==
  ASSUME NEW c \in Command
  PROVE  /\ c.type \in 0..6 /\ c.cmp \in 0..7 /\ c.left \in Operand /\ c.right \in Operand
         /\ c.set \in 0..15 /\ c.dst \in GPRMs /\ c.reg2 \in GPRMs /\ c.src \in Operand
         /\ c.streams \in [1..3 -> Operand \cup {[kind |-> "none", n |-> 0]}]
         /\ c.op \in 0..15 /\ c.sub \in 0..31 /\ c.jump \in BOOLEAN /\ c.d \in [1..3 -> Word]
         /\ c.line \in 0..255 /\ c.counter \in BOOLEAN
BY DEF Command

(* What a register shows is a word, and so is an operand. *)
LEMMA ValueType ==
  ASSUME NEW r \in RegisterSet, NEW k \in GPRMs, clock \in Int
  PROVE  Value(r, k) \in Word
<1>1. r.start[k] \in Int /\ r.gprm[k] \in Word /\ r.counts[k] \in BOOLEAN
  BY RegisterFields
<1> QED BY <1>1, WordFacts DEF Value

LEMMA EvalType ==
  ASSUME NEW r \in RegisterSet, NEW o \in Operand, clock \in Int
  PROVE  Eval(r, o) \in Word
<1>1. CASE o.kind = "imm"
  <2>1. o.n \in Word BY <1>1 DEF Operand
  <2> QED BY <1>1, <2>1 DEF Eval
<1>2. CASE o.kind = "gprm"
  <2>1. o.n \in GPRMs BY <1>2 DEF Operand
  <2>2. Value(r, o.n) \in Word BY <2>1, ValueType
  <2> QED BY <1>2, <2>2 DEF Eval
<1>3. CASE o.kind = "sprm"
  <2>1. o.n \in 0..31 BY <1>3 DEF Operand
  <2>2. CASE o.n < 24
    <3>1. r.sprm[o.n] \in Word BY <2>1, <2>2, RegisterFields DEF SPRMs
    <3> QED BY <1>3, <2>1, <2>2, <3>1 DEF Eval
  <2>3. CASE o.n >= 24
    <3>1. r.gprm[o.n - 24] \in Word BY <2>1, <2>3, RegisterFields DEF GPRMs
    <3> QED BY <1>3, <2>1, <2>3, <3>1 DEF Eval
  <2> QED BY <2>1, <2>2, <2>3
<1> QED BY <1>1, <1>2, <1>3 DEF Operand

-----------------------------------------------------------------------------
(* Every operation on the registers leaves registers *)

LEMMA WriteBackType ==
  ASSUME NEW r \in RegisterSet, NEW K, clock \in Int
  PROVE  WriteBack(r, K) \in RegisterSet
<1>1. [k \in GPRMs |-> IF k \in K THEN Value(r, k) ELSE r.gprm[k]] \in [GPRMs -> Word]
  BY ValueType, RegisterFields
<1> QED BY <1>1, RegisterFields DEF WriteBack, RegisterSet

LEMMA SetGprmType ==
  ASSUME NEW r \in RegisterSet, NEW k \in GPRMs, NEW v \in Int, clock \in Int
  PROVE  SetGprm(r, k, v) \in RegisterSet
<1>1. v % Words \in Word BY WordFacts
<1>2. clock - (v % Words) \in Int BY <1>1, WordsAssumption DEF Word
<1>3. [r.gprm EXCEPT ![k] = v % Words] \in [GPRMs -> Word] BY <1>1, RegisterFields
<1>4. [r.start EXCEPT ![k] = IF r.counts[k] THEN clock - (v % Words) ELSE @] \in [GPRMs -> Int]
  BY <1>2, RegisterFields
<1> QED BY <1>3, <1>4, RegisterFields DEF SetGprm, RegisterSet

LEMMA SetOpType ==
  ASSUME NEW r \in RegisterSet, NEW c \in Command, NEW v \in Word, clock \in Int
  PROVE  SetOp(r, c, v) \in RegisterSet
<1>1. v \in Int /\ c.dst \in GPRMs /\ c.reg2 \in GPRMs
  BY CommandFields, WordsAssumption DEF Word
<1>2. Value(r, c.dst) \in Int BY <1>1, ValueType, WordsAssumption DEF Word
<1>3. SetGprm(r, c.reg2, Value(r, c.dst)) \in RegisterSet BY <1>1, <1>2, SetGprmType
<1>4. SetGprm(SetGprm(r, c.reg2, Value(r, c.dst)), c.dst, v) \in RegisterSet
  BY <1>1, <1>3, SetGprmType
<1>5. SetGprm(r, c.dst, v) \in RegisterSet BY <1>1, SetGprmType
<1> QED BY <1>4, <1>5 DEF SetOp

(* The results of all set operations are words. *)
LEMMA SetValuesType ==
  ASSUME NEW op \in 0..15, NEW a \in Word, NEW data \in Word
  PROVE  SetValues(op, a, data) \subseteq Word
<1>1. a \in Nat /\ data \in Nat /\ Words \in Nat /\ Words > 0 /\ a < Words
  BY WordsAssumption DEF Word
<1>2. a + data \in Nat BY <1>1
<1>3. a * data \in Nat BY <1>1
<1>4. (IF a < data THEN 0 ELSE a - data) \in Word BY <1>1 DEF Word
<1>5. data # 0 => a \div data \in 0..a /\ a % data \in 0..data - 1 BY <1>1
<1>6. Words - 1 \in Word BY <1>1 DEF Word
<1>7. (IF data # 0 THEN a \div data ELSE Words - 1) \in Word BY <1>1, <1>5, <1>6 DEF Word
<1>8. (IF data # 0 THEN a % data ELSE Words - 1) \in Word BY <1>1, <1>5, <1>6 DEF Word
<1>9. {(1 + n) % Words : n \in 0..data} \subseteq Word BY <1>1, WordFacts
<1>10. AtMost(a + data) \in Word BY <1>2, WordFacts
<1>22. Product(a * data) \subseteq Word
  <2>1. AtMost(a * data) \in Word /\ (a * data) % Words \in Word BY <1>3, WordFacts
  <2> QED BY <1>6, <2>1 DEF Product
<1>11. And(a, data) \in Word /\ Or(a, data) \in Word /\ Xor(a, data) \in Word
  BY BitsAssumption
<1>12. \/ op \in {0, 12, 13, 14, 15} \/ op \in {1, 2} \/ op = 3 \/ op = 4 \/ op = 5 \/ op = 6
       \/ op = 7 \/ op = 8 \/ op = 9 \/ op = 10 \/ op = 11
  OBVIOUS
<1>13. CASE op \in {0, 12, 13, 14, 15}
  BY <1>13 DEF SetValues
<1>14. CASE op \in {1, 2}
  BY <1>14 DEF SetValues
<1>15. CASE op = 3
  BY <1>10, <1>15 DEF SetValues
<1>16. CASE op = 4
  BY <1>4, <1>16 DEF SetValues
<1>17. CASE op = 5
  BY <1>22, <1>17 DEF SetValues
<1>18. CASE op = 6
  BY <1>7, <1>18 DEF SetValues
<1>19. CASE op = 7
  BY <1>8, <1>19 DEF SetValues
<1>20. CASE op = 8
  BY <1>9, <1>20 DEF SetValues
<1>21. CASE op \in {9, 10, 11}
  BY <1>11, <1>21 DEF SetValues
<1> QED BY <1>12, <1>13, <1>14, <1>15, <1>16, <1>17, <1>18, <1>19, <1>20, <1>21

LEMMA SetResultsType ==
  ASSUME NEW r \in RegisterSet, NEW c \in Command, NEW cond \in BOOLEAN, clock \in Int
  PROVE  SetResults(r, c, cond) \subseteq RegisterSet
<1> DEFINE w == WriteBack(r, Reads(c.src))
           values == SetValues(c.set, Value(w, c.dst), Eval(w, c.src))
<1>1. w \in RegisterSet BY WriteBackType
<1>2. Value(w, c.dst) \in Word /\ Eval(w, c.src) \in Word
  BY <1>1, CommandFields, ValueType, EvalType
<1>3. values \subseteq Word BY <1>2, CommandFields, SetValuesType
<1>4. \A v \in values : SetOp(w, c, v) \in RegisterSet BY <1>1, <1>3, SetOpType
<1>5. SetResults(r, c, cond) = IF ~cond \/ values = {} THEN {w} ELSE {SetOp(w, c, v) : v \in values}
  BY DEF SetResults
<1> HIDE DEF w, values
<1> QED BY <1>1, <1>4, <1>5

LEMMA SetSprmsType ==
  ASSUME NEW r \in RegisterSet, NEW values, NEW cond \in BOOLEAN,
         \A n \in DOMAIN values : values[n] \in Word
  PROVE  SetSprms(r, values, cond) \in RegisterSet
<1>1. [n \in SPRMs |-> IF n \in DOMAIN values THEN values[n] ELSE r.sprm[n]] \in [SPRMs -> Word]
  BY RegisterFields
<1> QED BY <1>1, RegisterFields DEF SetSprms, RegisterSet

LEMMA SystemSetType ==
  ASSUME NEW r \in RegisterSet, NEW c \in Command, NEW cond \in BOOLEAN, clock \in Int
  PROVE  SystemSet(r, c, cond) \in RegisterSet
<1> DEFINE w == WriteBack(r, SystemReads(c))
           data == Eval(w, c.src)
           streams == [n \in Given(c) |-> Eval(w, c.streams[n])]
           mode == [n \in {9, 10} |-> IF n = 9 THEN data ELSE c.d[1]]
           button == [n \in {8} |-> data]
<1>1. w \in RegisterSet BY WriteBackType
<1>2. data \in Word BY <1>1, CommandFields, EvalType
<1>3. c.d[1] \in Word BY CommandFields
<1>4. \A n \in DOMAIN streams : streams[n] \in Word
  <2> SUFFICES ASSUME NEW n \in Given(c) PROVE Eval(w, c.streams[n]) \in Word
    OBVIOUS
  <2>1. c.streams[n] \in Operand BY CommandFields DEF Given
  <2> QED BY <1>1, <2>1, EvalType
<1>5. SetSprms(w, streams, cond) \in RegisterSet BY <1>1, <1>4, SetSprmsType
<1>6. \A n \in DOMAIN mode : mode[n] \in Word BY <1>2, <1>3
<1>7. SetSprms(w, mode, cond) \in RegisterSet BY <1>1, <1>6, SetSprmsType
<1>8. \A n \in DOMAIN button : button[n] \in Word BY <1>2
<1>9. SetSprms(w, button, cond) \in RegisterSet BY <1>1, <1>8, SetSprmsType
<1>10. SetMode(w, c, data, cond) \in RegisterSet
  <2> DEFINE m == [w EXCEPT !.counts[c.dst] = c.counter]
  <2>1. [w.counts EXCEPT ![c.dst] = c.counter] \in [GPRMs -> BOOLEAN]
    BY <1>1, CommandFields, RegisterFields
  <2>2. m \in RegisterSet BY <1>1, <2>1, RegisterFields DEF RegisterSet
  <2>3. data \in Int /\ c.dst \in GPRMs BY <1>2, CommandFields, WordsAssumption DEF Word
  <2> HIDE DEF m
  <2>4. SetGprm(m, c.dst, data) \in RegisterSet BY <2>2, <2>3, SetGprmType
  <2>5. SetMode(w, c, data, cond) = IF cond THEN SetGprm(m, c.dst, data) ELSE m
    BY DEF SetMode, m
  <2> QED BY <2>2, <2>4, <2>5
<1>11. SystemSet(r, c, cond) \in
         {SetSprms(w, streams, cond), SetSprms(w, mode, cond), SetMode(w, c, data, cond),
          SetSprms(w, button, cond), w}
  <2> HIDE DEF w, streams, mode, button, data
  <2>1. SystemSet(r, c, cond) =
          CASE c.set = 1 -> SetSprms(w, streams, cond)
            [] c.set = 2 -> SetSprms(w, mode, cond)
            [] c.set = 3 -> SetMode(w, c, data, cond)
            [] c.set = 6 -> SetSprms(w, button, cond)
            [] OTHER     -> w
    BY DEF SystemSet, w, streams, mode, button, data
  <2> QED BY <2>1
<1> HIDE DEF w, streams, mode, button, data
<1> QED BY <1>1, <1>5, <1>7, <1>9, <1>10, <1>11

LEMMA SetLevelType ==
  ASSUME NEW r \in RegisterSet, NEW c \in Command, NEW cond \in BOOLEAN
  PROVE  SetLevel(r, c, cond) \in RegisterSet
<1>1. c.d[1] \in Word BY CommandFields
<1>2. [r.sprm EXCEPT ![13] = c.d[1]] \in [SPRMs -> Word] BY <1>1, RegisterFields
<1> QED BY <1>2, RegisterFields DEF SetLevel, RegisterSet

LEMMA ComparedType ==
  ASSUME NEW r \in RegisterSet, NEW c \in Command, clock \in Int
  PROVE  Compared(r, c) \in RegisterSet
BY WriteBackType DEF Compared

LEMMA HoldsType ==
  ASSUME NEW r, NEW c \in Command
  PROVE  Holds(r, c) \in BOOLEAN
BY DEF Holds

(* The registers after the two parts of a command. *)
LEMMA AfterSetType ==
  ASSUME NEW r \in RegisterSet, NEW c \in Command, clock \in Int
  PROVE  AfterSet(r, c) \subseteq RegisterSet
BY SetResultsType, ComparedType DEF AfterSet

LEMMA ExecutedType ==
  ASSUME NEW w \in RegisterSet, NEW c \in Command, clock \in Int
  PROVE  Executed(w, c) \subseteq RegisterSet
<1> DEFINE cond == Holds(w, c)
<1>1. cond \in BOOLEAN BY HoldsType
<1>2. c.type \in 0..6 BY CommandFields
<1> HIDE DEF cond
<1>3. CASE c.type = 0 BY <1>1, <1>3, SetLevelType DEF Executed, cond
<1>4. CASE c.type = 1 BY <1>4 DEF Executed
<1>5. CASE c.type = 2 BY <1>1, <1>5, SystemSetType DEF Executed, cond
<1>6. CASE c.type \in {3, 5, 6} BY <1>1, <1>6, SetResultsType DEF Executed, cond
<1>7. CASE c.type = 4 BY <1>7, ComparedType DEF Executed
<1> QED BY <1>2, <1>3, <1>4, <1>5, <1>6, <1>7

-----------------------------------------------------------------------------
(* Links and rows *)

LEMMA LinkToType ==
  ASSUME NEW c \in Command, NEW cmd \in 0..32, NEW n
  PROVE  LinkTo(cmd, c, n) \in LinkTypes /\ LinkTo(cmd, c, n).cmd = cmd
<1>1. [j \in 1..3 |-> IF j <= n THEN c.d[j] ELSE 0] \in [1..3 -> Word]
  BY CommandFields, WordFacts
<1> QED BY <1>1 DEF LinkTo, LinkTypes

(* The numbers a link may have, by where it comes from.                    *)
LEMMA SubinsLinks ==
  ASSUME NEW c \in Command
  PROVE  \/ LinkSubins(c) = None
         \/ LinkSubins(c) \in LinkTypes /\ LinkSubins(c).cmd = c.sub /\ c.sub \in 0..16
<1>1. c.sub \in 0..31 BY CommandFields
<1>2. c.sub <= 16 => c.sub \in 0..32 /\ c.sub \in 0..16 BY <1>1
<1>3. c.sub <= 16 => LinkTo(c.sub, c, 1) \in LinkTypes /\ LinkTo(c.sub, c, 1).cmd = c.sub
  BY <1>2, LinkToType
<1> QED BY <1>1, <1>2, <1>3 DEF LinkSubins

LEMMA InstructionLinks ==
  ASSUME NEW c \in Command, c.op # 1
  PROVE  \/ LinkInstruction(c) = None
         \/ LinkInstruction(c) \in LinkTypes /\ LinkInstruction(c).cmd \in 17..20
<1>1. c.op \in 0..15 BY CommandFields
<1>2. CASE c.op = 4
  <2>1. LinkTo(17, c, 1) \in LinkTypes /\ LinkTo(17, c, 1).cmd = 17 BY LinkToType
  <2>2. LinkInstruction(c) = LinkTo(17, c, 1) BY <1>2 DEF LinkInstruction
  <2> QED BY <2>1, <2>2
<1>3. CASE c.op \in 5..7
  <2>1. 13 + c.op \in 18..20 BY <1>3
  <2>2. LinkTo(13 + c.op, c, 2) \in LinkTypes /\ LinkTo(13 + c.op, c, 2).cmd = 13 + c.op
    BY <2>1, LinkToType
  <2>3. LinkInstruction(c) = LinkTo(13 + c.op, c, 2) BY <1>3 DEF LinkInstruction
  <2> QED BY <2>1, <2>2, <2>3
<1>4. CASE c.op \notin {1, 4, 5, 6, 7}
  <2>1. LinkInstruction(c) = None BY <1>1, <1>4 DEF LinkInstruction
  <2> QED BY <2>1
<1> QED BY <1>1, <1>2, <1>3, <1>4

LEMMA JumpLinks ==
  ASSUME NEW c \in Command
  PROVE  \/ JumpInstruction(c) = None
         \/ JumpInstruction(c) \in LinkTypes /\ JumpInstruction(c).cmd \in 21..32
<1>1. c.op \in 0..15 /\ c.sub \in 0..31 BY CommandFields
<1>2. \A cmd \in 21..32 : \A n : LinkTo(cmd, c, n) \in LinkTypes /\ LinkTo(cmd, c, n).cmd = cmd
  <2> TAKE cmd \in 21..32
  <2> TAKE n
  <2>1. cmd \in 0..32 OBVIOUS
  <2> QED BY <2>1, LinkToType
<1>3. \/ JumpInstruction(c) = None
      \/ \E cmd \in 21..32 : \E n : JumpInstruction(c) = LinkTo(cmd, c, n)
  <2>1. CASE c.op \in {1, 2, 3, 5}
    BY <2>1 DEF JumpInstruction
  <2>2. CASE c.op = 6 /\ c.sub \in 0..3
    <3>1. 25 + c.sub \in 21..32 BY <2>2
    <3>2. JumpInstruction(c) = LinkTo(25 + c.sub, c, <<0, 1, 3, 1>>[c.sub + 1])
      BY <2>2 DEF JumpInstruction
    <3> QED BY <3>1, <3>2
  <2>3. CASE c.op = 8 /\ c.sub \in 0..3
    <3>1. 29 + c.sub \in 21..32 BY <2>3
    <3>2. JumpInstruction(c) = LinkTo(29 + c.sub, c, <<1, 2, 2, 2>>[c.sub + 1])
      BY <2>3 DEF JumpInstruction
    <3> QED BY <3>1, <3>2
  <2>4. CASE c.op \notin {1, 2, 3, 5} /\ ~(c.op \in {6, 8} /\ c.sub \in 0..3)
    BY <1>1, <2>4 DEF JumpInstruction
  <2> QED BY <2>1, <2>2, <2>3, <2>4
<1> QED BY <1>2, <1>3

(* The link of a command is one of link_cmd_t, of the kind it asks for.    *)
LEMMA LinkOfType ==
  ASSUME NEW w, NEW c \in Command, LinkOf(w, c) # None
  PROVE  /\ LinkOf(w, c) \in LinkTypes
         /\ IF IsSubins(c) THEN LinkOf(w, c).cmd = c.sub /\ c.sub \in 0..16
            ELSE LinkOf(w, c).cmd \in 17..32
<1>1. c.type \in 0..6 /\ c.jump \in BOOLEAN BY CommandFields
<1>2. c.type # 0 /\ ~(~Holds(w, c) /\ c.type # 6) BY DEF LinkOf
<1>3. CASE c.type = 1 /\ c.jump
  <2>1. LinkOf(w, c) = JumpInstruction(c) BY <1>2, <1>3 DEF LinkOf
  <2>2. ~IsSubins(c) BY <1>3 DEF IsSubins
  <2>3. LinkOf(w, c) \in LinkTypes /\ LinkOf(w, c).cmd \in 21..32 BY <2>1, JumpLinks
  <2> QED BY <2>2, <2>3
<1>4. CASE c.type \in 4..6
  <2>1. LinkOf(w, c) = LinkSubins(c) BY <1>2, <1>4 DEF LinkOf
  <2>2. IsSubins(c) BY <1>4 DEF IsSubins
  <2> QED BY <2>1, <2>2, SubinsLinks
<1>5. CASE c.type \in 1..3 /\ ~(c.type = 1 /\ c.jump)
  <2>1. LinkOf(w, c) = LinkInstruction(c) BY <1>2, <1>5 DEF LinkOf
  <2>2. CASE c.op = 1
    <3>1. LinkOf(w, c) = LinkSubins(c) BY <2>1, <2>2 DEF LinkInstruction
    <3>2. IsSubins(c) BY <1>5, <2>2 DEF IsSubins
    <3> QED BY <3>1, <3>2, SubinsLinks
  <2>3. CASE c.op # 1
    <3>1. ~IsSubins(c) BY <1>5, <2>3 DEF IsSubins
    <3>2. LinkOf(w, c) \in LinkTypes /\ LinkOf(w, c).cmd \in 17..20 BY <2>1, <2>3, InstructionLinks
    <3> QED BY <3>1, <3>2
  <2> QED BY <2>2, <2>3
<1> QED BY <1>1, <1>2, <1>3, <1>4, <1>5

LEMMA RowType ==
  ASSUME NEW c \in Command, NEW cond
  PROVE  Row(c, cond) \in Nat
<1>1. c.line \in Nat BY CommandFields
<1> QED BY <1>1 DEF Row, Break

-----------------------------------------------------------------------------
(* Types and links *)

(* The two are inductive together: a link is typed by the command it comes *)
(* from, which stays the current one.                                      *)
TypedLinks == TypeOK /\ LinksFollowed

LEMMA CurrentType ==
  ASSUME TypeOK, More
  PROVE  Current \in Command
<1>1. block \in Seq(Command) /\ i \in Nat /\ i < Len(block) BY DEF TypeOK, More
<1>2. i + 1 \in 1..Len(block) BY <1>1
<1> QED BY <1>1, <1>2 DEF Current

LEMMA InitTyped == Init => TypedLinks
<1> SUFFICES ASSUME Init PROVE TypedLinks OBVIOUS
<1>1. NoLink \in LinkTypes
  <2>1. NoData \in [1..3 -> Word] BY WordFacts DEF NoData
  <2> QED BY <2>1 DEF NoLink, LinkTypes
<1>2. TypeOK BY <1>1, BlocksAssumption, RegistersAssumption, BoundsAssumption DEF Init, TypeOK
<1>3. LinksFollowed BY DEF Init, LinksFollowed
<1> QED BY <1>2, <1>3 DEF TypedLinks

LEMMA StepTyped == TypedLinks /\ Step => TypedLinks'
<1> SUFFICES ASSUME TypedLinks, Step PROVE TypedLinks' OBVIOUS
<1>1. TypeOK /\ More /\ Current \in Command BY CurrentType DEF TypedLinks, Step
<1>2. regs \in RegisterSet /\ clock \in Int /\ i \in Nat /\ total \in 0..MaxTotal
  BY <1>1, BoundsAssumption DEF TypeOK
<1>a. PICK w \in AfterSet(regs, Current) : \E r \in Executed(w, Current) :
        LET to  == LinkOf(w, Current)
            row == IF Current.type = 0 THEN Row(Current, Holds(w, Current)) ELSE 0
        IN  /\ regs' = r
            /\ IF to # None THEN Leave(to) ELSE GoOn(row)
  BY DEF Step
<1>3. PICK r \in Executed(w, Current) :
        LET to  == LinkOf(w, Current)
            row == IF Current.type = 0 THEN Row(Current, Holds(w, Current)) ELSE 0
        IN  /\ regs' = r
            /\ IF to # None THEN Leave(to) ELSE GoOn(row)
  BY <1>a
<1>4. w \in RegisterSet BY <1>1, <1>2, AfterSetType
<1>5. regs' \in RegisterSet
  <2>1. Executed(w, Current) \subseteq RegisterSet BY <1>1, <1>2, <1>4, ExecutedType
  <2> QED BY <1>3, <2>1
<1>6. block' = block /\ clock' = clock /\ result = "running" BY DEF Step
<1>7. CASE LinkOf(w, Current) # None
  <2>1. link' = LinkOf(w, Current) /\ result' = "link" /\ i' = i /\ total' = total
    BY <1>3, <1>7 DEF Leave
  <2>2. Current' = Current BY <1>6, <2>1 DEF Current
  <2>3. /\ link' \in LinkTypes
        /\ IF IsSubins(Current) THEN link'.cmd = Current.sub /\ Current.sub \in 0..16
           ELSE link'.cmd \in 17..32
    BY <1>1, <1>7, <2>1, LinkOfType
  <2>4. TypeOK' BY <1>1, <1>5, <1>6, <2>1, <2>3 DEF TypeOK
  <2>5. IsSubins(Current)' <=> IsSubins(Current) BY <2>2 DEF IsSubins
  <2>6. LinksFollowed'
    <3>1. CASE IsSubins(Current)
      <4>1. link'.cmd \in Followed \/ Current.sub \in {4, 8, 14, 15} BY <2>3, <3>1 DEF Followed
      <4>2. link'.cmd <= 16 BY <2>3, <3>1
      <4> QED BY <2>2, <2>5, <3>1, <4>1, <4>2 DEF LinksFollowed
    <3>2. CASE ~IsSubins(Current)
      <4>1. link'.cmd \in Followed BY <2>3, <3>2 DEF Followed
      <4> QED BY <2>5, <3>2, <4>1 DEF LinksFollowed
    <3> QED BY <3>1, <3>2
  <2> QED BY <2>4, <2>6 DEF TypedLinks
<1>8. CASE LinkOf(w, Current) = None
  <2> DEFINE row == IF Current.type = 0 THEN Row(Current, Holds(w, Current)) ELSE 0
  <2>1. row \in Nat BY <1>1, RowType
  <2>2. GoOn(row) BY <1>3, <1>8
  <2> HIDE DEF row
  <2>3. i' \in Nat /\ total' = total + 1 /\ link' = link /\ result' = "running"
    BY <1>2, <1>6, <2>1, <2>2 DEF GoOn
  <2>4. total' \in 0..MaxTotal BY <1>1, <1>2, <2>3, BoundsAssumption DEF More
  <2>5. TypeOK' BY <1>1, <1>5, <1>6, <2>3, <2>4 DEF TypeOK
  <2>6. LinksFollowed' BY <2>3 DEF LinksFollowed
  <2> QED BY <2>5, <2>6 DEF TypedLinks
<1> QED BY <1>7, <1>8

LEMMA NextTyped == TypedLinks /\ [Next]_vars => TypedLinks'
<1> SUFFICES ASSUME TypedLinks, [Next]_vars PROVE TypedLinks' OBVIOUS
<1>1. CASE Step BY <1>1, StepTyped
<1>2. CASE Finish
  <2>1. NoLink \in LinkTypes
    <3>1. NoData \in [1..3 -> Word] BY WordFacts DEF NoData
    <3> QED BY <3>1 DEF NoLink, LinkTypes
  <2> QED BY <1>2, <2>1 DEF Finish, TypedLinks, TypeOK, LinksFollowed
<1>3. CASE Tick
  <2>1. TypeOK' BY <1>3, BoundsAssumption DEF Tick, TypedLinks, TypeOK
  <2>2. LinksFollowed' BY <1>3 DEF Tick, LinksFollowed
  <2> QED BY <2>1, <2>2 DEF TypedLinks
<1>4. CASE UNCHANGED vars
  <2>1. TypeOK' BY <1>4 DEF vars, TypedLinks, TypeOK
  <2>2. Current' = Current BY <1>4 DEF vars, Current
  <2>3. IsSubins(Current)' <=> IsSubins(Current) BY <2>2 DEF IsSubins
  <2>4. LinksFollowed' BY <1>4, <2>2, <2>3 DEF vars, TypedLinks, LinksFollowed
  <2> QED BY <2>1, <2>4 DEF TypedLinks
<1> QED BY <1>1, <1>2, <1>3, <1>4 DEF Next

(* The registers stay words and modes, and no more than MaxTotal commands   *)
(* are executed, whatever the block (vmEval_CMD).                           *)
THEOREM TypeCorrect == Spec => []TypeOK
<1>1. TypedLinks => TypeOK BY DEF TypedLinks
<1> QED BY <1>1, InitTyped, NextTyped, PTL DEF Spec

(* Every link is one process_command knows and of the kind the command asks *)
(* for, but the sub-instructions 4, 8, 14 and 15.                           *)
THEOREM LinksCorrect == Spec => []LinksFollowed
<1>1. TypedLinks => LinksFollowed BY DEF TypedLinks
<1> QED BY <1>1, InitTyped, NextTyped, PTL DEF Spec

-----------------------------------------------------------------------------
(* What the registers show *)

(* Reading registers leaves what they show; so does writing what another   *)
(* one is to show.                                                         *)
LEMMA ReadsUnnoticed ==
  ASSUME NEW r \in RegisterSet, NEW K, clock \in Int
  PROVE  /\ \A k \in GPRMs : Value(WriteBack(r, K), k) = Value(r, k)
         /\ WriteBack(r, K).sprm = r.sprm
         /\ \A o \in Operand : Named(o) => Eval(WriteBack(r, K), o) = Eval(r, o)
<1> DEFINE w == WriteBack(r, K)
<1>1. /\ w.sprm = r.sprm /\ w.counts = r.counts /\ w.start = r.start
      /\ \A k \in GPRMs : w.gprm[k] = IF k \in K THEN Value(r, k) ELSE r.gprm[k]
  BY RegisterFields DEF WriteBack
<1>2. ASSUME NEW k \in GPRMs PROVE Value(w, k) = Value(r, k)
  <2> HIDE DEF w
  <2> QED BY <1>1 DEF Value
<1>3. ASSUME NEW o \in Operand, Named(o) PROVE Eval(w, o) = Eval(r, o)
  <2>1. CASE o.kind = "imm"
    BY <2>1 DEF Eval
  <2>2. CASE o.kind = "gprm"
    <3>1. o.n \in GPRMs BY <2>2 DEF Operand
    <3>2. Value(w, o.n) = Value(r, o.n) BY <1>2, <3>1
    <3> HIDE DEF w
    <3> QED BY <2>2, <3>2 DEF Eval
  <2>3. CASE o.kind = "sprm"
    <3>1. o.n < 24 BY <1>3, <2>3 DEF Named, SPRMs
    <3> HIDE DEF w
    <3> QED BY <1>1, <2>3, <3>1 DEF Eval
  <2> QED BY <2>1, <2>2, <2>3 DEF Operand
<1> QED BY <1>1, <1>2, <1>3

LEMMA Writes ==
  ASSUME NEW r \in RegisterSet, NEW k \in GPRMs, NEW v \in Word, clock \in Int
  PROVE  /\ SetGprm(r, k, v) \in RegisterSet
         /\ SetGprm(r, k, v).sprm = r.sprm
         /\ Value(SetGprm(r, k, v), k) = v
         /\ \A j \in GPRMs : j # k => Value(SetGprm(r, k, v), j) = Value(r, j)
<1> DEFINE s == SetGprm(r, k, v)
<1>1. v \in Int /\ v % Words = v /\ v \in 0..Words - 1 /\ Words \in Nat \ {0}
  BY WordsAssumption DEF Word
<1>2. s \in RegisterSet
  BY <1>1, SetGprmType
<1>3. /\ s.sprm = r.sprm /\ s.counts = r.counts
      /\ s.gprm = [r.gprm EXCEPT ![k] = v]
      /\ s.start = [r.start EXCEPT ![k] = IF r.counts[k] THEN clock - v ELSE @]
  BY <1>1, RegisterFields DEF SetGprm
<1>4. r.gprm \in [GPRMs -> Word] /\ r.start \in [GPRMs -> Int]
  BY RegisterFields
<1> HIDE DEF s
<1>5. Value(s, k) = v
  <2>1. CASE r.counts[k]
    <3>1. s.start[k] = clock - v
      BY <1>3, <1>4, <2>1
    <3>2. clock - (clock - v) = v
      BY <1>1
    <3> QED BY <1>1, <1>3, <2>1, <3>1, <3>2 DEF Value
  <2>2. CASE ~r.counts[k]
    BY <1>3, <1>4, <2>2 DEF Value
  <2> QED BY <2>1, <2>2
<1>6. ASSUME NEW j \in GPRMs, j # k PROVE Value(s, j) = Value(r, j)
  <2>1. s.gprm[j] = r.gprm[j] /\ s.start[j] = r.start[j]
    BY <1>3, <1>4, <1>6
  <2> QED BY <1>3, <2>1 DEF Value
<1> QED BY <1>2, <1>3, <1>5, <1>6 DEF s

(* The registers show the same before and after the comparison, and its    *)
(* outcome is the same.                                                    *)
LEMMA ComparedShows ==
  ASSUME NEW r \in RegisterSet, NEW c \in Command, clock \in Int
  PROVE  /\ Compared(r, c) \in RegisterSet
         /\ Compared(r, c).sprm = r.sprm
         /\ \A k \in GPRMs : Value(Compared(r, c), k) = Value(r, k)
         /\ \A o \in Operand : Named(o) => Eval(Compared(r, c), o) = Eval(r, o)
         /\ Comparable(c) => (Holds(Compared(r, c), c) <=> Holds(r, c))
<1>1. Compared(r, c) \in RegisterSet
  BY ComparedType
<1>2. CASE c.cmp = 0
  <2>1. Compared(r, c) = r BY <1>2 DEF Compared
  <2> QED BY <1>1, <2>1
<1>3. CASE c.cmp # 0
  <2>1. Compared(r, c) = WriteBack(r, Reads(c.left) \cup Reads(c.right)) BY <1>3 DEF Compared
  <2>2. /\ Compared(r, c).sprm = r.sprm
        /\ \A k \in GPRMs : Value(Compared(r, c), k) = Value(r, k)
        /\ \A o \in Operand : Named(o) => Eval(Compared(r, c), o) = Eval(r, o)
    BY <2>1, ReadsUnnoticed
  <2>3. ASSUME Comparable(c) PROVE Holds(Compared(r, c), c) <=> Holds(r, c)
    <3>1. /\ Eval(Compared(r, c), c.left) = Eval(r, c.left)
          /\ Eval(Compared(r, c), c.right) = Eval(r, c.right)
      BY <2>2, <2>3, CommandFields DEF Comparable
    <3> QED BY <3>1 DEF Holds
  <2> QED BY <1>1, <2>2, <2>3
<1> QED BY <1>2, <1>3

-----------------------------------------------------------------------------
(* Commands that are skipped *)

(* The registers s show what r showed, but for a register switched by c.   *)
Same(r, s, c) ==
  /\ s.sprm = r.sprm
  /\ \A k \in GPRMs : Value(s, k) = Value(r, k) \/ Switches(c, k)

LEMMA SystemSkipped ==
  ASSUME NEW r \in RegisterSet, NEW c \in Command, c.type = 2, clock \in Int
  PROVE  Same(r, SystemSet(r, c, FALSE), c)
<1> DEFINE w == WriteBack(r, SystemReads(c))
           m == [w EXCEPT !.counts[c.dst] = c.counter]
<1>1. w \in RegisterSet /\ w.sprm = r.sprm /\ \A k \in GPRMs : Value(w, k) = Value(r, k)
  BY ReadsUnnoticed, WriteBackType
<1>2. c.set = 3 => SystemSet(r, c, FALSE) = m
  BY DEF SystemSet, SetMode
<1>3. c.set # 3 => SystemSet(r, c, FALSE) = w
  <2>1. \A values : SetSprms(w, values, FALSE) = w
    BY DEF SetSprms
  <2> HIDE DEF w
  <2> QED BY <2>1 DEF SystemSet, w
<1> HIDE DEF w
<1>4. m.sprm = w.sprm /\ m.gprm = w.gprm /\ m.start = w.start
      /\ m.counts = [w.counts EXCEPT ![c.dst] = c.counter]
  BY <1>1, RegisterFields
<1>5. w.counts \in [GPRMs -> BOOLEAN]
  BY <1>1, RegisterFields
<1> HIDE DEF m
<1>6. \A k \in GPRMs : k # c.dst => Value(m, k) = Value(w, k)
  BY <1>4, <1>5 DEF Value
<1>7. CASE c.set = 3
  BY <1>1, <1>2, <1>4, <1>6, <1>7 DEF Same, Switches
<1>8. CASE c.set # 3
  BY <1>1, <1>3, <1>8 DEF Same
<1> QED BY <1>7, <1>8

LEMMA SkippedShows ==
  ASSUME NEW r \in RegisterSet, NEW c \in Command, c.type # 4, Comparable(c), ~Holds(r, c),
         clock \in Int, NEW w \in AfterSet(r, c), NEW s \in Executed(w, c)
  PROVE  Same(r, s, c) /\ (LinkOf(w, c) # None => c.type = 6)
<1>1. w = Compared(r, c)
  BY DEF AfterSet
<1>2. /\ w \in RegisterSet /\ w.sprm = r.sprm /\ \A k \in GPRMs : Value(w, k) = Value(r, k)
      /\ ~Holds(w, c)
  BY <1>1, ComparedShows
<1>3. LinkOf(w, c) # None => c.type = 6
  BY <1>2 DEF LinkOf
<1>4. Same(w, s, c) => Same(r, s, c)
  BY <1>2 DEF Same
<1>5. c.type \in {0, 1, 2, 3, 5, 6}
  BY CommandFields
<1>6. CASE c.type = 0
  <2>1. s = w BY <1>2, <1>6 DEF Executed, SetLevel
  <2> QED BY <1>3, <1>4, <2>1 DEF Same
<1>7. CASE c.type = 1
  <2>1. s = w BY <1>7 DEF Executed
  <2> QED BY <1>3, <1>4, <2>1 DEF Same
<1>8. CASE c.type = 2
  <2>0. Holds(w, c) = FALSE BY <1>2, HoldsType
  <2>1. Executed(w, c) = {SystemSet(w, c, Holds(w, c))} BY <1>8 DEF Executed
  <2>2. s = SystemSet(w, c, FALSE) BY <2>0, <2>1
  <2> QED BY <1>2, <1>3, <1>4, <1>8, <2>2, SystemSkipped
<1>9. CASE c.type \in {3, 5, 6}
  <2>1. Executed(w, c) = SetResults(w, c, Holds(w, c)) BY <1>9 DEF Executed
  <2>2. s = WriteBack(w, Reads(c.src)) BY <1>2, <2>1 DEF SetResults
  <2>3. Same(w, s, c) BY <1>2, <2>2, ReadsUnnoticed DEF Same
  <2> QED BY <1>3, <1>4, <2>3
<1> QED BY <1>5, <1>6, <1>7, <1>8, <1>9

(* What the registers show after a step, with the clock as it was.         *)
LEMMA ShownAfter ==
  ASSUME TypeOK, clock' = clock, NEW s \in RegisterSet, regs' = s
  PROVE  /\ Shown.sprm = regs.sprm /\ \A k \in GPRMs : Shown.gprm[k] = Value(regs, k)
         /\ Shown'.sprm = s.sprm /\ \A k \in GPRMs : Shown'.gprm[k] = Value(s, k)
<1>1. Shown' = [sprm |-> s.sprm, gprm |-> [k \in GPRMs |-> Value(s, k)]]
  BY DEF Shown, Value
<1> QED BY <1>1 DEF Shown

(* What a step does to the registers, and whether it links.                *)
LEMMA StepShows ==
  ASSUME TypeOK, Step
  PROVE  /\ More /\ Current \in Command /\ regs \in RegisterSet /\ clock \in Int /\ clock' = clock
         /\ \E w \in AfterSet(regs, Current) : \E s \in Executed(w, Current) :
              /\ w \in RegisterSet /\ s \in RegisterSet /\ regs' = s
              /\ result' = "link" <=> LinkOf(w, Current) # None
<1>1. More /\ Current \in Command /\ regs \in RegisterSet /\ clock \in Int /\ clock' = clock
  BY CurrentType, BoundsAssumption DEF Step, TypeOK
<1>2. PICK w \in AfterSet(regs, Current) : \E r \in Executed(w, Current) :
        LET to  == LinkOf(w, Current)
            row == IF Current.type = 0 THEN Row(Current, Holds(w, Current)) ELSE 0
        IN  /\ regs' = r
            /\ IF to # None THEN Leave(to) ELSE GoOn(row)
  BY DEF Step
<1>3. PICK s \in Executed(w, Current) :
        LET to  == LinkOf(w, Current)
            row == IF Current.type = 0 THEN Row(Current, Holds(w, Current)) ELSE 0
        IN  /\ regs' = s
            /\ IF to # None THEN Leave(to) ELSE GoOn(row)
  BY <1>2
<1>4. w \in RegisterSet
  BY <1>1, AfterSetType
<1>5. s \in RegisterSet
  BY <1>1, <1>4, ExecutedType
<1>6. result = "running"
  BY DEF Step
<1>7. result' = "link" <=> LinkOf(w, Current) # None
  BY <1>3, <1>6 DEF Leave, GoOn
<1> QED BY <1>1, <1>3, <1>4, <1>5, <1>7

(* A command whose comparison fails leaves nothing behind but a switched   *)
(* mode and what it has read, and links only by a sub-instruction of type  *)
(* 6 (eval_command).                                                       *)
THEOREM SkippedCommands == Spec => SkipsChangeNothing
<1>1. ASSUME TypeOK, [Next]_vars,
             ~UNCHANGED vars, Runs, Current.type # 4, Comparable(Current), ~Holds(regs, Current)
      PROVE  /\ Shown'.sprm = Shown.sprm
             /\ \A k \in GPRMs : Shown'.gprm[k] = Shown.gprm[k] \/ Switches(Current, k)
             /\ result' = "link" => Current.type = 6
  <2>1. Step
    <3>1. ~Finish BY <1>1 DEF Finish, Runs
    <3>2. ~Tick BY <1>1, BoundsAssumption DEF Tick, Runs, TypeOK
    <3> QED BY <1>1, <3>1, <3>2 DEF Next
  <2>a. PICK w \in AfterSet(regs, Current) : \E s \in Executed(w, Current) :
          /\ s \in RegisterSet /\ regs' = s
          /\ result' = "link" <=> LinkOf(w, Current) # None
    BY <1>1, <2>1, StepShows
  <2>2. PICK s \in Executed(w, Current) :
          /\ s \in RegisterSet /\ regs' = s
          /\ result' = "link" <=> LinkOf(w, Current) # None
    BY <2>a
  <2>3. Same(regs, s, Current) /\ (LinkOf(w, Current) # None => Current.type = 6)
    BY <1>1, <2>1, StepShows, SkippedShows
  <2> QED BY <1>1, <2>1, <2>2, <2>3, StepShows, ShownAfter DEF Same
<1>2. TypeOK /\ [Next]_vars =>
        [Runs /\ Current.type # 4 /\ Comparable(Current) /\ ~Holds(regs, Current) =>
           /\ Shown'.sprm = Shown.sprm
           /\ \A k \in GPRMs : Shown'.gprm[k] = Shown.gprm[k] \/ Switches(Current, k)
           /\ result' = "link" => Current.type = 6]_vars
  BY <1>1
<1> QED BY <1>2, TypeCorrect, PTL DEF Spec, SkipsChangeNothing

-----------------------------------------------------------------------------
(* Set operations *)

(* The results of the operations, of words a and data.                     *)
Ranges(op, a, data, v) ==
  /\ op \in {1, 2} => v = data
  /\ op = 3 => v >= a /\ v >= data
  /\ op = 4 => v <= a /\ (v = 0 \/ v + data = a)
  /\ op = 5 => \/ (data > 0 => v >= a) /\ (data = 0 => v = 0)
               \/ Overflows(a * data)
  /\ op \in {6, 7} /\ data > 0 => v <= a
  /\ op \in {6, 7} /\ data = 0 => v = Words - 1
  /\ op = 8 => v \in 1..data + 1 \/ (data = Words - 1 /\ v = 0)

LEMMA SetValuesInRange ==
  ASSUME NEW op \in 0..15, NEW a \in Word, NEW data \in Word, NEW v \in SetValues(op, a, data)
  PROVE  v \in Word /\ Ranges(op, a, data, v)
<1>1. a \in Nat /\ data \in Nat /\ Words \in Nat /\ Words > 0 /\ a < Words /\ data < Words
  BY WordsAssumption DEF Word
<1>2. v \in Word
  BY SetValuesType
<1>3. CASE op \in {1, 2}
  <2>1. v = data BY <1>3 DEF SetValues
  <2> QED BY <1>2, <1>3, <2>1 DEF Ranges
<1>4. CASE op = 3
  <2>1. v = AtMost(a + data) BY <1>4 DEF SetValues
  <2>2. v >= a /\ v >= data BY <1>1, <2>1 DEF AtMost
  <2> QED BY <1>2, <1>4, <2>2 DEF Ranges
<1>5. CASE op = 4
  <2>1. v = IF a < data THEN 0 ELSE a - data BY <1>5 DEF SetValues
  <2>2. v <= a /\ (v = 0 \/ v + data = a) BY <1>1, <2>1
  <2> QED BY <1>2, <1>5, <2>2 DEF Ranges
<1>6. CASE op = 5
  <2>1. v \in Product(a * data) BY <1>6 DEF SetValues
  <2>2. ASSUME ~Overflows(a * data), data > 0 PROVE v >= a
    <3>1. v = AtMost(a * data) BY <2>1, <2>2 DEF Product
    <3>2. a * data \in Nat /\ a * data >= a
      <4>1. a * data = a * (data - 1) + a BY <1>1
      <4>2. a * (data - 1) \in Nat /\ a * data \in Nat BY <1>1, <2>2
      <4> HIDE <2>1, <3>1
      <4> QED BY <1>1, <4>1, <4>2
    <3> QED BY <1>1, <3>1, <3>2 DEF AtMost
  <2>3. ASSUME ~Overflows(a * data), data = 0 PROVE v = 0
    <3>1. v = AtMost(a * data) BY <2>1, <2>3 DEF Product
    <3>2. a * data = 0 BY <1>1, <2>3
    <3> QED BY <1>1, <3>1, <3>2 DEF AtMost
  <2> QED BY <1>2, <1>6, <2>2, <2>3 DEF Ranges
<1>7. CASE op = 6
  <2>1. v = IF data # 0 THEN a \div data ELSE Words - 1 BY <1>7 DEF SetValues
  <2>2. data > 0 => a \div data <= a BY <1>1
  <2>3. (data > 0 => v <= a) /\ (data = 0 => v = Words - 1) BY <1>1, <2>1, <2>2
  <2> QED BY <1>2, <1>7, <2>3 DEF Ranges
<1>8. CASE op = 7
  <2>1. v = IF data # 0 THEN a % data ELSE Words - 1 BY <1>8 DEF SetValues
  <2>2. data > 0 => a % data <= a BY <1>1
  <2>3. (data > 0 => v <= a) /\ (data = 0 => v = Words - 1) BY <1>1, <2>1, <2>2
  <2> QED BY <1>2, <1>8, <2>3 DEF Ranges
<1>9. CASE op = 8
  <2>1. PICK n \in 0..data : v = (1 + n) % Words BY <1>9 DEF SetValues
  <2>2. CASE 1 + n < Words
    <3>1. v = 1 + n BY <1>1, <2>1, <2>2
    <3>2. v \in 1..data + 1 BY <1>1, <3>1
    <3> QED BY <1>2, <1>9, <3>2 DEF Ranges
  <2>3. CASE 1 + n = Words
    <3>1. v = 0 /\ data = Words - 1 BY <1>1, <2>1, <2>3
    <3> QED BY <1>2, <1>9, <3>1 DEF Ranges
  <2> QED BY <1>1, <2>2, <2>3
<1>10. CASE op \notin 1..8
  BY <1>2, <1>10 DEF Ranges
<1> QED BY <1>3, <1>4, <1>5, <1>6, <1>7, <1>8, <1>9, <1>10

LEMMA SetValuesSome ==
  ASSUME NEW op \in 1..8, NEW a \in Word, NEW data \in Word
  PROVE  SetValues(op, a, data) # {}
<1>1. op \in {1, 2} \/ op = 3 \/ op = 4 \/ op = 5 \/ op = 6 \/ op = 7 \/ op = 8
  OBVIOUS
<1>2. CASE op \in {1, 2}
  BY <1>2 DEF SetValues
<1>3. CASE op = 3
  BY <1>3 DEF SetValues
<1>4. CASE op = 4
  BY <1>4 DEF SetValues
<1>5. CASE op = 5
  BY <1>5 DEF SetValues, Product
<1>6. CASE op = 6
  BY <1>6 DEF SetValues
<1>7. CASE op = 7
  BY <1>7 DEF SetValues
<1>8. CASE op = 8
  <2>1. 0 \in 0..data
    BY WordsAssumption DEF Word
  <2>2. (1 + 0) % Words \in SetValues(op, a, data)
    BY <1>8, <2>1 DEF SetValues
  <2> QED BY <2>2
<1> QED BY <1>1, <1>2, <1>3, <1>4, <1>5, <1>6, <1>7, <1>8

(* What the registers s show after a set operation of c on r.              *)
Swaps(c) == c.set = 2 /\ c.src.kind = "gprm" /\ c.reg2 = c.src.n
HasSet(r, s, c) ==
  /\ c.set \in 1..8 => Ranges(c.set, Value(r, c.dst), Eval(r, c.src), Value(s, c.dst))
  /\ Swaps(c) => Value(s, c.dst) = Value(r, c.reg2) /\ Value(s, c.reg2) = Value(r, c.dst)
  /\ \A k \in GPRMs : k = c.dst \/ (c.set = 2 /\ k = c.reg2) \/ Value(s, k) = Value(r, k)
  /\ s.sprm = r.sprm

LEMMA SetOpShows ==
  ASSUME NEW r \in RegisterSet, NEW c \in Command, clock \in Int,
         NEW v \in SetValues(c.set, Value(r, c.dst), Eval(r, c.src))
  PROVE  HasSet(r, SetOp(r, c, v), c)
<1>1. c.set \in 0..15 /\ c.dst \in GPRMs /\ c.reg2 \in GPRMs /\ c.src \in Operand
  BY CommandFields
<1>2. Value(r, c.dst) \in Word /\ Eval(r, c.src) \in Word
  BY <1>1, ValueType, EvalType
<1>3. v \in Word /\ Ranges(c.set, Value(r, c.dst), Eval(r, c.src), v)
  BY <1>1, <1>2, SetValuesInRange
<1> DEFINE s == SetOp(r, c, v)
           t == SetGprm(r, c.reg2, Value(r, c.dst))
<1>4. CASE c.set # 2
  <2>1. s = SetGprm(r, c.dst, v)
    BY <1>4 DEF SetOp
  <2> HIDE DEF s
  <2>2. /\ s.sprm = r.sprm /\ Value(s, c.dst) = v
        /\ \A j \in GPRMs : j # c.dst => Value(s, j) = Value(r, j)
    BY <1>1, <1>3, <2>1, Writes
  <2> QED BY <1>3, <1>4, <2>2 DEF HasSet, Swaps, s
<1>5. CASE c.set = 2
  <2>1. s = SetGprm(t, c.dst, v)
    BY <1>5 DEF SetOp
  <2>2. /\ t \in RegisterSet /\ t.sprm = r.sprm /\ Value(t, c.reg2) = Value(r, c.dst)
        /\ \A j \in GPRMs : j # c.reg2 => Value(t, j) = Value(r, j)
    BY <1>1, <1>2, Writes
  <2> HIDE DEF s, t
  <2>3. /\ s.sprm = t.sprm /\ Value(s, c.dst) = v
        /\ \A j \in GPRMs : j # c.dst => Value(s, j) = Value(t, j)
    BY <1>1, <1>3, <2>1, <2>2, Writes
  <2>4. v = Eval(r, c.src)
    BY <1>3, <1>5 DEF Ranges
  <2>5. ASSUME Swaps(c) PROVE Value(s, c.dst) = Value(r, c.reg2) /\ Value(s, c.reg2) = Value(r, c.dst)
    <3>1. Eval(r, c.src) = Value(r, c.reg2)
      BY <2>5 DEF Swaps, Eval
    <3>2. CASE c.reg2 = c.dst
      BY <2>3, <2>4, <3>1, <3>2
    <3>3. CASE c.reg2 # c.dst
      BY <1>1, <2>2, <2>3, <2>4, <3>1, <3>3
    <3> QED BY <3>2, <3>3
  <2>6. \A k \in GPRMs : k = c.dst \/ k = c.reg2 \/ Value(s, k) = Value(r, k)
    BY <2>2, <2>3
  <2>7. s.sprm = r.sprm
    BY <2>2, <2>3
  <2> QED BY <1>3, <1>5, <2>3, <2>5, <2>6, <2>7 DEF HasSet, s
<1> QED BY <1>4, <1>5

(* The data are read first, which goes unnoticed.                          *)
LEMMA SetResultsShow ==
  ASSUME NEW r \in RegisterSet, NEW c \in Command, Named(c.src), clock \in Int,
         NEW s \in SetResults(r, c, TRUE)
  PROVE  HasSet(r, s, c)
<1> DEFINE w == WriteBack(r, Reads(c.src))
           values == SetValues(c.set, Value(w, c.dst), Eval(w, c.src))
<1>1. c.set \in 0..15 /\ c.dst \in GPRMs /\ c.reg2 \in GPRMs /\ c.src \in Operand
  BY CommandFields
<1>2. /\ w \in RegisterSet /\ w.sprm = r.sprm /\ Eval(w, c.src) = Eval(r, c.src)
      /\ \A k \in GPRMs : Value(w, k) = Value(r, k)
  BY <1>1, ReadsUnnoticed, WriteBackType
<1>3. SetResults(r, c, TRUE) = IF values = {} THEN {w} ELSE {SetOp(w, c, v) : v \in values}
  BY DEF SetResults
<1> HIDE DEF w
<1>4. HasSet(w, s, c) => HasSet(r, s, c)
  BY <1>1, <1>2 DEF HasSet
<1>5. CASE values = {}
  <2>1. s = w BY <1>3, <1>5
  <2>2. c.set \notin 1..8
    BY <1>1, <1>2, <1>5, SetValuesSome, ValueType, EvalType
  <2>3. HasSet(w, w, c)
    BY <2>2 DEF HasSet, Swaps
  <2> QED BY <1>4, <2>1, <2>3
<1>6. CASE values # {}
  <2>1. PICK v \in values : s = SetOp(w, c, v)
    BY <1>3, <1>6
  <2> QED BY <1>2, <1>4, <2>1, SetOpShows
<1> QED BY <1>5, <1>6

LEMMA SetsShow ==
  ASSUME NEW r \in RegisterSet, NEW c \in Command, Named(c.src), clock \in Int,
         c.type = 4 \/ (c.type \in {3, 5, 6} /\ Comparable(c) /\ Holds(r, c)),
         NEW w \in AfterSet(r, c), NEW s \in Executed(w, c)
  PROVE  HasSet(r, s, c)
<1>1. c.set \in 0..15 /\ c.dst \in GPRMs /\ c.reg2 \in GPRMs /\ c.src \in Operand
  BY CommandFields
<1>2. CASE c.type = 4
  <2>a. w \in SetResults(r, c, TRUE)
    BY <1>2 DEF AfterSet
  <2>b. s = Compared(w, c)
    BY <1>2 DEF Executed
  <2>1. w \in SetResults(r, c, TRUE) /\ s = Compared(w, c)
    BY <2>a, <2>b
  <2>2. HasSet(r, w, c) /\ w \in RegisterSet
    BY <1>2, <2>1, SetResultsShow, AfterSetType
  <2>3. s.sprm = w.sprm /\ \A k \in GPRMs : Value(s, k) = Value(w, k)
    BY <2>1, <2>2, ComparedShows
  <2> QED BY <1>1, <2>2, <2>3 DEF HasSet
<1>3. CASE c.type # 4
  <2>1. w = Compared(r, c) /\ Executed(w, c) = SetResults(w, c, Holds(w, c))
    BY <1>3 DEF AfterSet, Executed
  <2>2. /\ w \in RegisterSet /\ w.sprm = r.sprm /\ Eval(w, c.src) = Eval(r, c.src)
        /\ \A k \in GPRMs : Value(w, k) = Value(r, k)
        /\ Holds(w, c)
    BY <1>1, <1>3, <2>1, ComparedShows
  <2>3. Holds(w, c) = TRUE
    BY <2>2, HoldsType
  <2>4. HasSet(w, s, c)
    BY <2>1, <2>2, <2>3, SetResultsShow
  <2> QED BY <1>1, <2>2, <2>4 DEF HasSet
<1> QED BY <1>2, <1>3

(* Sums and products stick at the largest word, differences at zero, swaps *)
(* exchange what registers show, and no other register changes             *)
(* (eval_set_op).                                                          *)
THEOREM SetOperations == Spec => SetsInRange
<1> DEFINE Right ==
       LET c    == Current
           data == Eval(regs, c.src)
           old  == Shown.gprm[c.dst]
           new  == Shown'.gprm[c.dst]
           swaps == c.set = 2 /\ c.src.kind = "gprm" /\ c.reg2 = c.src.n
       IN  /\ c.set = 3 => new >= old /\ new >= data
           /\ c.set = 4 => new <= old /\ (new = 0 \/ new + data = old)
           /\ c.set = 5 => \/ (data > 0 => new >= old) /\ (data = 0 => new = 0)
                           \/ Overflows(old * data)
           /\ c.set \in {6, 7} /\ data > 0 => new <= old
           /\ c.set \in {6, 7} /\ data = 0 => new = Words - 1
           /\ c.set = 8 => new \in 1..data + 1 \/ (data = Words - 1 /\ new = 0)
           /\ swaps => new = Shown.gprm[c.reg2] /\ Shown'.gprm[c.reg2] = old
           /\ \A k \in GPRMs : \/ k = c.dst \/ (c.set = 2 /\ k = c.reg2)
                               \/ Shown'.gprm[k] = Shown.gprm[k]
           /\ Shown'.sprm = Shown.sprm
<1>1. ASSUME TypeOK, [Next]_vars, ~UNCHANGED vars, Runs, SetsRun, Named(Current.src)
      PROVE  Right
  <2>1. Step
    <3>1. ~Finish BY <1>1 DEF Finish, Runs
    <3>2. ~Tick BY <1>1, BoundsAssumption DEF Tick, Runs, TypeOK
    <3> QED BY <1>1, <3>1, <3>2 DEF Next
  <2>2. PICK c \in Command : c = Current
    BY <1>1, <2>1, StepShows
  <2>3. PICK w \in AfterSet(regs, Current) : \E s \in Executed(w, Current) :
          s \in RegisterSet /\ regs' = s
    BY <1>1, <2>1, StepShows
  <2>4. PICK s \in Executed(w, Current) : s \in RegisterSet /\ regs' = s
    BY <2>3
  <2>5. HasSet(regs, s, c)
    BY <1>1, <2>1, <2>2, <2>3, <2>4, StepShows, SetsShow DEF SetsRun
  <2>6. /\ Shown.sprm = regs.sprm /\ \A k \in GPRMs : Shown.gprm[k] = Value(regs, k)
        /\ Shown'.sprm = s.sprm /\ \A k \in GPRMs : Shown'.gprm[k] = Value(s, k)
    BY <1>1, <2>1, <2>4, StepShows, ShownAfter
  <2>7. c.dst \in GPRMs /\ c.reg2 \in GPRMs
    BY CommandFields
  <2>8. /\ Value(regs, c.dst) = Shown.gprm[c.dst] /\ Value(s, c.dst) = Shown'.gprm[c.dst]
        /\ Value(regs, c.reg2) = Shown.gprm[c.reg2] /\ Value(s, c.reg2) = Shown'.gprm[c.reg2]
    BY <2>6, <2>7
  <2>9. c.set \in 1..8 => Ranges(c.set, Shown.gprm[c.dst], Eval(regs, c.src), Shown'.gprm[c.dst])
    BY <2>5, <2>8 DEF HasSet
  <2>10. Swaps(c) => Shown'.gprm[c.dst] = Shown.gprm[c.reg2] /\ Shown'.gprm[c.reg2] = Shown.gprm[c.dst]
    BY <2>5, <2>8 DEF HasSet
  <2>11. \A k \in GPRMs : k = c.dst \/ (c.set = 2 /\ k = c.reg2) \/ Shown'.gprm[k] = Shown.gprm[k]
    BY <2>5, <2>6 DEF HasSet
  <2>12. Shown'.sprm = Shown.sprm
    BY <2>5, <2>6 DEF HasSet
  <2> QED BY <2>2, <2>9, <2>10, <2>11, <2>12 DEF Ranges, Swaps
<1>2. TypeOK /\ [Next]_vars => [Runs /\ SetsRun /\ Named(Current.src) => Right]_vars
  BY <1>1
<1> QED BY <1>2, TypeCorrect, PTL DEF Spec, SetsInRange

-----------------------------------------------------------------------------
(* The end of a block *)

(* What is left to do: the commands that may still be executed, and one    *)
(* step to end the block.                                                  *)
Left == IF result = "running" THEN MaxTotal - total + 1 ELSE 0

(* Whatever the rows a block goes to, each command and the end of it bring *)
(* the end nearer, a second that passes does not take it away, and nothing *)
(* runs behind it.                                                         *)
CountsDown ==
  [][IF result = "running" /\ clock' = clock THEN Left' < Left ELSE Left' = Left]_vars

(* No command holds the block up: one that is due can be executed,          *)
(* whatever its fields, and the end of the block is still to come then.     *)
GoesOn ==
  result = "running" /\ More =>
    /\ Left > 1
    /\ \E w \in AfterSet(regs, Current) : Executed(w, Current) # {}

LEMMA SetResultsSome ==
  ASSUME NEW r, NEW c, NEW cond
  PROVE  SetResults(r, c, cond) # {}
<1> DEFINE w == WriteBack(r, Reads(c.src))
           values == SetValues(c.set, Value(w, c.dst), Eval(w, c.src))
<1>1. SetResults(r, c, cond) = IF ~cond \/ values = {} THEN {w} ELSE {SetOp(w, c, v) : v \in values}
  BY DEF SetResults
<1> HIDE DEF w, values
<1> QED BY <1>1

LEMMA CommandRuns ==
  ASSUME NEW r, NEW c \in Command
  PROVE  \E w \in AfterSet(r, c) : Executed(w, c) # {}
<1>1. AfterSet(r, c) # {} BY SetResultsSome DEF AfterSet
<1>2. PICK w \in AfterSet(r, c) : TRUE BY <1>1
<1>3. c.type \in 0..6 BY CommandFields
<1>4. CASE c.type \in {0, 1, 2, 4}
  <2>1. Executed(w, c) # {} BY <1>4 DEF Executed
  <2> QED BY <2>1
<1>5. CASE c.type \in {3, 5, 6}
  <2>1. Executed(w, c) = SetResults(w, c, Holds(w, c)) BY <1>5 DEF Executed
  <2> QED BY <2>1, SetResultsSome
<1> QED BY <1>3, <1>4, <1>5

(* The argument that a block ends, step by step: a step can be made while  *)
(* the block runs, and no more than MaxTotal + 1 of them can (vmEval_CMD,  *)
(* whose loop counts to 100000 for discs that loop).                       *)
THEOREM BlocksCountDown == Spec => []GoesOn /\ CountsDown
<1>1. ASSUME TypeOK PROVE GoesOn
  <2>1. result = "running" /\ More => Left > 1
    BY <1>1, BoundsAssumption DEF TypeOK, More, Left
  <2>2. More => \E w \in AfterSet(regs, Current) : Executed(w, Current) # {}
    BY <1>1, CurrentType, CommandRuns
  <2> QED BY <2>1, <2>2 DEF GoesOn
<1>2. ASSUME TypeOK, [Next]_vars
      PROVE  [IF result = "running" /\ clock' = clock THEN Left' < Left ELSE Left' = Left]_vars
  <2>1. total \in Int /\ total <= MaxTotal /\ MaxTotal \in Int /\ clock \in Int
    BY <1>2, BoundsAssumption DEF TypeOK
  <2>2. CASE Step
    <3>1. result = "running" /\ clock' = clock BY <2>2 DEF Step
    <3>2. (result' = "link" /\ total' = total) \/ (result' = "running" /\ total' = total + 1)
      BY <2>2 DEF Step, Leave, GoOn
    <3> QED BY <2>1, <3>1, <3>2 DEF Left
  <2>3. CASE Finish BY <2>1, <2>3 DEF Finish, Left
  <2>4. CASE Tick BY <2>1, <2>4 DEF Tick, Left
  <2> QED BY <1>2, <2>2, <2>3, <2>4 DEF Next
<1> QED BY <1>1, <1>2, TypeCorrect, PTL DEF Spec, CountsDown

=============================================================================
