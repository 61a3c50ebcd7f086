------------------------------- MODULE Streams -------------------------------
(***************************************************************************)
(* Which audio and subpicture stream plays (src/src/vm/vm.c), and how the  *)
(* engine announces it (src/src/dvdnav.c).                                 *)
(*                                                                         *)
(* A program chain lists for each logical stream the physical stream that  *)
(* carries it; registers hold the logical streams chosen.  The engine      *)
(* compares registers, not streams, to see whether to announce them again, *)
(* and forgets what it announced when the cell changes.                    *)
(***************************************************************************)
EXTENDS Integers, FiniteSets

CONSTANTS
  Chains,       \* [title, aspect, audio, subp]; 0 is an aspect of 4:3, 3 of 16:9
  AudioRegs,    \* values of AST_REG
  SubpRegs,     \* [n, show] of SPST_REG: the stream and whether to show it
  NrAudio, NrSubp,   \* logical streams of a chain, numbered from 0
  Hidden             \* the bit that is set in the number of a hidden stream

Modes == {"wide", "letterbox", "pan_scan"}
NoStream == -1

(* audio_control: the streams present; subp_control: for each of those the *)
(* stream for 4:3 and for each mode of 16:9.                               *)
Present(control) == DOMAIN control
ASSUME ChainsAssumption ==
  \A c \in Chains :
    /\ c.title \in BOOLEAN /\ c.aspect \in {0, 3}
    /\ Present(c.audio) \subseteq 0..NrAudio - 1 /\ Present(c.subp) \subseteq 0..NrSubp - 1
    /\ \A n \in Present(c.audio) : c.audio[n] \in Nat
    /\ \A n \in Present(c.subp) : c.subp[n] \in [Modes \cup {"full"} -> 0..31]
ASSUME RegsAssumption ==
  AudioRegs \subseteq Nat /\ SubpRegs \subseteq [n : Nat, show : BOOLEAN]
ASSUME NumbersAssumption ==
  NrAudio \in Nat /\ NrSubp \in Nat /\ Hidden \in Nat /\ Hidden > 32

VARIABLES
  chain,     \* the program chain of the machine
  ast, spst, \* AST_REG and SPST_REG
  moved,     \* the cell differs from position_current
  pos,       \* position_current, [audio, subp], NoStream when to be announced
  told       \* the last announcements, [audio, subp]

streamVars == <<chain, ast, spst, moved, pos, told>>

-----------------------------------------------------------------------------
(* vm_get_audio_stream, vm_get_subp_stream: menus know one stream only.    *)
Logical(n) == IF chain.title THEN n ELSE 0
Menu(s) == IF ~chain.title /\ s = NoStream THEN 0 ELSE s
AudioStream(n) ==
  Menu(IF Logical(n) \in Present(chain.audio) THEN chain.audio[Logical(n)] ELSE NoStream)
SubpStream(n, mode) ==
  Menu(IF Logical(n) \in Present(chain.subp)
       THEN chain.subp[Logical(n)][IF chain.aspect = 0 THEN "full" ELSE mode] ELSE NoStream)

(* vm_get_audio_active_stream, vm_get_subp_active_stream: the chosen       *)
(* stream, or the first that exists; hidden ones only force their display. *)
First(S) == CHOOSE n \in S : \A m \in S : n <= m
ActiveAudio ==
  IF AudioStream(ast) = NoStream /\ Present(chain.audio) # {}
  THEN AudioStream(First(Present(chain.audio))) ELSE AudioStream(ast)

ActiveSubp(mode) ==
  LET s == IF SubpStream(spst.n, mode) = NoStream /\ Present(chain.subp) # {}
           THEN SubpStream(First(Present(chain.subp)), mode) ELSE SubpStream(spst.n, mode)
  IN  IF chain.title /\ ~spst.show /\ s # NoStream THEN s + Hidden ELSE s

(* dvdnav_get_active_spu_stream returns it in 8 bits, with a sign. *)
AsInt8(s) == IF s >= Hidden THEN s - 2 * Hidden ELSE s
ActiveSubpQuery == AsInt8(ActiveSubp("wide"))

-----------------------------------------------------------------------------
(* The machine: a jump, SetSTN. *)
Jump(c) ==
  /\ chain' = c /\ moved' = TRUE
  /\ UNCHANGED <<ast, spst, pos, told>>
SetAudio(n) ==
  /\ ast' = n
  /\ UNCHANGED <<chain, spst, moved, pos, told>>
SetSubp(r) ==
  /\ spst' = r
  /\ UNCHANGED <<chain, ast, moved, pos, told>>

(* The engine: a new cell, or VTS, and the streams in this order. *)
Forgotten == [audio |-> NoStream, subp |-> [n |-> NoStream, show |-> FALSE]]
(* Mutant: the audio stream is not announced again. *)
CellChangeSubpOnly ==
  /\ moved /\ moved' = FALSE
  /\ pos' = [pos EXCEPT !.subp = Forgotten.subp]
  /\ UNCHANGED <<chain, ast, spst, told>>

CellChange ==
  /\ moved /\ moved' = FALSE
  /\ pos' = Forgotten
  /\ UNCHANGED <<chain, ast, spst, told>>

SubpChange ==
  /\ ~moved /\ pos.subp # spst
  /\ pos' = [pos EXCEPT !.subp = spst]
  /\ told' = [told EXCEPT !.subp = [mode \in Modes |-> ActiveSubp(mode)]]
  /\ UNCHANGED <<chain, ast, spst, moved>>

AudioChange ==
  /\ ~moved /\ pos.subp = spst /\ pos.audio # ast
  /\ pos' = [pos EXCEPT !.audio = ast]
  /\ told' = [told EXCEPT !.audio = ActiveAudio]
  /\ UNCHANGED <<chain, ast, spst, moved>>

StreamsInit ==
  /\ chain \in Chains /\ ast \in AudioRegs /\ spst \in SubpRegs
  /\ moved = TRUE /\ pos = Forgotten
  /\ told = [audio |-> NoStream, subp |-> [mode \in Modes |-> NoStream]]

StreamsNext ==
  \/ \E c \in Chains : Jump(c)
  \/ \E n \in AudioRegs : SetAudio(n)
  \/ \E r \in SubpRegs : SetSubp(r)
  \/ CellChange \/ SubpChange \/ AudioChange

StreamsSpec == StreamsInit /\ [][StreamsNext]_streamVars

-----------------------------------------------------------------------------
(* Properties *)

(* When stream data are handed out, the streams last announced are ones    *)
(* the chain has, and those chosen where it has them, though chains with   *)
(* other streams were entered and the registers named missing ones since;  *)
(* a hidden stream is announced as such, and no stream exactly when a      *)
(* title has none, hidden or not.  The query agrees, but gives a hidden    *)
(* stream as a negative number.                                            *)
Settled == ~moved /\ pos = [audio |-> ast, subp |-> spst]
AudioPlays(s) ==
  IF Present(chain.audio) = {} THEN s = IF chain.title THEN NoStream ELSE 0
  ELSE \/ s \in {chain.audio[n] : n \in Present(chain.audio)}
          /\ (chain.title /\ ast \in Present(chain.audio) => s = chain.audio[ast])
       \/ ~chain.title /\ 0 \notin Present(chain.audio) /\ s = 0
SubpPlays(s, mode) ==
  LET of(n) == chain.subp[n][IF chain.aspect = 3 THEN mode ELSE "full"]
  IN  IF Present(chain.subp) = {} THEN s = IF chain.title THEN NoStream ELSE 0
      ELSE \/ s % Hidden \in {of(n) : n \in Present(chain.subp)}
              /\ (s >= Hidden <=> chain.title /\ ~spst.show)
              /\ (chain.title /\ spst.n \in Present(chain.subp) => s % Hidden = of(spst.n))
           \/ ~chain.title /\ 0 \notin Present(chain.subp) /\ s = 0
StreamsCurrent ==
  Settled =>
    /\ AudioPlays(told.audio)
    /\ \A mode \in Modes : SubpPlays(told.subp[mode], mode)
    /\ ActiveSubpQuery = NoStream <=> told.subp["wide"] = NoStream
    /\ ActiveSubpQuery < NoStream => told.subp["wide"] >= Hidden

=============================================================================
