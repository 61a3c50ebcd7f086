------------------------------- MODULE Buttons -------------------------------
(***************************************************************************)
(* The buttons of a menu (src/src/highlight.c): selecting them by number,  *)
(* with the arrow keys or the mouse, and pressing them.                    *)
(*                                                                         *)
(* The application passes the highlight information (pci_t) of a screen,   *)
(* the one the engine holds or an older copy.  Which button is current is  *)
(* a register of the machine that commands may set to anything.  Races of  *)
(* these calls with the engine are in Player; here each is one step.       *)
(***************************************************************************)
EXTENDS Integers, Sequences, FiniteSets

CONSTANTS
  Screens,    \* [lbn, buttons], NAV packets with a menu
  Strays,     \* what a button number out of range may find in memory
  Links,      \* button numbers commands put in the register
  Points,     \* <<x, y>>, places of the mouse
  Dist,       \* the distance no button reaches
  Nothing     \* no screen left, nothing executed

Directions == {"up", "down", "left", "right"}
Cmd == [jump : BOOLEAN, hl : Links \cup {-1}]

BtniType ==
  [up : 0..63, down : 0..63, left : 0..63, right : 0..63, auto : BOOLEAN, cmd : Cmd,
   x : Nat \X Nat, y : Nat \X Nat]

ASSUME ScreensAssumption == Screens \subseteq [lbn : Nat, buttons : Seq(BtniType)]
ASSUME LinksAssumption == Links \subseteq 0..63
ASSUME MouseAssumption == Points \subseteq Int \X Int /\ Dist \in Nat
ASSUME NothingAssumption ==
  \A p \in Screens : \A n \in DOMAIN p.buttons : Nothing # [screen |-> p, button |-> n]

VARIABLES
  screen,     \* this->pci
  hl,         \* HL_BTNN_REG >> 10
  shown,      \* position_current.button
  still,      \* position_current.still
  left,       \* last_cmd_nav_lbn
  gone,       \* history: lbns of screens left since their NAV packet was read,
              \* none once an older copy of a screen was left
  ran         \* history: the screen and button whose command the call executed

buttonVars == <<screen, hl, shown, still, left, gone, ran>>

-----------------------------------------------------------------------------
(* The calls, as functions of the state s = [hl, shown, still, left, ran]. *)

Now == [hl |-> hl, shown |-> shown, still |-> still, left |-> left, ran |-> Nothing]
Becomes(s) ==
  /\ hl' = s.hl /\ shown' = s.shown /\ still' = s.still /\ left' = s.left /\ ran' = s.ran
  /\ gone' = IF s.left = left THEN gone ELSE IF s.left = screen.lbn THEN gone \cup {s.left} ELSE {}
  /\ UNCHANGED screen

Exists(p, n) == n \in DOMAIN p.buttons
(* get_current_button looks a number up without comparing it to btn_ns. *)
Found(p, n) == IF Exists(p, n) THEN {p.buttons[n]} ELSE Strays
Left(s, p) == s.left = p.lbn

(* dvdnav_button_select *)
Selected(s, p, n) ==
  IF Left(s, p) \/ ~Exists(p, n) THEN s ELSE [s EXCEPT !.hl = n, !.shown = -1]

(* vm_exec_cmd: the command may set the register; it leaves the screen     *)
(* when it jumps.                                                          *)
Executed(s, p, c) ==
  LET t == [s EXCEPT !.hl = IF c.hl = -1 THEN @ ELSE c.hl, !.ran = [screen |-> p, button |-> s.hl]]
  IN  IF c.jump THEN [t EXCEPT !.still = FALSE, !.left = p.lbn] ELSE t

(* Mutant: the current button is not compared to btn_ns. *)
ActivatedUnchecked(s, p) ==
  IF Left(s, p) THEN {s} ELSE {Executed(s, p, b.cmd) : b \in Found(p, s.hl)}

(* dvdnav_button_activate: without a button it only ends a still. *)
Activated(s, p) ==
  CASE Left(s, p) -> {s}
    [] ~Left(s, p) /\ ~Exists(p, s.hl)
         -> {IF s.still THEN [s EXCEPT !.still = FALSE, !.left = p.lbn] ELSE s}
    [] ~Left(s, p) /\ Exists(p, s.hl) -> {Executed(s, p, p.buttons[s.hl].cmd)}

(* button_auto_action *)
AutoAction(s, p) ==
  IF Left(s, p) THEN {s}
  ELSE UNION {IF b.auto THEN Activated(s, p) ELSE {s} : b \in Found(p, s.hl)}

(* dvdnav_mouse_select: the loop over the buttons keeps the best so far.   *)
Within(b, at) == /\ b.x[1] <= at[1] /\ at[1] <= b.x[2]
                 /\ b.y[1] <= at[2] /\ at[2] <= b.y[2]
Sq(n) == n * n
Distance(b, at) == Sq((b.x[1] + b.x[2]) \div 2 - at[1]) + Sq((b.y[1] + b.y[2]) \div 2 - at[2])
BestButton(p, at) ==
  LET best[n \in 0..Len(p.buttons)] ==
        IF n = 0 THEN [n |-> 0, dist |-> Dist]
        ELSE LET d == Distance(p.buttons[n], at) IN
             IF Within(p.buttons[n], at) /\ d < best[n - 1].dist
             THEN [n |-> n, dist |-> d] ELSE best[n - 1]
  IN  best[Len(p.buttons)].n

-----------------------------------------------------------------------------
(* Calls of the application *)

(* dvdnav_upper_button_select and its like: the neighbour of the current   *)
(* button is selected, if it exists, and whichever is current now acts.    *)
Key(p, dir) ==
  /\ ~Left(Now, p)
  /\ \E b \in Found(p, hl) : \E s \in AutoAction(Selected(Now, p, b[dir]), p) : Becomes(s)

(* dvdnav_button_select, dvdnav_button_activate, and one after the other.  *)
Select(p, n) == Becomes(Selected(Now, p, n))
Activate(p) == \E s \in Activated(Now, p) : Becomes(s)
SelectAndActivate(p, n) ==
  /\ ~Left(Now, p) /\ Exists(p, n)
  /\ \E s \in Activated(Selected(Now, p, n), p) : Becomes(s)

(* dvdnav_mouse_select and dvdnav_mouse_activate; the button under the     *)
(* mouse is selected when it is not the current one.                       *)
Mouse(p, at, press) ==
  LET n == BestButton(p, at)
      s == IF n # hl THEN Selected(Now, p, n) ELSE Now
  IN  /\ ~Left(Now, p) /\ n # 0
      /\ IF press THEN \E t \in Activated(s, p) : Becomes(t) ELSE Becomes(s)

(* dvdnav_button_activate_cmd: any number for a button, any command.       *)
ActivateCmd(n, c) ==
  Becomes([Now EXCEPT !.hl = IF n > 0 THEN IF c.hl = -1 THEN n % 64 ELSE c.hl ELSE @,
                      !.still = FALSE])

(* The engine: a command in the stream or of a program chain sets the      *)
(* register, the highlight is announced, a cell ends with a still, the NAV *)
(* packet of a screen is read.                                             *)
LinkHl(n) ==
  /\ hl' = n /\ ran' = Nothing
  /\ UNCHANGED <<screen, shown, still, left, gone>>
Announce ==
  /\ shown # hl /\ shown' = hl /\ ran' = Nothing
  /\ UNCHANGED <<screen, hl, still, left, gone>>
EndsStill ==
  /\ still' = TRUE /\ ran' = Nothing
  /\ UNCHANGED <<screen, hl, shown, left, gone>>
ReadNav(p) ==
  /\ screen' = p /\ ran' = Nothing
  /\ left' = IF left = p.lbn THEN Nothing ELSE left
  /\ gone' = gone \ {p.lbn}
  /\ UNCHANGED <<hl, shown, still>>

ButtonsInit ==
  /\ screen \in Screens
  /\ hl = 1 /\ shown = 0 /\ still = FALSE /\ left = Nothing
  /\ gone = {} /\ ran = Nothing

ButtonsNext ==
  \/ \E p \in Screens, dir \in Directions : Key(p, dir)
  \/ \E p \in Screens, n \in Links : Select(p, n)
  \/ \E p \in Screens : Activate(p)
  \/ \E p \in Screens, n \in Links : SelectAndActivate(p, n)
  \/ \E p \in Screens, at \in Points, press \in BOOLEAN : Mouse(p, at, press)
  \/ \E n \in Links, c \in Cmd : ActivateCmd(n, c)
  \/ \E n \in Links : LinkHl(n)
  \/ Announce \/ EndsStill
  \/ \E p \in Screens : ReadNav(p)

ButtonsSpec == ButtonsInit /\ [][ButtonsNext]_buttonVars

-----------------------------------------------------------------------------
(* Properties *)

(* Whatever number commands left in the register, keys and presses execute *)
(* the commands of buttons that exist, and keys select only such; a key    *)
(* from a number out of range goes nowhere in particular.  A screen that   *)
(* was left is not pressed again before its NAV packet is read again, if   *)
(* the application leaves no older copy of a screen in between: the engine *)
(* remembers one screen only.  The mouse selects a button under it whose   *)
(* centre is the closest, the first one of several.                        *)
PressesExisting ==
  /\ ran' # Nothing => Exists(ran'.screen, ran'.button)
  /\ ran' # Nothing /\ ran'.screen = screen => screen.lbn \notin gone
KeysReachExisting ==
  hl' # hl /\ ran' = Nothing =>
    \A p \in Screens, dir \in Directions : Key(p, dir) => Exists(p, hl')
MouseTakesClosest ==
  hl' # hl /\ shown' = -1 =>
    \A p \in Screens, at \in Points :
      LET under == {n \in DOMAIN p.buttons : Within(p.buttons[n], at)}
          d(n) == Distance(p.buttons[n], at)
      IN  Mouse(p, at, FALSE) =>
            /\ hl' \in under
            /\ \A n \in under : d(hl') < d(n) \/ (d(hl') = d(n) /\ hl' <= n)
ButtonsObey == [][PressesExisting /\ KeysReachExisting /\ MouseTakesClosest]_buttonVars

=============================================================================
