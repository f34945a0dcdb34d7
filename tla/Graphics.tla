------------------------------- MODULE Graphics -------------------------------
(***************************************************************************)
(* src/graphics.c: the bouncing boxes of the demo, whose coordinates are   *)
(* unsigned words, with draw_rectangle and set_pixel, and the Bresenham    *)
(* loop of draw_line.  One axis of one box is a record [at, size, v]; the  *)
(* two axes of a box never look at each other.  Colours are left out.      *)
(***************************************************************************)
EXTENDS Integers

CONSTANTS
  VIDEO_WIDTH, VIDEO_HEIGHT,
  WORD,               \* 2^32: the words wrap at this, scaled down
  DemoFrames,         \* 2000: frames of one run of the demo
  LineSide            \* bound: lines are drawn between points of 0..LineSide squared

ASSUME GraphicsAssumption ==
  /\ {VIDEO_WIDTH, VIDEO_HEIGHT, DemoFrames, LineSide} \subseteq Nat \ {0}
  /\ WORD \in Nat /\ WORD > 2 * VIDEO_WIDTH /\ WORD > 2 * VIDEO_HEIGHT
  /\ VIDEO_WIDTH > 160 /\ VIDEO_HEIGHT > 120       \* the five boxes start on the screen

VARIABLES
  demo,    \* the demo: running, objects and frame count
  line     \* the locals of draw_line while it runs

Axis == {"x", "y"}
Screen == [x |-> VIDEO_WIDTH, y |-> VIDEO_HEIGHT]
OBJECTS == 5

(* i & 1 and (i >> 1) & 1 give the speeds.                                 *)
DemoObject(i) ==
  [x |-> [at |-> 40 + i * 25, size |-> 12 + i * 2, v |-> 1 + (i % 2)],
   y |-> [at |-> 40 + i * 15, size |-> 12 + i * 2, v |-> 1 + ((i \div 2) % 2)]]

init_graphics_demo ==
  [running |-> TRUE, frame |-> 0, objects |-> [i \in 0..OBJECTS - 1 |-> DemoObject(i)]]

BadMoveObject(o, side) ==   \* turns only once it is off the screen
  LET at == (o.at + o.v) % WORD
  IN  [o EXCEPT !.at = at, !.v = IF at <= 0 \/ at >= side THEN -@ ELSE @]

(* at <= 0 is at = 0 for a word; an object that steps over 0 is turned     *)
(* back by the test of the far edge.                                       *)
MoveObject(o, side) ==
  LET at == (o.at + o.v) % WORD
  IN  [o EXCEPT !.at = at, !.v = IF at <= 0 \/ at >= side - o.size THEN -@ ELSE @]

(* The last of the coordinates, from o.at on, that draw_rectangle's loop   *)
(* and set_pixel's test let through.                                       *)
PaintedTo(o, side) ==
  LET end == (o.at + o.size) % WORD IN (IF end < side THEN end ELSE side) - 1

DemoInit == demo = init_graphics_demo

(* One pass of the loop of run_graphics_demo; key: a key was waiting.      *)
DemoFrame(key) ==
  /\ demo.running /\ demo.frame < DemoFrames
  /\ demo' = [demo EXCEPT
                !.frame = @ + 1,
                !.running = ~key,
                !.objects = [i \in DOMAIN @ |-> [a \in Axis |-> MoveObject(@[i][a], Screen[a])]]]

(* The demo command, and init_game_system, set the boxes up again.         *)
DemoAgain ==
  /\ ~demo.running \/ demo.frame = DemoFrames
  /\ demo' = init_graphics_demo

DemoNext == (\E key \in BOOLEAN : DemoFrame(key)) \/ DemoAgain

Abs(n) == IF n < 0 THEN -n ELSE n
Sign(n) == IF n < 0 THEN -1 ELSE 1

NoLine == [on |-> FALSE]
LineInit == line = NoLine

BadLineErr(long) == 0       \* the error does not start half way

LineErr(long) == long \div 2

draw_line(x1, y1, x2, y2) ==
  /\ ~line.on
  /\ LET ax == Abs(x2 - x1)  ay == Abs(y2 - y1)
     IN  line' = [on |-> TRUE, x |-> x1, y |-> y1, x1 |-> x1, y1 |-> y1, x2 |-> x2, y2 |-> y2,
                  ax |-> ax, ay |-> ay, err |-> LineErr(IF ax > ay THEN ax ELSE ay)]

LineAtEnd == IF line.ax > line.ay THEN line.x = line.x2 ELSE line.y = line.y2

(* One pass of either loop: a pixel is set, and then one step is taken     *)
(* along the longer side, and sometimes one along the other.               *)
LinePixel ==
  /\ line.on /\ ~LineAtEnd
  /\ LET sx == Sign(line.x2 - line.x1)  sy == Sign(line.y2 - line.y1)
         flat  == line.ax > line.ay
         short == IF flat THEN line.ay ELSE line.ax
         long  == IF flat THEN line.ax ELSE line.ay
         both  == line.err - short < 0
     IN  line' = [line EXCEPT
                    !.err = @ - short + (IF both THEN long ELSE 0),
                    !.x = IF flat \/ both THEN @ + sx ELSE @,
                    !.y = IF ~flat \/ both THEN @ + sy ELSE @]

LineDone ==
  /\ line.on /\ LineAtEnd
  /\ line' = NoLine

LineNext ==
  \/ \E x1, y1, x2, y2 \in 0..LineSide : draw_line(x1, y1, x2, y2)
  \/ LinePixel \/ LineDone
-------------------------------------------------------------------------------
(* A box is painted whole or, for the one frame after it stepped over 0,   *)
(* not at all, or at most one step of it is cut off at the far edge; and   *)
(* whenever it is not whole it is already on its way back, so no box is    *)
(* lost to the wrap of its unsigned coordinates.                           *)
BoxComesBack ==
  \A i \in DOMAIN demo.objects, a \in Axis :
    LET o == demo.objects[i][a]
        to == PaintedTo(o, Screen[a])
    IN  \/ to = o.at + o.size - 1
        \/ to < o.at /\ o.v > 0 /\ (o.at + o.v) % WORD \in 0..Screen[a] - o.size
        \/ o.at + o.size - Screen[a] \in 1..2 /\ o.v < 0

(* draw_line ends on the end point, not beside it, and every pixel it sets *)
(* is a pixel nearest to the line: at most half a pixel off along the      *)
(* shorter side.                                                           *)
LineTracks ==
  line.on =>
    /\ LineAtEnd => line.x = line.x2 /\ line.y = line.y2
    /\ 2 * Abs((line.x - line.x1) * (line.y2 - line.y1) - (line.y - line.y1) * (line.x2 - line.x1))
         <= (IF line.ax > line.ay THEN line.ax ELSE line.ay)
===============================================================================
