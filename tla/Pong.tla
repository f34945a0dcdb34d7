--------------------------------- MODULE Pong ---------------------------------
(***************************************************************************)
(* The pong game of src/game.c: the ball, the player's and the machine's   *)
(* paddles, and the loop that reads every waiting key before each tick.    *)
(* An Esc ends the key loop, yet the tick of that pass is still played.    *)
(***************************************************************************)
EXTENDS Integers

CONSTANTS
  PONG_W, PONG_H,        \* VIDEO_WIDTH, VIDEO_HEIGHT
  PONG_PAD_W, PONG_PAD_H,
  PONG_PAD_X_L,          \* left edge of the left paddle, the same gap on the right
  PONG_BALL_SZ, PONG_SPEED,
  PONG_TOP, PONG_BOT,
  PONG_KEY_STEP,         \* 8: what one key moves the player's paddle
  PONG_AI_STEP,          \* 2: what one tick moves the machine's paddle
  PongScores             \* bound: the scores, only printed, are kept modulo this

PONG_PAD_X_R == PONG_W - PONG_PAD_X_L - PONG_PAD_W
PongMiddle(length, part) == length \div 2 - part \div 2

ASSUME PongAssumption ==
  /\ PONG_TOP + 2 >= PONG_KEY_STEP
  /\ PONG_BOT + PONG_KEY_STEP <= PONG_H + 3
  /\ PONG_TOP + PONG_PAD_H + 6 < PONG_BOT
  /\ PONG_BALL_SZ + PONG_SPEED < PONG_PAD_X_R - PONG_PAD_X_L - PONG_PAD_W
  /\ {PONG_W, PONG_H, PONG_PAD_W, PONG_PAD_H, PONG_PAD_X_L, PONG_BALL_SZ, PONG_SPEED, PONG_TOP,
      PONG_BOT, PONG_KEY_STEP, PONG_AI_STEP, PongScores} \subseteq Nat \ {0}
  /\ PONG_AI_STEP <= PONG_KEY_STEP
  /\ PONG_PAD_X_L + PONG_PAD_W <= PongMiddle(PONG_W, PONG_BALL_SZ)       \* where a ball is served
  /\ PongMiddle(PONG_W, PONG_BALL_SZ) + PONG_BALL_SZ <= PONG_PAD_X_R
  /\ PONG_TOP <= PongMiddle(PONG_H, PONG_BALL_SZ)
  /\ PongMiddle(PONG_H, PONG_BALL_SZ) + PONG_BALL_SZ <= PONG_BOT

VARIABLE pong

PongServe(p, vx) ==
  [p EXCEPT !.bx = PongMiddle(PONG_W, PONG_BALL_SZ), !.by = PongMiddle(PONG_H, PONG_BALL_SZ),
            !.vx = vx, !.vy = 1]

PongOff ==
  PongServe([mode |-> "prompt", bx |-> 0, by |-> 0, vx |-> 0, vy |-> 0,
             ly |-> PongMiddle(PONG_H, PONG_PAD_H), ry |-> PongMiddle(PONG_H, PONG_PAD_H),
             score_l |-> 0, score_r |-> 0], PONG_SPEED)

PongInit == pong = PongOff

pong_init ==
  /\ pong.mode = "prompt"
  /\ pong' = [PongOff EXCEPT !.mode = "play"]

(* W or the up arrow, S or the down arrow.                                 *)
pong_key ==
  /\ pong.mode = "play"
  /\ \/ /\ pong.ly > PONG_TOP + 2
        /\ pong' = [pong EXCEPT !.ly = @ - PONG_KEY_STEP]
     \/ /\ pong.ly + PONG_PAD_H < PONG_BOT - 2
        /\ pong' = [pong EXCEPT !.ly = @ + PONG_KEY_STEP]

(* The parts of pong_tick, in its order, each from the ball the one before *)
(* it left.                                                                *)
PongMove(p) == [p EXCEPT !.bx = @ + p.vx, !.by = @ + p.vy]

PongTopWall(p) == IF p.by <= PONG_TOP THEN [p EXCEPT !.by = PONG_TOP, !.vy = -@] ELSE p

PongBottomWall(p) ==
  IF p.by + PONG_BALL_SZ >= PONG_BOT
  THEN [p EXCEPT !.by = PONG_BOT - PONG_BALL_SZ, !.vy = -@] ELSE p

PongMeets(p, y) == p.by + PONG_BALL_SZ >= y /\ p.by <= y + PONG_PAD_H

BadPongLeftPad(p) ==      \* the ball turns where it is, not at the paddle's edge
  IF p.bx <= PONG_PAD_X_L + PONG_PAD_W /\ PongMeets(p, p.ly)
  THEN [p EXCEPT !.vx = -@] ELSE p

PongLeftPad(p) ==
  IF p.bx <= PONG_PAD_X_L + PONG_PAD_W /\ PongMeets(p, p.ly)
  THEN [p EXCEPT !.bx = PONG_PAD_X_L + PONG_PAD_W, !.vx = -@] ELSE p

PongRightPad(p) ==
  IF p.bx + PONG_BALL_SZ >= PONG_PAD_X_R /\ PongMeets(p, p.ry)
  THEN [p EXCEPT !.bx = PONG_PAD_X_R - PONG_BALL_SZ, !.vx = -@] ELSE p

PongOutLeft(p) ==
  IF p.bx < 0
  THEN PongServe([p EXCEPT !.score_r = (@ + 1) % PongScores], PONG_SPEED) ELSE p

PongOutRight(p) ==
  IF p.bx + PONG_BALL_SZ > PONG_W
  THEN PongServe([p EXCEPT !.score_l = (@ + 1) % PongScores], -PONG_SPEED) ELSE p

PongFollow(p) ==
  LET ball == p.by + PONG_BALL_SZ \div 2
      half == PONG_PAD_H \div 2
      down == IF p.ry + half < ball /\ p.ry + PONG_PAD_H < PONG_BOT - 2
              THEN p.ry + PONG_AI_STEP ELSE p.ry
  IN  [p EXCEPT !.ry = IF down + half > ball /\ down > PONG_TOP + 2
                       THEN down - PONG_AI_STEP ELSE down]

(* esc: the key loop of this pass ended with Esc.                          *)
pong_tick(esc) ==
  /\ pong.mode = "play"
  /\ LET p == PongFollow(PongOutRight(PongOutLeft(PongRightPad(PongLeftPad(
                PongBottomWall(PongTopWall(PongMove(pong))))))))
     IN  pong' = [p EXCEPT !.mode = IF esc THEN "over" ELSE @]

pong_leave ==
  /\ pong.mode = "over"
  /\ pong' = PongOff

PongNext == pong_init \/ pong_key \/ (\E esc \in BOOLEAN : pong_tick(esc)) \/ pong_leave

(* The types, part of the invariant below.                                 *)
PongTypeOK ==
  /\ pong.mode \in {"prompt", "play", "over"}
  /\ pong.vx \in {PONG_SPEED, -PONG_SPEED}
  /\ pong.vy \in {1, -1}
  /\ pong.score_l \in 0..PongScores - 1 /\ pong.score_r \in 0..PongScores - 1
-------------------------------------------------------------------------------
(* The rectangles pong_draw paints lie on the screen, and a ball that got  *)
(* behind a paddle's edge keeps going: it never turns inside or behind a   *)
(* paddle, so no rally can shake between the two sides of one paddle,      *)
(* whenever the player moves a paddle onto it.                             *)
PongInPlay ==
  /\ PongTypeOK
  /\ pong.bx >= 0 /\ pong.bx + PONG_BALL_SZ <= PONG_W
  /\ pong.by >= PONG_TOP /\ pong.by + PONG_BALL_SZ <= PONG_BOT
  /\ \A y \in {pong.ly, pong.ry} : y >= 0 /\ y + PONG_PAD_H <= PONG_H
  /\ pong.bx < PONG_PAD_X_L + PONG_PAD_W => pong.vx < 0
  /\ pong.bx + PONG_BALL_SZ > PONG_PAD_X_R => pong.vx > 0
===============================================================================
