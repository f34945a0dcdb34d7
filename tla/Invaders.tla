------------------------------- MODULE Invaders -------------------------------
(***************************************************************************)
(* The space invaders game of src/game.c.  si.aliens is the set of living  *)
(* aliens <<column, row>>.  si_bullet_y keeps falling while no bullet      *)
(* flies, but it is read only while one does: si.bullet is NoBullet then.  *)
(* An Esc ends the key loop, yet the tick of that pass is still played.    *)
(***************************************************************************)
EXTENDS Integers, FiniteSets, FiniteSetsExt

CONSTANTS
  SI_W, SI_H,                \* VIDEO_WIDTH, VIDEO_HEIGHT
  SI_ALIEN_COLS, SI_ALIEN_ROWS, SI_ALIEN_W, SI_ALIEN_H, SI_ALIEN_OX, SI_ALIEN_OY,
  SI_ALIEN_SPD,
  SI_ALIEN_TICKS,            \* 25: ticks between two moves of the aliens
  SI_PLAYER_W, SI_PLAYER_H,
  SI_PLAYER_STEP,            \* 8: what a key moves the player
  SI_MARGIN,                 \* 5: the margin of the keys' guards and of the bottom line
  SI_BULLET_W, SI_BULLET_H, SI_BULLET_SPD,
  SI_ALIEN_DROP              \* 12: how far the aliens come down at an edge

ASSUME InvadersAssumption ==
  /\ {SI_ALIEN_COLS, SI_ALIEN_ROWS, SI_ALIEN_TICKS, SI_ALIEN_SPD, SI_BULLET_SPD} \subseteq Nat \ {0}
  /\ {SI_W, SI_H, SI_ALIEN_W, SI_ALIEN_H, SI_ALIEN_OX, SI_ALIEN_OY, SI_PLAYER_W, SI_PLAYER_H,
      SI_PLAYER_STEP, SI_MARGIN, SI_BULLET_W, SI_BULLET_H, SI_ALIEN_DROP} \subseteq Nat
  /\ SI_ALIEN_OY + SI_ALIEN_H < SI_H - SI_PLAYER_H - SI_MARGIN
  /\ SI_ALIEN_OX > SI_ALIEN_SPD
  /\ SI_ALIEN_OX + SI_ALIEN_COLS * (SI_ALIEN_W + 2) + SI_ALIEN_SPD < SI_W

VARIABLE si

SiAliens == (0..SI_ALIEN_COLS - 1) \X (0..SI_ALIEN_ROWS - 1)
NoBullet == <<>>

SiX(s, a) == SI_ALIEN_OX + s.ox + a[1] * (SI_ALIEN_W + 2)
SiY(s, a) == SI_ALIEN_OY + s.oy + a[2] * (SI_ALIEN_H + 2)
SiLine == SI_H - SI_PLAYER_H - SI_MARGIN      \* where the aliens win

SiOff == [mode |-> "prompt", px |-> SI_W \div 2 - SI_PLAYER_W \div 2, dx |-> SI_ALIEN_SPD,
          ox |-> 0, oy |-> 0, tick |-> 0, aliens |-> SiAliens, bullet |-> NoBullet,
          score |-> 0, quit |-> FALSE, win |-> FALSE]

SiInit == si = SiOff

space_invaders_init ==
  /\ si.mode = "prompt"
  /\ si' = [SiOff EXCEPT !.mode = "play"]

SiLeft ==
  /\ si.mode = "play" /\ si.px > SI_MARGIN
  /\ si' = [si EXCEPT !.px = @ - SI_PLAYER_STEP]

SiRight ==
  /\ si.mode = "play" /\ si.px + SI_PLAYER_W < SI_W - SI_MARGIN
  /\ si' = [si EXCEPT !.px = @ + SI_PLAYER_STEP]

si_fire ==
  /\ si.mode = "play" /\ si.bullet = NoBullet
  /\ si' = [si EXCEPT !.bullet = <<si.px + SI_PLAYER_W \div 2 - SI_BULLET_W \div 2,
                                   SI_H - SI_PLAYER_H - SI_BULLET_H>>]

SiHit(s, a) ==
  LET bx == s.bullet[1] + SI_BULLET_W \div 2
      by == s.bullet[2] + SI_BULLET_H \div 2
  IN  /\ SiX(s, a) <= bx /\ bx < SiX(s, a) + SI_ALIEN_W
      /\ SiY(s, a) <= by /\ by < SiY(s, a) + SI_ALIEN_H

(* The bullet flies on, and takes the first alien of the columns, each     *)
(* from the top, that it is on; two aliens are never on one point.         *)
SiBulletStep(s) ==
  LET up   == [s EXCEPT !.bullet[2] = @ - SI_BULLET_SPD]
      hits == {a \in s.aliens : SiHit(up, a)}
  IN  IF s.bullet = NoBullet THEN s
      ELSE IF up.bullet[2] < 0 THEN [s EXCEPT !.bullet = NoBullet]
      ELSE IF hits = {} THEN up
      ELSE [s EXCEPT !.aliens = @ \ hits, !.score = @ + 10, !.bullet = NoBullet]

(* The bottom line is held against the lowest alien of the first column    *)
(* that has one, and against no other.                                     *)
SiLanded(s) ==
  LET col == {a \in s.aliens : \A b \in s.aliens : a[1] <= b[1]}
  IN  \E a \in col : (\A b \in col : b[2] <= a[2]) /\ SiY(s, a) + SI_ALIEN_H >= SiLine

BadSiBlocked(s) ==    \* looks at where the aliens are, not at where they would go
  \/ s.dx < 0 /\ \E a \in s.aliens : SiX(s, a) <= 0
  \/ s.dx > 0 /\ \E a \in s.aliens : SiX(s, a) + SI_ALIEN_W >= SI_W

SiBlocked(s) ==
  \/ s.dx < 0 /\ \E a \in s.aliens : SiX(s, a) + s.dx <= 0
  \/ s.dx > 0 /\ \E a \in s.aliens : SiX(s, a) + SI_ALIEN_W + s.dx >= SI_W

BadSiMarch(s) ==      \* turns at the edge without coming down
  IF SiBlocked(s) THEN [s EXCEPT !.dx = -@] ELSE [s EXCEPT !.ox = @ + s.dx]

SiMarch(s) ==
  IF SiBlocked(s)
  THEN LET down == [s EXCEPT !.dx = -@, !.oy = @ + SI_ALIEN_DROP]
       IN  [down EXCEPT !.quit = @ \/ SiLanded(down)]
  ELSE [s EXCEPT !.ox = @ + s.dx]

(* esc: the key loop of this pass ended with Esc.                          *)
space_invaders_tick(esc) ==
  /\ si.mode = "play"
  /\ LET shot  == SiBulletStep([si EXCEPT !.quit = esc])
         moved == IF shot.tick + 1 >= SI_ALIEN_TICKS
                  THEN SiMarch([shot EXCEPT !.tick = 0]) ELSE [shot EXCEPT !.tick = @ + 1]
         won   == moved.aliens = {}
         quit  == moved.quit \/ won
     IN  si' = [moved EXCEPT !.win = won, !.quit = quit, !.mode = IF quit THEN "over" ELSE "play"]

space_invaders_leave ==
  /\ si.mode = "over"
  /\ si' = SiOff

SiNext ==
  \/ space_invaders_init \/ space_invaders_leave
  \/ SiLeft \/ SiRight \/ si_fire
  \/ \E esc \in BOOLEAN : space_invaders_tick(esc)

(* The types, part of the invariant below.                                 *)
SiTypeOK ==
  /\ si.mode \in {"prompt", "play", "over"}
  /\ si.dx \in {SI_ALIEN_SPD, -SI_ALIEN_SPD}
  /\ si.tick \in 0..SI_ALIEN_TICKS - 1
  /\ si.aliens \subseteq SiAliens
-------------------------------------------------------------------------------
(* No living alien marches over the left or right edge, whichever columns  *)
(* were shot away; each kill is worth ten points, once; the game is won    *)
(* only by the last kill; and although the bottom line is held against one *)
(* alien only, no living alien is ever past it by more than the rows the   *)
(* check may have overlooked.                                              *)
InvadersHeld ==
  /\ SiTypeOK
  /\ \A a \in si.aliens :
        /\ SiX(si, a) >= 0 /\ SiX(si, a) + SI_ALIEN_W <= SI_W
        /\ si.mode = "play"
             => SiY(si, a) + SI_ALIEN_H < SiLine + (SI_ALIEN_ROWS - 1) * (SI_ALIEN_H + 2)
  /\ si.score = 10 * Cardinality(SiAliens \ si.aliens)
  /\ si.win <=> si.aliens = {}

(* The loop of space_invaders_run has not ended.                           *)
InvadersRun == si.mode = "play"
===============================================================================
