-------------------------------- MODULE Snake ---------------------------------
(***************************************************************************)
(* The snake game of src/game.c: the grid, the body, the food and the loop *)
(* that reads every waiting key before each tick.  snake.seg is the used   *)
(* part of snake_seg_x/y, head first.  The pause and the drawing between   *)
(* two ticks change nothing; "Press any key" is snake_leave.               *)
(***************************************************************************)
EXTENDS Integers, Sequences, SequencesExt

CONSTANTS
  SNAKE_GRID_W, SNAKE_GRID_H, \* the outermost cells are the walls
  SNAKE_MAX_LEN,              \* length of snake_seg_x
  SNAKE_FOOD_TRIES,           \* 200: cells place_food looks at
  SnakeScores                 \* bound: the score is kept modulo this

\* The score is only printed and used modulo the two inner sides.
ASSUME SnakeAssumption ==
  /\ SNAKE_GRID_W \in Nat /\ SNAKE_GRID_W >= 6
  /\ SNAKE_GRID_H \in Nat /\ SNAKE_GRID_H >= 4
  /\ SNAKE_MAX_LEN \in Nat /\ SNAKE_MAX_LEN > 3
  /\ SNAKE_FOOD_TRIES \in Nat \ {0} /\ SnakeScores \in Nat \ {0}
  /\ SnakeScores % (SNAKE_GRID_W - 2) = 0
  /\ SnakeScores % (SNAKE_GRID_H - 2) = 0

VARIABLE snake

SnakeStep == << <<0, -1>>, <<1, 0>>, <<0, 1>>, <<-1, 0>> >> \* up, right, down, left
SnakeOpposite(d) == (d + 2) % 4
SnakeCell == (1..SNAKE_GRID_W - 2) \X (1..SNAKE_GRID_H - 2)
SnakeMiddle == <<SNAKE_GRID_W \div 2, SNAKE_GRID_H \div 2>>

(* The n-th cell tried for the food after this score.                      *)
SnakeTry(score, n) ==
  <<1 + ((score * 7 + n) % (SNAKE_GRID_W - 2)),
    1 + ((score * 11 + n * 3) % (SNAKE_GRID_H - 2))>>

(* The first try that is off the body, or the corner when none is.         *)
snake_place_food(seg, score) ==
  LET free == {n \in 0..SNAKE_FOOD_TRIES - 1 : SnakeTry(score, n) \notin ToSet(seg)}
  IN  IF free = {} THEN <<1, 1>> ELSE SnakeTry(score, Min(free))

SnakeOff == [mode |-> "prompt", seg |-> <<>>, dir |-> 1, next_dir |-> 1,
             food |-> <<1, 1>>, score |-> 0]

SnakeInit == snake = SnakeOff

snake_init ==
  LET seg == [i \in 1..3 |-> <<SnakeMiddle[1] - (i - 1), SnakeMiddle[2]>>]
  IN  /\ snake.mode = "prompt"
      /\ snake' = [mode |-> "play", seg |-> seg, dir |-> 1, next_dir |-> 1,
                   food |-> snake_place_food(seg, 0), score |-> 0]

snake_key(d) ==
  /\ snake.mode = "play"
  /\ snake' = [snake EXCEPT !.next_dir = d]

BadSnakeDir == snake.next_dir       \* the snake may turn back on itself

SnakeDir ==
  IF snake.next_dir # SnakeOpposite(snake.dir) THEN snake.next_dir ELSE snake.dir

SnakeHead == LET d == SnakeStep[SnakeDir + 1]
             IN  <<snake.seg[1][1] + d[1], snake.seg[1][2] + d[2]>>

SnakeCrash == SnakeHead \notin SnakeCell \/ SnakeHead \in ToSet(snake.seg)

SnakeBody(ate) ==
  <<SnakeHead>> \o (IF ate /\ Len(snake.seg) < SNAKE_MAX_LEN - 1
                    THEN snake.seg ELSE Front(snake.seg))

snake_tick ==
  /\ snake.mode = "play"
  /\ IF SnakeCrash
     THEN snake' = [snake EXCEPT !.mode = "over", !.dir = SnakeDir]
     ELSE LET ate   == SnakeHead = snake.food
              seg   == SnakeBody(ate)
              score == IF ate THEN (snake.score + 1) % SnakeScores ELSE snake.score
          IN  snake' = [snake EXCEPT !.seg = seg, !.dir = SnakeDir, !.score = score,
                          !.food = IF ate THEN snake_place_food(seg, score) ELSE @]

snake_leave ==
  /\ snake.mode = "over"
  /\ snake' = SnakeOff

SnakeNext == snake_init \/ (\E d \in 0..3 : snake_key(d)) \/ snake_tick \/ snake_leave

(* The types, part of the invariant below.                                 *)
SnakeTypeOK ==
  /\ snake.mode \in {"prompt", "play", "over"}
  /\ snake.seg \in Seq(SnakeCell) /\ Len(snake.seg) < SNAKE_MAX_LEN
  /\ {snake.dir, snake.next_dir} \subseteq 0..3
  /\ snake.food \in SnakeCell
  /\ snake.score \in 0..SnakeScores - 1
-------------------------------------------------------------------------------
(* What snake_draw shows is one snake: every segment touches the next, no  *)
(* two are on the same cell, however keys, food and ticks fall; the array  *)
(* never runs over; a snake never dies of biting its own neck, since a     *)
(* turn back is ignored; and food is never under the body, unless          *)
(* snake_place_food found no free cell.                                    *)
SnakeWhole ==
  SnakeTypeOK /\
  LET s == snake.seg
      Touch(a, b) == (a[1] - b[1]) * (a[1] - b[1]) + (a[2] - b[2]) * (a[2] - b[2]) = 1
  IN  /\ IsInjective(s)
      /\ \A i \in 1..Len(s) - 1 : Touch(s[i], s[i + 1])
      /\ snake.mode = "over"
           => LET d == SnakeStep[snake.dir + 1]
              IN  <<s[1][1] + d[1], s[1][2] + d[2]>> # s[2]
      /\ snake.food \in ToSet(s) => snake.food = <<1, 1>>
===============================================================================
