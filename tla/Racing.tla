-------------------------------- MODULE Racing --------------------------------
(***************************************************************************)
(* The racing game of src/game.c.  race.obst is the used part of           *)
(* race_obst_lane/y, records [lane, y].  race_tick is used modulo 20 and   *)
(* modulo the lanes only, and the score is only printed.                   *)
(***************************************************************************)
EXTENDS Integers, Sequences, SequencesExt

CONSTANTS
  RACE_W, RACE_H,            \* VIDEO_WIDTH, VIDEO_HEIGHT
  RACE_LANES, RACE_CAR_W, RACE_CAR_H, RACE_OBST_W, RACE_OBST_H,
  RACE_SCROLL, RACE_OBST_MAX,
  RACE_SPAWN_TICKS,          \* 20
  RaceScores                 \* bound: passed obstacles are counted modulo this

(* The sizes fit each other: an obstacle fits in a lane beside the car,    *)
(* the table holds what is on the screen when the next one is spawned, and *)
(* fewer obstacles than lanes are beside the car at a time.                *)
ASSUME RacingAssumption ==
  /\ {RACE_LANES, RACE_SCROLL, RACE_OBST_MAX, RACE_SPAWN_TICKS, RaceScores} \subseteq Nat \ {0}
  /\ {RACE_W, RACE_H, RACE_CAR_W, RACE_CAR_H, RACE_OBST_W, RACE_OBST_H} \subseteq Nat
  /\ RACE_LANES > 1
  /\ RACE_OBST_H > RACE_SCROLL
  /\ RACE_W \div RACE_LANES >= RACE_CAR_W \div 2 + RACE_OBST_W - RACE_OBST_W \div 2
  /\ RACE_OBST_MAX * (RACE_SPAWN_TICKS * RACE_SCROLL) > RACE_H + RACE_OBST_H
  /\ (RACE_LANES - 1) * (RACE_SPAWN_TICKS * RACE_SCROLL) > RACE_CAR_H + RACE_OBST_H

VARIABLE race

RACE_LANE_W == RACE_W \div RACE_LANES
RacePeriod == RACE_SPAWN_TICKS * RACE_LANES
RaceCarY == RACE_H - RACE_CAR_H - 15

race_car_center_x(lane) == lane * RACE_LANE_W + RACE_LANE_W \div 2
RaceObstX(o) == o.lane * RACE_LANE_W + RACE_LANE_W \div 2 - RACE_OBST_W \div 2

RaceOff == [mode |-> "prompt", lane |-> 1, obst |-> <<>>, score |-> 0, tick |-> 0]

RaceInit == race = RaceOff

racing_init ==
  /\ race.mode = "prompt"
  /\ race' = [RaceOff EXCEPT !.mode = "play"]

RaceLeft ==
  /\ race.mode = "play" /\ race.lane > 0
  /\ race' = [race EXCEPT !.lane = @ - 1]

RaceRight ==
  /\ race.mode = "play" /\ race.lane < RACE_LANES - 1
  /\ race' = [race EXCEPT !.lane = @ + 1]

racing_spawn_obstacle(obst, tick) ==
  IF Len(obst) >= RACE_OBST_MAX THEN obst
  ELSE Append(obst, [lane |-> tick % RACE_LANES, y |-> -RACE_OBST_H])

(* The obstacles after the scroll loop.  An obstacle that leaves is taken  *)
(* out in the loop and the one that moves into its place is scrolled next. *)
BadRaceScroll(obst) ==       \* the one that moves into its place is passed over
  LET gone == {i \in 1..Len(obst) : obst[i].y + RACE_SCROLL > RACE_H}
  IN  SelectSeq([i \in 1..Len(obst) |-> [obst[i] EXCEPT !.y = IF i - 1 \in gone THEN @
                                                              ELSE @ + RACE_SCROLL]],
                LAMBDA o : o.y <= RACE_H)

RaceScroll(obst) ==
  LET kept[n \in 0..Len(obst)] ==     \* of the first n
        IF n = 0 THEN <<>>
        ELSE IF obst[n].y + RACE_SCROLL > RACE_H THEN kept[n - 1]
        ELSE Append(kept[n - 1], [obst[n] EXCEPT !.y = @ + RACE_SCROLL])
  IN  kept[Len(obst)]

RaceHit(lane, o) ==
  LET cx == race_car_center_x(lane)
  IN  /\ o.y + RACE_OBST_H >= RaceCarY /\ o.y <= RaceCarY + RACE_CAR_H
      /\ cx + RACE_CAR_W \div 2 > RaceObstX(o)
      /\ cx - RACE_CAR_W \div 2 < RaceObstX(o) + RACE_OBST_W

RaceSpawned(tick) ==
  IF tick % RACE_SPAWN_TICKS = 0 THEN racing_spawn_obstacle(race.obst, tick) ELSE race.obst

(* esc: the key loop of this pass ended with Esc.                          *)
racing_tick(esc) ==
  /\ race.mode = "play"
  /\ LET tick    == race.tick + 1
         spawned == RaceSpawned(tick)
         obst    == RaceScroll(spawned)
         crash   == \E i \in DOMAIN obst : RaceHit(race.lane, obst[i])
     IN  race' = [race EXCEPT
                    !.tick  = tick % RacePeriod,
                    !.obst  = obst,
                    !.score = (@ + Len(spawned) - Len(obst)) % RaceScores,
                    !.mode  = IF esc \/ crash THEN "over" ELSE "play"]

racing_leave ==
  /\ race.mode = "over"
  /\ race' = RaceOff

RaceNext ==
  \/ racing_init \/ racing_leave
  \/ RaceLeft \/ RaceRight
  \/ \E esc \in BOOLEAN : racing_tick(esc)

(* The types, part of the invariant below.                                 *)
RaceTypeOK ==
  /\ race.mode \in {"prompt", "play", "over"}
  /\ race.lane \in 0..RACE_LANES - 1
  /\ race.tick \in 0..RacePeriod - 1
  /\ race.score \in 0..RaceScores - 1
  /\ race.obst \in Seq([lane : 0..RACE_LANES - 1, y : -RACE_OBST_H..RACE_H])
-------------------------------------------------------------------------------
(* The race can be won for ever: no spawn is ever dropped because the      *)
(* table of obstacles is full, two obstacles stay as far apart as the      *)
(* spawns are, however others leave the table, and before every tick there *)
(* is a lane the keys can still bring the car to where it is not hit.      *)
RaceFair ==
  /\ RaceTypeOK
  /\ (race.tick + 1) % RACE_SPAWN_TICKS = 0 => Len(race.obst) < RACE_OBST_MAX
  /\ \A i \in 1..Len(race.obst) - 1 :
        race.obst[i].y - race.obst[i + 1].y = RACE_SPAWN_TICKS * RACE_SCROLL
  /\ race.mode = "play" =>
       \E l \in 0..RACE_LANES - 1 :
          \A o \in ToSet(RaceScroll(race.obst)) : ~RaceHit(l, o)
===============================================================================
