------------------------------ MODULE GameProofs ------------------------------
(***************************************************************************)
(* The games of the console and their history, for every value of their    *)
(* constants.  Each invariant is about one game's variable: it holds in    *)
(* AsmInit, and a step of AsmNext is a step of that game, a reset or a     *)
(* stutter.                                                                *)
(***************************************************************************)
EXTENDS AsmOS, FatStorageProofs, FiniteSetTheorems, SequenceTheorems
-------------------------------------------------------------------------------
(* The rally of pong.  What each part of pong_tick leaves for the next.    *)
PongModes == {"prompt", "play", "over"}
PongRecords == [mode : PongModes, bx : Int, by : Int, vx : Int, vy : Int, ly : Int, ry : Int,
                score_l : Int, score_r : Int]
PadEdge == PONG_PAD_X_L + PONG_PAD_W

LEMMA PongNumbers ==
  /\ PONG_W \in Nat /\ PONG_H \in Nat /\ PONG_PAD_W \in Nat /\ PONG_PAD_H \in Nat
  /\ PONG_PAD_X_L \in Nat /\ PONG_BALL_SZ \in Nat /\ PONG_SPEED \in Nat /\ PONG_SPEED > 0
  /\ PONG_TOP \in Nat /\ PONG_BOT \in Nat /\ PONG_KEY_STEP \in Nat /\ PONG_AI_STEP \in Nat
  /\ PongScores \in Nat /\ PongScores > 0
  /\ PadEdge \in Int /\ PONG_PAD_X_R \in Int /\ PadEdge > 0 /\ PONG_PAD_X_R < PONG_W
  /\ PadEdge + PONG_BALL_SZ < PONG_PAD_X_R
  /\ PONG_TOP + 2 >= PONG_KEY_STEP /\ PONG_BOT + PONG_KEY_STEP <= PONG_H + 3
  /\ PONG_TOP + PONG_PAD_H + 6 < PONG_BOT /\ PONG_AI_STEP <= PONG_KEY_STEP
<1>1. /\ PONG_W \in Nat /\ PONG_H \in Nat /\ PONG_PAD_W \in Nat /\ PONG_PAD_H \in Nat
      /\ PONG_PAD_X_L \in Nat /\ PONG_BALL_SZ \in Nat /\ PONG_SPEED \in Nat /\ PONG_SPEED > 0
      /\ PONG_TOP \in Nat /\ PONG_BOT \in Nat /\ PONG_KEY_STEP \in Nat /\ PONG_AI_STEP \in Nat
      /\ PongScores \in Nat /\ PongScores > 0 /\ PONG_PAD_W > 0
  BY PongAssumption
<1>2. /\ PONG_TOP + 2 >= PONG_KEY_STEP /\ PONG_BOT + PONG_KEY_STEP <= PONG_H + 3
      /\ PONG_TOP + PONG_PAD_H + 6 < PONG_BOT /\ PONG_AI_STEP <= PONG_KEY_STEP
      /\ PONG_BALL_SZ + PONG_SPEED < PONG_PAD_X_R - PONG_PAD_X_L - PONG_PAD_W
  BY PongAssumption
<1>3. QED
  BY <1>1, <1>2 DEF PadEdge, PONG_PAD_X_R

LEMMA ServePlaces ==
  LET x == PongMiddle(PONG_W, PONG_BALL_SZ)  y == PongMiddle(PONG_H, PONG_BALL_SZ)
      l == PongMiddle(PONG_H, PONG_PAD_H)
  IN  /\ x \in Int /\ PadEdge <= x /\ x + PONG_BALL_SZ <= PONG_PAD_X_R
      /\ y \in Int /\ PONG_TOP <= y /\ y + PONG_BALL_SZ <= PONG_BOT
      /\ l \in Int /\ 0 <= l /\ l + PONG_PAD_H <= PONG_H
<1> DEFINE x == PongMiddle(PONG_W, PONG_BALL_SZ)
           y == PongMiddle(PONG_H, PONG_BALL_SZ)
           l == PongMiddle(PONG_H, PONG_PAD_H)
<1>1. PadEdge <= x /\ x + PONG_BALL_SZ <= PONG_PAD_X_R /\ PONG_TOP <= y /\ y + PONG_BALL_SZ <= PONG_BOT
  BY PongAssumption DEF PadEdge
<1>2. x \in Int /\ y \in Int
  BY PongNumbers DEF PongMiddle
<1>3. l \in Int /\ 0 <= l /\ l + PONG_PAD_H <= PONG_H
  <2>1. ASSUME NEW h \in Nat, NEW p \in Nat, p < h
        PROVE  h \div 2 - p \div 2 \in Int /\ 0 <= h \div 2 - p \div 2 /\ h \div 2 - p \div 2 + p <= h
    BY <2>1
  <2>2. PONG_PAD_H < PONG_H
    BY PongNumbers
  <2>3. QED
    BY <2>1, <2>2, PongNumbers DEF PongMiddle
<1>4. QED
  BY <1>1, <1>2, <1>3

PongBase(p) ==
  /\ p.vx = PONG_SPEED \/ p.vx = -PONG_SPEED
  /\ p.vy = 1 \/ p.vy = -1
  /\ 0 <= p.score_l /\ p.score_l < PongScores /\ 0 <= p.score_r /\ p.score_r < PongScores
  /\ 0 <= p.ly /\ p.ly + PONG_PAD_H <= PONG_H /\ 0 <= p.ry /\ p.ry + PONG_PAD_H <= PONG_H

PongHeight(p) == PONG_TOP <= p.by /\ p.by + PONG_BALL_SZ <= PONG_BOT
(* Behind the edge of a paddle the ball goes on.                           *)
PongWay(p) == /\ p.bx < PadEdge => p.vx < 0
              /\ p.bx + PONG_BALL_SZ > PONG_PAD_X_R => p.vx > 0

LEMMA PongMoved ==
  ASSUME NEW p \in PongRecords, PongBase(p), PongHeight(p), PongWay(p)
  PROVE  /\ PongMove(p) \in PongRecords /\ PongBase(PongMove(p))
         /\ PONG_TOP <= PongMove(p).by + 1 /\ PongMove(p).by + PONG_BALL_SZ <= PONG_BOT + 1
         /\ PongMove(p).vx > 0 => PongMove(p).bx > PadEdge
         /\ PongMove(p).vx < 0 => PongMove(p).bx + PONG_BALL_SZ < PONG_PAD_X_R
<1> DEFINE m == PongMove(p)
           bx == p.bx + p.vx
           by == p.by + p.vy
<1>1. p.bx \in Int /\ p.by \in Int /\ p.vx \in Int /\ p.vy \in Int /\ bx \in Int /\ by \in Int
  BY DEF PongRecords
<1>2. m = [p EXCEPT !.bx = bx, !.by = by]
  BY DEF PongMove, PongRecords
<1>3. /\ PONG_TOP <= by + 1 /\ by + PONG_BALL_SZ <= PONG_BOT + 1
      /\ p.vx > 0 => bx > PadEdge
      /\ p.vx < 0 => bx + PONG_BALL_SZ < PONG_PAD_X_R
  BY <1>1, PongNumbers DEF PongBase, PongHeight, PongWay
<1> HIDE DEF bx, by, m
<1>4. /\ m \in PongRecords /\ m.bx = bx /\ m.by = by /\ m.vx = p.vx /\ m.vy = p.vy /\ m.ly = p.ly
      /\ m.ry = p.ry /\ m.score_l = p.score_l /\ m.score_r = p.score_r
  BY <1>1, <1>2 DEF PongRecords
<1>5. PongBase(m)
  BY <1>4 DEF PongBase
<1>6. QED
  BY <1>3, <1>4, <1>5 DEF m

(* A wall changes the height and the vertical speed, nothing else.         *)
OffWall(p, y) == [p EXCEPT !.by = y, !.vy = -p.vy]

LEMMA PongWalls ==
  ASSUME NEW p \in PongRecords, PongBase(p), NEW y \in Int
  PROVE  /\ OffWall(p, y) \in PongRecords /\ PongBase(OffWall(p, y)) /\ OffWall(p, y).by = y
         /\ OffWall(p, y).bx = p.bx /\ OffWall(p, y).vx = p.vx
<1> DEFINE w == -p.vy
           m == OffWall(p, y)
<1>1. p.vy \in Int /\ (p.vy = 1 \/ p.vy + 1 = 0)
  BY DEF PongRecords, PongBase
<1>2. w \in Int /\ (w = 1 \/ w = -1)
  BY <1>1
<1>3. m = [p EXCEPT !.by = y, !.vy = w]
  BY DEF OffWall
<1> HIDE DEF w, m
<1>4. /\ m \in PongRecords /\ m.bx = p.bx /\ m.by = y /\ m.vx = p.vx /\ m.vy = w /\ m.ly = p.ly
      /\ m.ry = p.ry /\ m.score_l = p.score_l /\ m.score_r = p.score_r
  BY <1>2, <1>3 DEF PongRecords
<1>5. QED
  BY <1>2, <1>4 DEF PongBase, m

LEMMA PongBounced ==
  ASSUME NEW p \in PongRecords, PongBase(p), PONG_TOP <= p.by + 1, p.by + PONG_BALL_SZ <= PONG_BOT + 1
  PROVE  LET m == PongBottomWall(PongTopWall(p))
         IN  /\ m \in PongRecords /\ PongBase(m) /\ PongHeight(m)
             /\ m.bx = p.bx /\ m.vx = p.vx
<1> DEFINE t == PongTopWall(p)
           m == PongBottomWall(t)
<1>1. /\ t \in PongRecords /\ PongBase(t) /\ PONG_TOP <= t.by /\ t.by + PONG_BALL_SZ <= PONG_BOT + 1
      /\ t.bx = p.bx /\ t.vx = p.vx
  <2>1. CASE p.by <= PONG_TOP
    <3>1. t = OffWall(p, PONG_TOP)
      BY <2>1 DEF PongTopWall, PongRecords, OffWall
    <3> HIDE DEF t
    <3>2. t \in PongRecords /\ PongBase(t) /\ t.by = PONG_TOP /\ t.bx = p.bx /\ t.vx = p.vx
      <4>1. PONG_TOP \in Int
        BY PongNumbers
      <4>2. QED
        BY <3>1, <4>1, PongWalls
    <3>3. PONG_TOP + PONG_BALL_SZ <= PONG_BOT + 1
      BY PongNumbers, ServePlaces
    <3>4. QED
      BY <3>2, <3>3, PongNumbers
  <2>2. CASE ~(p.by <= PONG_TOP)
    <3>1. t = p /\ p.by \in Int
      BY <2>2 DEF PongTopWall, PongRecords
    <3>2. QED
      BY <2>2, <3>1, PongNumbers
  <2>3. QED
    BY <2>1, <2>2
<1> HIDE DEF t
<1>2. CASE t.by + PONG_BALL_SZ >= PONG_BOT
  <2>1. m = OffWall(t, PONG_BOT - PONG_BALL_SZ)
    BY <1>1, <1>2 DEF PongBottomWall, PongRecords, OffWall
  <2> HIDE DEF m
  <2>2. PONG_BOT - PONG_BALL_SZ \in Int
    BY PongNumbers
  <2>3. m \in PongRecords /\ PongBase(m) /\ m.by = PONG_BOT - PONG_BALL_SZ /\ m.bx = t.bx /\ m.vx = t.vx
    BY <1>1, <2>1, <2>2, PongWalls
  <2>4. PONG_TOP <= PONG_BOT - PONG_BALL_SZ /\ PONG_BOT - PONG_BALL_SZ + PONG_BALL_SZ <= PONG_BOT
    BY PongNumbers, ServePlaces
  <2>5. QED
    BY <1>1, <2>3, <2>4 DEF PongHeight, m, t
<1>3. CASE ~(t.by + PONG_BALL_SZ >= PONG_BOT)
  <2>1. m = t /\ t.by \in Int
    BY <1>1, <1>3 DEF PongBottomWall, PongRecords
  <2>2. PongHeight(m)
    BY <1>1, <1>3, <2>1, PongNumbers DEF PongHeight
  <2>3. QED
    BY <1>1, <2>1, <2>2 DEF t
<1>4. QED
  BY <1>2, <1>3

(* A paddle changes where the ball is and where it goes along the table.   *)
OffPad(p, x) == [p EXCEPT !.bx = x, !.vx = -p.vx]

LEMMA PongPads ==
  ASSUME NEW p \in PongRecords, PongBase(p), NEW x \in Int
  PROVE  /\ OffPad(p, x) \in PongRecords /\ PongBase(OffPad(p, x)) /\ OffPad(p, x).by = p.by
         /\ OffPad(p, x).bx = x /\ (p.vx < 0 => OffPad(p, x).vx > 0)
<1> DEFINE w == -p.vx
           m == OffPad(p, x)
<1>1. p.vx \in Int /\ (p.vx = PONG_SPEED \/ p.vx + PONG_SPEED = 0) /\ PONG_SPEED \in Nat
  BY PongNumbers DEF PongRecords, PongBase
<1>2. w \in Int /\ (w = PONG_SPEED \/ w = -PONG_SPEED) /\ (p.vx < 0 => w > 0)
  BY <1>1
<1>3. m = [p EXCEPT !.bx = x, !.vx = w]
  BY DEF OffPad
<1> HIDE DEF w, m
<1>4. /\ m \in PongRecords /\ m.bx = x /\ m.by = p.by /\ m.vx = w /\ m.vy = p.vy /\ m.ly = p.ly
      /\ m.ry = p.ry /\ m.score_l = p.score_l /\ m.score_r = p.score_r
  BY <1>2, <1>3 DEF PongRecords
<1>5. QED
  BY <1>2, <1>4 DEF PongBase, m

LEMMA PongReturned ==
  ASSUME NEW p \in PongRecords, PongBase(p), p.vx > 0 => p.bx > PadEdge,
         p.vx < 0 => p.bx + PONG_BALL_SZ < PONG_PAD_X_R
  PROVE  LET m == PongRightPad(PongLeftPad(p))
         IN  m \in PongRecords /\ PongBase(m) /\ m.by = p.by /\ PongWay(m)
<1> DEFINE l == PongLeftPad(p)
           m == PongRightPad(l)
<1>0. ASSUME NEW r \in PongRecords, PongBase(r) PROVE r.vx \in Int /\ r.bx \in Int /\ (r.vx > 0 \/ r.vx < 0)
  <2>1. r.vx \in Int /\ r.bx \in Int /\ (r.vx = PONG_SPEED \/ r.vx + PONG_SPEED = 0)
    BY <1>0, PongNumbers DEF PongRecords, PongBase
  <2>2. QED
    BY <2>1, PongNumbers
<1>1. /\ l \in PongRecords /\ PongBase(l) /\ l.by = p.by
      /\ l.vx > 0 => l.bx >= PadEdge
      /\ l.vx < 0 => l.bx + PONG_BALL_SZ < PONG_PAD_X_R
  <2>1. CASE p.bx <= PadEdge /\ PongMeets(p, p.ly)
    <3>1. l = OffPad(p, PadEdge)
      BY <2>1 DEF PongLeftPad, PongRecords, PadEdge, OffPad
    <3> HIDE DEF l
    <3>2. /\ l \in PongRecords /\ PongBase(l) /\ l.by = p.by /\ l.bx = PadEdge
          /\ p.vx < 0 => l.vx > 0
      BY <3>1, PongNumbers, PongPads
    <3>3. p.vx < 0
      BY <1>0, <2>1, PongNumbers
    <3>4. QED
      BY <1>0, <3>2, <3>3, PongNumbers
  <2>2. CASE ~(p.bx <= PadEdge /\ PongMeets(p, p.ly))
    <3>1. l = p
      BY <2>2 DEF PongLeftPad, PadEdge
    <3>2. p.vx > 0 => p.bx >= PadEdge
      BY <1>0, PongNumbers
    <3>3. QED
      BY <3>1, <3>2
  <2>3. QED
    BY <2>1, <2>2
<1> HIDE DEF l
<1>2. l.vx \in Int /\ l.bx \in Int /\ (l.vx > 0 \/ l.vx < 0)
  BY <1>0, <1>1
<1>3. CASE l.bx + PONG_BALL_SZ >= PONG_PAD_X_R /\ PongMeets(l, l.ry)
  <2> DEFINE x == PONG_PAD_X_R - PONG_BALL_SZ
  <2>1. m = OffPad(l, x)
    BY <1>1, <1>3 DEF PongRightPad, PongRecords, OffPad
  <2>2. x \in Int /\ ~(x < PadEdge) /\ ~(x + PONG_BALL_SZ > PONG_PAD_X_R)
    BY PongNumbers
  <2> HIDE DEF m, x
  <2>3. m \in PongRecords /\ PongBase(m) /\ m.by = l.by /\ m.bx = x
    BY <1>1, <2>1, <2>2, PongPads
  <2>4. PongWay(m)
    BY <2>2, <2>3 DEF PongWay
  <2>5. QED
    BY <1>1, <2>3, <2>4 DEF m, l
<1>4. CASE ~(l.bx + PONG_BALL_SZ >= PONG_PAD_X_R /\ PongMeets(l, l.ry))
  <2>1. m = l
    BY <1>4 DEF PongRightPad
  <2>2. PongWay(l)
    BY <1>1, <1>2, PongNumbers DEF PongWay
  <2>3. QED
    BY <1>1, <2>1, <2>2 DEF l
<1>5. QED
  BY <1>3, <1>4
(* The ball is served in the middle, where it is between the paddles.      *)
PongRest(p) ==
  /\ 0 <= p.score_l /\ p.score_l < PongScores /\ 0 <= p.score_r /\ p.score_r < PongScores
  /\ 0 <= p.ly /\ p.ly + PONG_PAD_H <= PONG_H /\ 0 <= p.ry /\ p.ry + PONG_PAD_H <= PONG_H

LEMMA PongServed ==
  ASSUME NEW p \in PongRecords, PongRest(p), NEW vx \in Int, vx = PONG_SPEED \/ vx = -PONG_SPEED
  PROVE  LET m == PongServe(p, vx)
         IN  /\ m \in PongRecords /\ PongBase(m) /\ PongHeight(m) /\ PongWay(m)
             /\ 0 <= m.bx /\ m.bx + PONG_BALL_SZ <= PONG_W
<1> DEFINE m == PongServe(p, vx)
           x == PongMiddle(PONG_W, PONG_BALL_SZ)
           y == PongMiddle(PONG_H, PONG_BALL_SZ)
<1>1. /\ x \in Int /\ PadEdge <= x /\ x + PONG_BALL_SZ <= PONG_PAD_X_R
      /\ y \in Int /\ PONG_TOP <= y /\ y + PONG_BALL_SZ <= PONG_BOT
  BY ServePlaces
<1> DEFINE vy == 1
<1>2. m = [p EXCEPT !.bx = x, !.by = y, !.vx = vx, !.vy = vy] /\ vy \in Int /\ vy = 1
  BY DEF PongServe
<1> HIDE DEF m, x, y, vy
<1>3. /\ m \in PongRecords /\ m.bx = x /\ m.by = y /\ m.vx = vx /\ m.vy = vy /\ m.ly = p.ly
      /\ m.ry = p.ry /\ m.score_l = p.score_l /\ m.score_r = p.score_r
  BY <1>1, <1>2 DEF PongRecords
<1>4. PongBase(m)
  BY <1>2, <1>3 DEF PongBase, PongRest
<1>5. PongHeight(m)
  BY <1>1, <1>3 DEF PongHeight
<1>6. ~(x < PadEdge) /\ ~(x + PONG_BALL_SZ > PONG_PAD_X_R) /\ 0 <= x /\ x + PONG_BALL_SZ <= PONG_W
  BY <1>1, PongNumbers
<1>7. QED
  BY <1>3, <1>4, <1>5, <1>6 DEF PongWay, m

LEMMA PongScored ==
  ASSUME NEW p \in PongRecords, PongBase(p)
  PROVE  /\ [p EXCEPT !.score_l = (@ + 1) % PongScores] \in PongRecords
         /\ PongBase([p EXCEPT !.score_l = (@ + 1) % PongScores])
         /\ [p EXCEPT !.score_r = (@ + 1) % PongScores] \in PongRecords
         /\ PongBase([p EXCEPT !.score_r = (@ + 1) % PongScores])
<1> DEFINE l == (p.score_l + 1) % PongScores
           r == (p.score_r + 1) % PongScores
           ml == [p EXCEPT !.score_l = l]
           mr == [p EXCEPT !.score_r = r]
<1>1. p.score_l \in Int /\ p.score_r \in Int
  BY DEF PongRecords
<1>2. l \in Int /\ 0 <= l /\ l < PongScores /\ r \in Int /\ 0 <= r /\ r < PongScores
  BY <1>1, PongNumbers
<1> HIDE DEF l, r
<1>3. /\ ml \in PongRecords /\ ml.vx = p.vx /\ ml.vy = p.vy /\ ml.ly = p.ly
      /\ ml.ry = p.ry /\ ml.score_l = l /\ ml.score_r = p.score_r
  BY <1>2 DEF PongRecords
<1>4. /\ mr \in PongRecords /\ mr.vx = p.vx /\ mr.vy = p.vy /\ mr.ly = p.ly
      /\ mr.ry = p.ry /\ mr.score_l = p.score_l /\ mr.score_r = r
  BY <1>2 DEF PongRecords
<1> HIDE DEF ml, mr
<1>5. PongBase(ml) /\ PongBase(mr)
  BY <1>2, <1>3, <1>4 DEF PongBase
<1>6. QED
  BY <1>3, <1>4, <1>5 DEF ml, mr, l, r

PongSafe(p) ==
  /\ p \in PongRecords /\ PongBase(p) /\ PongHeight(p) /\ PongWay(p)
  /\ 0 <= p.bx /\ p.bx + PONG_BALL_SZ <= PONG_W

LEMMA PongPoints ==
  ASSUME NEW p \in PongRecords, PongBase(p), PongHeight(p), PongWay(p)
  PROVE  PongSafe(PongOutRight(PongOutLeft(p)))
<1> DEFINE l == PongOutLeft(p)
           m == PongOutRight(l)
<1>1. PONG_SPEED \in Int /\ -PONG_SPEED \in Int
  BY PongNumbers
<1>2. l \in PongRecords /\ PongBase(l) /\ PongHeight(l) /\ PongWay(l) /\ 0 <= l.bx
  <2>1. CASE p.bx < 0
    <3> DEFINE k == [p EXCEPT !.score_r = (@ + 1) % PongScores]
    <3>1. k \in PongRecords /\ PongBase(k)
      BY PongScored
    <3>2. l = PongServe(k, PONG_SPEED)
      BY <2>1 DEF PongOutLeft
    <3> HIDE DEF k
    <3>3. QED
      <4>1. PongRest(k)
        BY <3>1 DEF PongBase, PongRest
      <4>2. QED
        BY <1>1, <3>1, <3>2, <4>1, PongServed
  <2>2. CASE ~(p.bx < 0)
    <3>1. l = p
      BY <2>2 DEF PongOutLeft
    <3>2. p.bx \in Int
      BY DEF PongRecords
    <3>3. 0 <= p.bx
      BY <2>2, <3>2
    <3>4. QED
      BY <3>1, <3>3
  <2>3. QED
    BY <2>1, <2>2
<1> HIDE DEF l
<1>3. CASE l.bx + PONG_BALL_SZ > PONG_W
  <2> DEFINE k == [l EXCEPT !.score_l = (@ + 1) % PongScores]
  <2>1. k \in PongRecords /\ PongBase(k)
    BY <1>2, PongScored
  <2>2. m = PongServe(k, -PONG_SPEED)
    BY <1>3 DEF PongOutRight
  <2> HIDE DEF k, m
  <2>r. PongRest(k)
    BY <2>1 DEF PongBase, PongRest
  <2>3. PongSafe(m)
    BY <1>1, <2>1, <2>2, <2>r, PongServed DEF PongSafe
  <2>4. QED
    BY <2>3 DEF m, l
<1>4. CASE ~(l.bx + PONG_BALL_SZ > PONG_W)
  <2>1. m = l
    BY <1>4 DEF PongOutRight
  <2>2. l.bx \in Int
    BY <1>2 DEF PongRecords
  <2>3. l.bx + PONG_BALL_SZ <= PONG_W
    BY <1>4, <2>2, PongNumbers
  <2>4. QED
    BY <1>2, <2>1, <2>3 DEF PongSafe, l
<1>5. QED
  BY <1>3, <1>4

(* A paddle moved from inside its guards stays on the screen.              *)
PadAt(p, l, r) == [p EXCEPT !.ly = l, !.ry = r]

LEMMA PongPadMoved ==
  ASSUME NEW p, PongSafe(p), NEW l \in Int, 0 <= l, l + PONG_PAD_H <= PONG_H,
         NEW r \in Int, 0 <= r, r + PONG_PAD_H <= PONG_H
  PROVE  PongSafe(PadAt(p, l, r))
<1> DEFINE m == PadAt(p, l, r)
<1>1. m = [p EXCEPT !.ly = l, !.ry = r] /\ p \in PongRecords
  BY DEF PadAt, PongSafe
<1> HIDE DEF m
<1>2. /\ m \in PongRecords /\ m.bx = p.bx /\ m.by = p.by /\ m.vx = p.vx /\ m.vy = p.vy /\ m.ly = l
      /\ m.ry = r /\ m.score_l = p.score_l /\ m.score_r = p.score_r
  BY <1>1 DEF PongRecords
<1>3. PongSafe(m)
  BY <1>2 DEF PongSafe, PongBase, PongHeight, PongWay
<1>4. QED
  BY <1>3 DEF m

LEMMA PongFollowed ==
  ASSUME NEW p, PongSafe(p)
  PROVE  PongSafe(PongFollow(p))
<1> DEFINE ball == p.by + PONG_BALL_SZ \div 2
           half == PONG_PAD_H \div 2
           down == IF p.ry + half < ball /\ p.ry + PONG_PAD_H < PONG_BOT - 2
                   THEN p.ry + PONG_AI_STEP ELSE p.ry
           up == IF down + half > ball /\ down > PONG_TOP + 2 THEN down - PONG_AI_STEP ELSE down
<1>1. /\ p \in PongRecords /\ p.ry \in Int /\ p.ly \in Int /\ 0 <= p.ry /\ p.ry + PONG_PAD_H <= PONG_H
      /\ 0 <= p.ly /\ p.ly + PONG_PAD_H <= PONG_H
  BY DEF PongSafe, PongRecords, PongBase
<1>2. PongFollow(p) = [p EXCEPT !.ry = up]
  BY DEF PongFollow
<1>3. down \in Int /\ 0 <= down /\ down + PONG_PAD_H <= PONG_H
  <2>1. CASE p.ry + half < ball /\ p.ry + PONG_PAD_H < PONG_BOT - 2
    <3>1. down = p.ry + PONG_AI_STEP /\ p.ry + PONG_PAD_H < PONG_BOT - 2
      BY <2>1
    <3> HIDE DEF down, half, ball
    <3>2. QED
      BY <1>1, <3>1, PongNumbers
  <2>2. CASE ~(p.ry + half < ball /\ p.ry + PONG_PAD_H < PONG_BOT - 2)
    <3>1. down = p.ry
      BY <2>2
    <3> HIDE DEF down, half, ball
    <3>2. QED
      BY <1>1, <3>1
  <2>3. QED
    BY <2>1, <2>2
<1>4. up \in Int /\ 0 <= up /\ up + PONG_PAD_H <= PONG_H
  <2> HIDE DEF down, half, ball
  <2>1. CASE down + half > ball /\ down > PONG_TOP + 2
    <3>1. up = down - PONG_AI_STEP /\ down > PONG_TOP + 2
      BY <2>1
    <3> HIDE DEF up
    <3>2. QED
      BY <1>3, <3>1, PongNumbers
  <2>2. CASE ~(down + half > ball /\ down > PONG_TOP + 2)
    <3>1. up = down
      BY <2>2
    <3> HIDE DEF up
    <3>2. QED
      BY <1>3, <3>1
  <2>3. QED
    BY <2>1, <2>2
<1> HIDE DEF up
<1>5. PongFollow(p) = PadAt(p, p.ly, up)
  BY <1>1, <1>2, <1>4 DEF PadAt, PongRecords
<1>6. QED
  BY <1>1, <1>4, <1>5, PongPadMoved

LEMMA PongStarts == PongSafe(PongOff)
<1> DEFINE l == PongMiddle(PONG_H, PONG_PAD_H)
           z == [mode |-> "prompt", bx |-> 0, by |-> 0, vx |-> 0, vy |-> 0,
                 ly |-> l, ry |-> l, score_l |-> 0, score_r |-> 0]
<1>1. l \in Int /\ 0 <= l /\ l + PONG_PAD_H <= PONG_H
  BY ServePlaces
<1>2. PongOff = PongServe(z, PONG_SPEED)
  BY DEF PongOff
<1> HIDE DEF l
<1>3. PONG_SPEED \in Int /\ PongScores > 0
  BY PongNumbers
<1>4. "prompt" \in PongModes
  BY DEF PongModes
<1>5. z \in PongRecords /\ z.ly = l /\ z.ry = l /\ z.score_l = 0 /\ z.score_r = 0
  BY <1>1, <1>4 DEF PongRecords
<1> HIDE DEF z
<1>6. PongRest(z)
  BY <1>1, <1>3, <1>5 DEF PongRest
<1>7. PongSafe(PongServe(z, PONG_SPEED))
  BY <1>3, <1>5, <1>6, PongServed DEF PongSafe
<1>8. QED
  BY <1>2, <1>7

LEMMA PongModeChanged ==
  ASSUME NEW p, PongSafe(p), NEW mode \in PongModes
  PROVE  PongSafe([p EXCEPT !.mode = mode])
<1> DEFINE m == [p EXCEPT !.mode = mode]
<1>1. p \in PongRecords
  BY DEF PongSafe
<1>2. /\ m \in PongRecords /\ m.bx = p.bx /\ m.by = p.by /\ m.vx = p.vx /\ m.vy = p.vy /\ m.ly = p.ly
      /\ m.ry = p.ry /\ m.score_l = p.score_l /\ m.score_r = p.score_r
  BY <1>1 DEF PongRecords
<1> HIDE DEF m
<1>3. PongSafe(m)
  BY <1>2 DEF PongSafe, PongBase, PongHeight, PongWay
<1>4. QED
  BY <1>3 DEF m

LEMMA PongSteps == [AsmNext]_asmVars => PongNext \/ pong' = PongOff \/ UNCHANGED pong
BY DEF AsmNext, PlayGame, DrawScreen, UseWire, UseTables, UseDisk, Reset, asmVars, games

LEMMA NextKeepsPong == PongSafe(pong) /\ [AsmNext]_asmVars => PongSafe(pong')
<1> SUFFICES ASSUME PongSafe(pong), [AsmNext]_asmVars PROVE PongSafe(pong')
  OBVIOUS
<1>1. PongNext \/ pong' = PongOff \/ UNCHANGED pong
  BY PongSteps
<1>2. CASE pong' = PongOff
  BY <1>2, PongStarts
<1>3. CASE UNCHANGED pong
  BY <1>3
<1>4. "play" \in PongModes /\ "over" \in PongModes
  BY DEF PongModes
<1>5. CASE pong_init
  <2>1. pong' = [PongOff EXCEPT !.mode = "play"]
    BY <1>5 DEF pong_init
  <2>2. QED
    BY <1>4, <2>1, PongStarts, PongModeChanged
<1>6. CASE pong_key
  <2>1. /\ pong \in PongRecords /\ pong.ly \in Int /\ pong.ry \in Int /\ 0 <= pong.ly
        /\ pong.ly + PONG_PAD_H <= PONG_H /\ 0 <= pong.ry /\ pong.ry + PONG_PAD_H <= PONG_H
    BY DEF PongSafe, PongRecords, PongBase
  <2> DEFINE u == pong.ly - PONG_KEY_STEP
             d == pong.ly + PONG_KEY_STEP
  <2>2. \/ pong.ly > PONG_TOP + 2 /\ pong' = [pong EXCEPT !.ly = u]
        \/ pong.ly + PONG_PAD_H < PONG_BOT - 2 /\ pong' = [pong EXCEPT !.ly = d]
    BY <1>6 DEF pong_key
  <2>3. u \in Int /\ d \in Int
    BY <2>1, PongNumbers
  <2>4. pong.ly > PONG_TOP + 2 => 0 <= u /\ u + PONG_PAD_H <= PONG_H
    BY <2>1, PongNumbers
  <2>5. pong.ly + PONG_PAD_H < PONG_BOT - 2 => 0 <= d /\ d + PONG_PAD_H <= PONG_H
    BY <2>1, PongNumbers
  <2> HIDE DEF u, d
  <2>6. /\ [pong EXCEPT !.ly = u] = PadAt(pong, u, pong.ry)
        /\ [pong EXCEPT !.ly = d] = PadAt(pong, d, pong.ry)
    BY <2>1, <2>3 DEF PadAt, PongRecords
  <2>7. QED
    BY <2>1, <2>2, <2>3, <2>4, <2>5, <2>6, PongPadMoved
<1>7. ASSUME NEW esc \in BOOLEAN, pong_tick(esc) PROVE PongSafe(pong')
  <2> DEFINE p1 == PongMove(pong)
             p2 == PongBottomWall(PongTopWall(p1))
             p3 == PongRightPad(PongLeftPad(p2))
             p4 == PongOutRight(PongOutLeft(p3))
             p5 == PongFollow(p4)
  <2>1. pong' = [p5 EXCEPT !.mode = IF esc THEN "over" ELSE @]
    BY <1>7 DEF pong_tick
  <2>2. pong \in PongRecords /\ PongBase(pong) /\ PongHeight(pong) /\ PongWay(pong)
    BY DEF PongSafe
  <2>3. /\ p1 \in PongRecords /\ PongBase(p1)
        /\ PONG_TOP <= p1.by + 1 /\ p1.by + PONG_BALL_SZ <= PONG_BOT + 1
        /\ p1.vx > 0 => p1.bx > PadEdge
        /\ p1.vx < 0 => p1.bx + PONG_BALL_SZ < PONG_PAD_X_R
    BY <2>2, PongMoved
  <2> HIDE DEF p1
  <2>4. p2 \in PongRecords /\ PongBase(p2) /\ PongHeight(p2) /\ p2.bx = p1.bx /\ p2.vx = p1.vx
    BY <2>3, PongBounced
  <2> HIDE DEF p2
  <2>5. /\ p2.vx > 0 => p2.bx > PadEdge
        /\ p2.vx < 0 => p2.bx + PONG_BALL_SZ < PONG_PAD_X_R
    BY <2>3, <2>4
  <2>6. p3 \in PongRecords /\ PongBase(p3) /\ p3.by = p2.by /\ PongWay(p3)
    BY <2>4, <2>5, PongReturned
  <2> HIDE DEF p3
  <2>7. PongHeight(p3)
    BY <2>4, <2>6 DEF PongHeight
  <2>8. PongSafe(p4)
    BY <2>6, <2>7, PongPoints
  <2> HIDE DEF p4
  <2>9. PongSafe(p5)
    BY <2>8, PongFollowed
  <2> HIDE DEF p5
  <2>10. p5.mode \in PongModes
    BY <2>9 DEF PongSafe, PongRecords
  <2>11. CASE esc
    <3>1. pong' = [p5 EXCEPT !.mode = "over"]
      BY <2>1, <2>11
    <3>2. QED
      BY <1>4, <2>9, <3>1, PongModeChanged
  <2>12. CASE ~esc
    <3>1. pong' = [p5 EXCEPT !.mode = p5.mode]
      BY <2>1, <2>12
    <3>2. QED
      BY <2>9, <2>10, <3>1, PongModeChanged
  <2>13. QED
    BY <2>11, <2>12
<1>8. CASE pong_leave
  BY <1>2, <1>8 DEF pong_leave
<1>9. QED
  BY <1>1, <1>2, <1>3, <1>5, <1>6, <1>7, <1>8 DEF PongNext

PongInv == PongSafe(pong)

(* Ball and paddles of pong stay on the screen and a ball that got behind  *)
(* a paddle's edge never turns there, whatever the sizes and speeds that   *)
(* PongAssumption admits and whenever the player moves the paddle.         *)
THEOREM PongStaysInPlay == AsmSpec => []PongInPlay
<1>1. AsmInit => PongInv
  BY PongStarts DEF AsmInit, PongInit, PongInv
<1>2. PongInv /\ [AsmNext]_asmVars => PongInv'
  BY NextKeepsPong DEF PongInv, PongSafe, PongBase, PongHeight, PongWay, PadEdge
<1>3. PongInv => PongInPlay
  <2> SUFFICES ASSUME PongInv PROVE PongInPlay
    OBVIOUS
  <2>1. /\ pong \in PongRecords /\ PongBase(pong) /\ PongHeight(pong) /\ PongWay(pong)
        /\ 0 <= pong.bx /\ pong.bx + PONG_BALL_SZ <= PONG_W
    BY DEF PongInv, PongSafe
  <2>2. /\ pong.bx \in Int /\ pong.by \in Int /\ pong.ly \in Int /\ pong.ry \in Int
        /\ pong.score_l \in Int /\ pong.score_r \in Int
    BY <2>1 DEF PongRecords
  <2>3. pong.mode \in {"prompt", "play", "over"}
    BY <2>1 DEF PongRecords, PongModes
  <2>4. pong.score_l \in 0..PongScores - 1 /\ pong.score_r \in 0..PongScores - 1
    BY <2>1, <2>2, PongNumbers DEF PongBase
  <2>5. pong.vx \in {PONG_SPEED, -PONG_SPEED} /\ pong.vy \in {1, -1}
    BY <2>1 DEF PongBase
  <2>6. PongTypeOK
    BY <2>3, <2>4, <2>5 DEF PongTypeOK
  <2>7. pong.bx >= 0 /\ pong.by >= PONG_TOP /\ pong.by + PONG_BALL_SZ <= PONG_BOT
    BY <2>1, <2>2, PongNumbers DEF PongHeight
  <2>8. \A y \in {pong.ly, pong.ry} : y >= 0 /\ y + PONG_PAD_H <= PONG_H
    BY <2>1, <2>2 DEF PongBase
  <2>9. QED
    BY <2>1, <2>6, <2>7, <2>8 DEF PongInPlay, PongWay, PadEdge
<1>4. QED
  BY <1>1, <1>2, <1>3, PTL DEF AsmSpec
-------------------------------------------------------------------------------
(* Space invaders.                                                         *)
SiModes == {"prompt", "play", "over"}
SiBullets == {NoBullet} \cup [1..2 -> Int]
SiRecords == [mode : SiModes, px : Int, dx : Int, ox : Int, oy : Int, tick : Int,
              aliens : SUBSET SiAliens, bullet : SiBullets, score : Int, quit : BOOLEAN,
              win : BOOLEAN]

LEMMA SiNumbers ==
  /\ SI_W \in Nat /\ SI_H \in Nat /\ SI_ALIEN_W \in Nat /\ SI_ALIEN_H \in Nat /\ SI_ALIEN_OX \in Nat
  /\ SI_ALIEN_OY \in Nat /\ SI_PLAYER_W \in Nat /\ SI_PLAYER_H \in Nat /\ SI_PLAYER_STEP \in Nat
  /\ SI_MARGIN \in Nat /\ SI_BULLET_W \in Nat /\ SI_BULLET_H \in Nat /\ SI_ALIEN_DROP \in Nat
  /\ SI_ALIEN_COLS \in Nat /\ SI_ALIEN_COLS > 0 /\ SI_ALIEN_ROWS \in Nat /\ SI_ALIEN_ROWS > 0
  /\ SI_ALIEN_TICKS \in Nat /\ SI_ALIEN_TICKS > 0 /\ SI_ALIEN_SPD \in Nat /\ SI_ALIEN_SPD > 0
  /\ SI_BULLET_SPD \in Nat
BY InvadersAssumption

LEMMA SiRoom ==
  /\ SI_ALIEN_OY + SI_ALIEN_H < SiLine /\ SiLine \in Int
  /\ SI_ALIEN_OX + SI_ALIEN_COLS * (SI_ALIEN_W + 2) + SI_ALIEN_SPD < SI_W
<1>1. /\ SI_ALIEN_OY + SI_ALIEN_H < SiLine
      /\ SI_ALIEN_OX + SI_ALIEN_COLS * (SI_ALIEN_W + 2) + SI_ALIEN_SPD < SI_W
  BY InvadersAssumption DEF SiLine
<1>2. SiLine \in Int
  BY SiNumbers DEF SiLine
<1>3. QED
  BY <1>1, <1>2

LEMMA AlienPlace ==
  ASSUME NEW a \in SiAliens
  PROVE  /\ a[1] \in Nat /\ a[1] <= SI_ALIEN_COLS - 1
         /\ a[2] \in Nat /\ a[2] <= SI_ALIEN_ROWS - 1
         /\ a = <<a[1], a[2]>>
<1>1. a[1] \in 0..SI_ALIEN_COLS - 1 /\ a[2] \in 0..SI_ALIEN_ROWS - 1 /\ a = <<a[1], a[2]>>
  BY DEF SiAliens
<1>2. QED
  BY <1>1, SiNumbers

(* Multiples of a cell's width, or height, are a cell apart.               *)
LEMMA Spaced ==
  ASSUME NEW i \in Nat, NEW j \in Nat, NEW k \in Nat
  PROVE  /\ i * k \in Nat
         /\ i < j => i * k + k <= j * k
         /\ i <= j => i * k <= j * k
<1>1. i * k \in Nat /\ j * k \in Nat
  OBVIOUS
<1>2. ASSUME i < j PROVE i * k + k <= j * k
  <2>1. j - i - 1 \in Nat
    BY <1>2
  <2>2. (j - i - 1) * k \in Nat
    BY <2>1
  <2>3. (j - i - 1) * k = j * k - i * k - k
    OBVIOUS
  <2>4. QED
    BY <1>1, <2>2, <2>3
<1>3. i = j => i * k = j * k
  OBVIOUS
<1>4. QED
  BY <1>1, <1>2, <1>3

CellX(a) == a[1] * (SI_ALIEN_W + 2)
CellY(a) == a[2] * (SI_ALIEN_H + 2)

LEMMA Cells ==
  ASSUME NEW a \in SiAliens
  PROVE  /\ CellX(a) \in Nat /\ CellX(a) + SI_ALIEN_W <= SI_ALIEN_COLS * (SI_ALIEN_W + 2)
         /\ CellY(a) \in Nat /\ CellY(a) <= (SI_ALIEN_ROWS - 1) * (SI_ALIEN_H + 2)
         /\ SI_ALIEN_COLS * (SI_ALIEN_W + 2) \in Nat /\ (SI_ALIEN_ROWS - 1) * (SI_ALIEN_H + 2) \in Nat
<1>1. /\ a[1] \in Nat /\ a[1] < SI_ALIEN_COLS /\ a[2] \in Nat /\ a[2] <= SI_ALIEN_ROWS - 1
      /\ SI_ALIEN_W + 2 \in Nat /\ SI_ALIEN_H + 2 \in Nat /\ SI_ALIEN_COLS \in Nat
      /\ SI_ALIEN_ROWS - 1 \in Nat
  BY AlienPlace, SiNumbers
<1> DEFINE w == SI_ALIEN_W + 2
           h == SI_ALIEN_H + 2
           n == SI_ALIEN_ROWS - 1
<1> HIDE DEF w, h, n
<1>2. w \in Nat /\ h \in Nat /\ n \in Nat /\ a[2] <= n /\ w = SI_ALIEN_W + 2
  BY <1>1 DEF w, h, n
<1>3. /\ a[1] * w \in Nat /\ a[1] * w + w <= SI_ALIEN_COLS * w /\ SI_ALIEN_COLS * w \in Nat
  BY <1>1, <1>2, Spaced
<1>4. a[2] * h \in Nat /\ a[2] * h <= n * h /\ n * h \in Nat
  BY <1>1, <1>2, Spaced
<1>5. a[1] * w + SI_ALIEN_W <= SI_ALIEN_COLS * w
  BY <1>2, <1>3, SiNumbers
<1>6. QED
  BY <1>3, <1>4, <1>5 DEF CellX, CellY, w, h, n

(* Two aliens are never on one point.                                      *)
LEMMA Apart ==
  ASSUME NEW a \in SiAliens, NEW b \in SiAliens, NEW x \in Int, NEW y \in Int,
         NEW ox \in Int, NEW oy \in Int,
         ox + CellX(a) <= x, x < ox + CellX(a) + SI_ALIEN_W,
         ox + CellX(b) <= x, x < ox + CellX(b) + SI_ALIEN_W,
         oy + CellY(a) <= y, y < oy + CellY(a) + SI_ALIEN_H,
         oy + CellY(b) <= y, y < oy + CellY(b) + SI_ALIEN_H
  PROVE  a = b
<1>1. /\ a[1] \in Nat /\ a[2] \in Nat /\ a = <<a[1], a[2]>>
      /\ b[1] \in Nat /\ b[2] \in Nat /\ b = <<b[1], b[2]>>
  BY AlienPlace
<1>2. ASSUME NEW i \in Nat, NEW j \in Nat, NEW k \in Nat, NEW z \in Int, NEW o \in Int,
             o + i * (k + 2) <= z, z < o + i * (k + 2) + k,
             o + j * (k + 2) <= z, z < o + j * (k + 2) + k
      PROVE  i = j
  <2>1. i < j => i * (k + 2) + (k + 2) <= j * (k + 2)
    BY Spaced
  <2>2. j < i => j * (k + 2) + (k + 2) <= i * (k + 2)
    BY Spaced
  <2>3. i * (k + 2) \in Nat /\ j * (k + 2) \in Nat
    BY Spaced
  <2>4. ~(i < j) /\ ~(j < i)
    BY <1>2, <2>1, <2>2, <2>3
  <2>5. QED
    BY <2>4
<1>3. a[1] = b[1]
  BY <1>1, <1>2, SiNumbers DEF CellX
<1>4. a[2] = b[2]
  BY <1>1, <1>2, SiNumbers DEF CellY
<1>5. QED
  BY <1>1, <1>3, <1>4

LEMMA AliensFinite == IsFiniteSet(SiAliens)
<1>1. IsFiniteSet(0..SI_ALIEN_COLS - 1) /\ IsFiniteSet(0..SI_ALIEN_ROWS - 1)
  BY SiNumbers, FS_Interval
<1>2. QED
  BY <1>1, FS_Product DEF SiAliens

(* One kill, one more that is missing.                                     *)
LEMMA OneKill ==
  ASSUME NEW A \in SUBSET SiAliens, NEW h \in A
  PROVE  /\ Cardinality(SiAliens \ A) \in Nat
         /\ Cardinality(SiAliens \ (A \ {h})) = Cardinality(SiAliens \ A) + 1
<1>1. IsFiniteSet(SiAliens \ A)
  BY AliensFinite, FS_Difference
<1>2. SiAliens \ (A \ {h}) = (SiAliens \ A) \cup {h} /\ h \notin SiAliens \ A
  OBVIOUS
<1>3. QED
  BY <1>1, <1>2, FS_AddElement, FS_CardinalityType

SiSafe(s) ==
  /\ s.dx = SI_ALIEN_SPD \/ s.dx = -SI_ALIEN_SPD
  /\ 0 <= s.tick /\ s.tick < SI_ALIEN_TICKS
  /\ \A a \in s.aliens : 0 <= SiX(s, a) /\ SiX(s, a) + SI_ALIEN_W <= SI_W
  /\ s.score = 10 * Cardinality(SiAliens \ s.aliens)

SiHeld(s) ==
  \A a \in s.aliens : SiY(s, a) + SI_ALIEN_H < SiLine + (SI_ALIEN_ROWS - 1) * (SI_ALIEN_H + 2)

(* What a bullet leaves alone.                                             *)
SiKept(s, t) ==
  /\ t.mode = s.mode /\ t.dx = s.dx /\ t.ox = s.ox /\ t.oy = s.oy /\ t.tick = s.tick
  /\ t.quit = s.quit /\ t.aliens \subseteq s.aliens
LEMMA PlaceOf ==
  ASSUME NEW s \in SiRecords, NEW a \in SiAliens
  PROVE  /\ SiX(s, a) = SI_ALIEN_OX + s.ox + CellX(a) /\ SiX(s, a) \in Int
         /\ SiY(s, a) = SI_ALIEN_OY + s.oy + CellY(a) /\ SiY(s, a) \in Int
<1>1. s.ox \in Int /\ s.oy \in Int
  BY DEF SiRecords
<1>2. SiX(s, a) = SI_ALIEN_OX + s.ox + CellX(a) /\ SiY(s, a) = SI_ALIEN_OY + s.oy + CellY(a)
  BY DEF SiX, SiY, CellX, CellY
<1>3. QED
  BY <1>1, <1>2, Cells, SiNumbers

LEMMA KeptSafe ==
  ASSUME NEW s \in SiRecords, SiSafe(s), NEW t \in SiRecords, SiKept(s, t),
         t.score = 10 * Cardinality(SiAliens \ t.aliens)
  PROVE  SiSafe(t) /\ (SiHeld(s) => SiHeld(t))
<1>1. \A a \in t.aliens : SiX(t, a) = SiX(s, a) /\ SiY(t, a) = SiY(s, a) /\ a \in s.aliens
  BY DEF SiKept, SiX, SiY
<1>2. SiHeld(s) => SiHeld(t)
  BY <1>1 DEF SiHeld
<1>3. \A a \in t.aliens : 0 <= SiX(t, a) /\ SiX(t, a) + SI_ALIEN_W <= SI_W
  BY <1>1 DEF SiSafe
<1>4. QED
  BY <1>2, <1>3 DEF SiSafe, SiKept

LEMMA BulletFlies ==
  ASSUME NEW s \in SiRecords, SiSafe(s)
  PROVE  LET t == SiBulletStep(s)
         IN  t \in SiRecords /\ SiKept(s, t) /\ t.score = 10 * Cardinality(SiAliens \ t.aliens)
<1> DEFINE t == SiBulletStep(s)
           up == [s EXCEPT !.bullet[2] = @ - SI_BULLET_SPD]
           hits == {a \in s.aliens : SiHit(up, a)}
           Goal == t \in SiRecords /\ SiKept(s, t) /\ t.score = 10 * Cardinality(SiAliens \ t.aliens)
<1>1. /\ s.aliens \in SUBSET SiAliens /\ s.score \in Int /\ s.ox \in Int /\ s.oy \in Int
      /\ s.score = 10 * Cardinality(SiAliens \ s.aliens)
  BY DEF SiRecords, SiSafe
<1>2. CASE s.bullet = NoBullet
  BY <1>1, <1>2 DEF SiBulletStep, SiKept
<1>3. CASE s.bullet # NoBullet
  <2>1. s.bullet \in [1..2 -> Int]
    BY <1>3 DEF SiRecords, SiBullets
  <2> DEFINE b == [s.bullet EXCEPT ![2] = s.bullet[2] - SI_BULLET_SPD]
  <2>2. s.bullet[1] \in Int /\ s.bullet[2] \in Int
    BY <2>1
  <2>3. b \in [1..2 -> Int] /\ b[1] \in Int /\ b[2] \in Int
    BY <2>1, <2>2, SiNumbers
  <2>4. up = [s EXCEPT !.bullet = b]
    BY <2>1 DEF SiRecords
  <2> HIDE DEF b
  <2>5. b \in SiBullets
    BY <2>3 DEF SiBullets
  <2>6. /\ up \in SiRecords /\ up.bullet = b /\ SiKept(s, up) /\ up.aliens = s.aliens
        /\ up.score = s.score /\ up.ox = s.ox /\ up.oy = s.oy
    BY <2>4, <2>5 DEF SiRecords, SiKept
  <2>7. /\ SiBulletStep(s) = IF up.bullet[2] < 0 THEN [s EXCEPT !.bullet = NoBullet]
                             ELSE IF hits = {} THEN up
                             ELSE [s EXCEPT !.aliens = @ \ hits, !.score = @ + 10, !.bullet = NoBullet]
    BY <1>3 DEF SiBulletStep
  <2>8. NoBullet \in SiBullets
    BY DEF SiBullets
  <2> HIDE DEF up
  <2>9. ASSUME t = [s EXCEPT !.bullet = NoBullet] PROVE Goal
    <3> HIDE DEF t
    <3>1. t \in SiRecords /\ SiKept(s, t) /\ t.aliens = s.aliens /\ t.score = s.score
      BY <2>8, <2>9 DEF SiRecords, SiKept
    <3>2. QED
      BY <1>1, <3>1
  <2>10. ASSUME t = up PROVE Goal
    <3> HIDE DEF t
    <3>2. QED
      BY <1>1, <2>6, <2>10
  <2>11. ASSUME hits # {}, t = [s EXCEPT !.aliens = @ \ hits, !.score = @ + 10, !.bullet = NoBullet]
         PROVE  Goal
    <3>1. PICK h \in s.aliens : SiHit(up, h)
      BY <2>11
    <3> DEFINE x == b[1] + SI_BULLET_W \div 2
               y == b[2] + SI_BULLET_H \div 2
    <3>2. x \in Int /\ y \in Int
      BY <2>3, SiNumbers
    <3>3. ASSUME NEW a \in s.aliens, SiHit(up, a)
          PROVE  /\ a \in SiAliens
                 /\ SI_ALIEN_OX + s.ox + CellX(a) <= x /\ x < SI_ALIEN_OX + s.ox + CellX(a) + SI_ALIEN_W
                 /\ SI_ALIEN_OY + s.oy + CellY(a) <= y /\ y < SI_ALIEN_OY + s.oy + CellY(a) + SI_ALIEN_H
      <4>1. a \in SiAliens
        BY <1>1
      <4>2. /\ SiX(up, a) = SI_ALIEN_OX + s.ox + CellX(a) /\ SiY(up, a) = SI_ALIEN_OY + s.oy + CellY(a)
        BY <2>6, <4>1, PlaceOf
      <4>3. /\ SiX(up, a) <= x /\ x < SiX(up, a) + SI_ALIEN_W
            /\ SiY(up, a) <= y /\ y < SiY(up, a) + SI_ALIEN_H
        BY <2>6, <3>3 DEF SiHit
      <4>4. QED
        BY <4>1, <4>2, <4>3
    <3> HIDE DEF x, y
    <3> DEFINE ox == SI_ALIEN_OX + s.ox
               oy == SI_ALIEN_OY + s.oy
    <3>4. ox \in Int /\ oy \in Int
      BY <1>1, SiNumbers
    <3>5. ASSUME NEW a \in s.aliens, SiHit(up, a) PROVE a = h
      <4>1. /\ ox + CellX(a) <= x /\ x < ox + CellX(a) + SI_ALIEN_W
            /\ oy + CellY(a) <= y /\ y < oy + CellY(a) + SI_ALIEN_H /\ a \in SiAliens
        BY <3>3, <3>5
      <4>2. /\ ox + CellX(h) <= x /\ x < ox + CellX(h) + SI_ALIEN_W
            /\ oy + CellY(h) <= y /\ y < oy + CellY(h) + SI_ALIEN_H /\ h \in SiAliens
        BY <3>1, <3>3
      <4> HIDE DEF ox, oy
      <4>3. QED
        BY <3>2, <3>4, <4>1, <4>2, Apart
    <3>6. hits = {h}
      BY <3>1, <3>5
    <3> DEFINE A == s.aliens \ {h}
               n == s.score + 10
    <3>7. A \in SUBSET SiAliens /\ A \subseteq s.aliens /\ n \in Int
      BY <1>1
    <3>8. n = 10 * Cardinality(SiAliens \ A)
      <4>1. /\ Cardinality(SiAliens \ s.aliens) \in Nat
            /\ Cardinality(SiAliens \ A) = Cardinality(SiAliens \ s.aliens) + 1
        BY <1>1, <3>1, OneKill
      <4>2. QED
        BY <1>1, <4>1
    <3>9. t = [s EXCEPT !.aliens = A, !.score = n, !.bullet = NoBullet]
      BY <2>11, <3>6
    <3> HIDE DEF A, n, t
    <3>10. t \in SiRecords /\ SiKept(s, t) /\ t.aliens = A /\ t.score = n
      BY <2>8, <3>7, <3>9 DEF SiRecords, SiKept
    <3>11. QED
      BY <3>8, <3>10
  <2>12. QED
    BY <2>7, <2>9, <2>10, <2>11
<1>4. QED
  BY <1>2, <1>3

(* The one alien that the bottom line is held against exists, and no alien *)
(* is lower by more than the rows.                                         *)
LEMMA NotLanded ==
  ASSUME NEW s \in SiRecords, ~SiLanded(s)
  PROVE  SiHeld(s)
<1> SUFFICES ASSUME NEW b \in s.aliens
             PROVE  SiY(s, b) + SI_ALIEN_H < SiLine + (SI_ALIEN_ROWS - 1) * (SI_ALIEN_H + 2)
  BY DEF SiHeld
<1> DEFINE col == {a \in s.aliens : \A c \in s.aliens : a[1] <= c[1]}
           T == {a[1] : a \in s.aliens}
           U == {SI_ALIEN_ROWS - 1 - a[2] : a \in col}
<1>1. s.aliens \in SUBSET SiAliens /\ s.oy \in Int
  BY DEF SiRecords
<1>2. \A a \in s.aliens : /\ a[1] \in Nat /\ a[2] \in Nat /\ a[2] <= SI_ALIEN_ROWS - 1
                          /\ SI_ALIEN_ROWS - 1 - a[2] \in Nat
  BY <1>1, AlienPlace, SiNumbers
<1>3. PICK a \in s.aliens : a \in col
  <2>1. T \in SUBSET Nat /\ T # {}
    BY <1>2
  <2> HIDE DEF T
  <2>2. Min(T) \in T /\ \A y \in T : Min(T) <= y
    BY <2>1, MinIsLeast
  <2>3. PICK a \in s.aliens : a[1] = Min(T)
    BY <2>2 DEF T
  <2>4. \A c \in s.aliens : c[1] \in T
    BY DEF T
  <2>5. QED
    BY <2>2, <2>3, <2>4
<1>4. PICK l \in col : \A c \in col : c[2] <= l[2]
  <2>1. U \in SUBSET Nat /\ U # {}
    BY <1>2, <1>3
  <2> HIDE DEF U
  <2>2. Min(U) \in U /\ \A y \in U : Min(U) <= y
    BY <2>1, MinIsLeast
  <2>3. PICK l \in col : SI_ALIEN_ROWS - 1 - l[2] = Min(U)
    BY <2>2 DEF U
  <2>4. \A c \in col : SI_ALIEN_ROWS - 1 - c[2] \in U
    BY DEF U
  <2>5. \A c \in col : SI_ALIEN_ROWS - 1 - l[2] <= SI_ALIEN_ROWS - 1 - c[2] /\ c \in s.aliens
    BY <2>2, <2>3, <2>4
  <2>6. QED
    BY <1>2, <2>5, SiNumbers
<1>5. ~(SiY(s, l) + SI_ALIEN_H >= SiLine) /\ l \in SiAliens /\ b \in SiAliens
  BY <1>1, <1>4 DEF SiLanded
<1>6. /\ SiY(s, l) = SI_ALIEN_OY + s.oy + CellY(l) /\ SiY(s, b) = SI_ALIEN_OY + s.oy + CellY(b)
      /\ SiY(s, l) \in Int /\ SiY(s, b) \in Int
  BY <1>5, PlaceOf
<1> DEFINE most == (SI_ALIEN_ROWS - 1) * (SI_ALIEN_H + 2)
<1>7. CellY(l) \in Nat /\ CellY(b) \in Nat /\ CellY(b) <= most /\ most \in Nat
  BY <1>5, Cells
<1> HIDE DEF most
<1>8. SiY(s, b) + SI_ALIEN_H < SiLine + most
  BY <1>1, <1>5, <1>6, <1>7, SiNumbers, SiRoom
<1>9. QED
  BY <1>8 DEF most

LEMMA Marched ==
  ASSUME NEW s \in SiRecords, SiSafe(s), SiHeld(s)
  PROVE  LET t == SiMarch(s)
         IN  /\ t \in SiRecords /\ SiSafe(t) /\ t.mode = s.mode /\ t.aliens = s.aliens
             /\ t.quit \/ SiHeld(t)
<1> DEFINE t == SiMarch(s)
<1>1. /\ s.aliens \in SUBSET SiAliens /\ s.ox \in Int /\ s.oy \in Int /\ s.dx \in Int
      /\ s.quit \in BOOLEAN
  BY DEF SiRecords
<1>2. CASE SiBlocked(s)
  <2> DEFINE dx == -s.dx
             oy == s.oy + SI_ALIEN_DROP
             down == [s EXCEPT !.dx = dx, !.oy = oy]
             q == s.quit \/ SiLanded(down)
  <2>1. dx \in Int /\ oy \in Int
    BY <1>1, SiNumbers
  <2>2. dx = SI_ALIEN_SPD \/ dx = -SI_ALIEN_SPD
    <3>1. s.dx = SI_ALIEN_SPD \/ s.dx + SI_ALIEN_SPD = 0
      BY SiNumbers DEF SiSafe
    <3>2. QED
      BY <1>1, <3>1, SiNumbers
  <2>3. t = [down EXCEPT !.quit = @ \/ SiLanded(down)]
    BY <1>1, <1>2 DEF SiMarch, SiRecords
  <2> HIDE DEF dx, oy
  <2>4. /\ down \in SiRecords /\ down.dx = dx /\ down.oy = oy /\ down.mode = s.mode /\ down.ox = s.ox
        /\ down.tick = s.tick /\ down.aliens = s.aliens /\ down.score = s.score /\ down.quit = s.quit
    BY <2>1 DEF SiRecords
  <2> HIDE DEF down
  <2>5. q \in BOOLEAN
    BY DEF SiLanded
  <2>6. t = [down EXCEPT !.quit = q]
    BY <2>3, <2>4
  <2>7. q \/ ~SiLanded(down)
    OBVIOUS
  <2> HIDE DEF q, t
  <2>8. /\ t \in SiRecords /\ t.dx = dx /\ t.oy = oy /\ t.mode = s.mode /\ t.ox = s.ox
        /\ t.tick = s.tick /\ t.aliens = s.aliens /\ t.score = s.score /\ t.quit = q
    BY <2>4, <2>5, <2>6 DEF SiRecords
  <2>9. \A a \in t.aliens : SiX(t, a) = SiX(s, a) /\ SiY(t, a) = SiY(down, a)
    BY <2>4, <2>8 DEF SiX, SiY
  <2>10. SiSafe(t)
    <3>1. \A a \in t.aliens : 0 <= SiX(t, a) /\ SiX(t, a) + SI_ALIEN_W <= SI_W
      BY <2>8, <2>9 DEF SiSafe
    <3>2. QED
      BY <2>2, <2>8, <3>1 DEF SiSafe
  <2>11. q \/ SiHeld(t)
    <3>1. ~SiLanded(down) => SiHeld(down)
      BY <2>4, NotLanded
    <3>2. SiHeld(down) => SiHeld(t)
      BY <2>4, <2>8, <2>9 DEF SiHeld
    <3>3. QED
      BY <2>7, <3>1, <3>2
  <2>12. QED
    BY <2>8, <2>10, <2>11 DEF t
<1>3. CASE ~SiBlocked(s)
  <2> DEFINE ox == s.ox + s.dx
  <2>1. t = [s EXCEPT !.ox = ox] /\ ox \in Int
    BY <1>1, <1>3 DEF SiMarch, SiRecords
  <2> HIDE DEF t
  <2>2. ASSUME NEW a \in s.aliens
        PROVE  0 <= SI_ALIEN_OX + ox + CellX(a) /\ SI_ALIEN_OX + ox + CellX(a) + SI_ALIEN_W <= SI_W
    <3>1. a \in SiAliens
      BY <1>1
    <3>2. /\ SiX(s, a) = SI_ALIEN_OX + s.ox + CellX(a) /\ SiX(s, a) \in Int /\ CellX(a) \in Nat
          /\ 0 <= SiX(s, a) /\ SiX(s, a) + SI_ALIEN_W <= SI_W
      BY <3>1, PlaceOf, Cells DEF SiSafe
    <3>3. /\ s.dx < 0 => ~(SiX(s, a) + s.dx <= 0)
          /\ s.dx > 0 => ~(SiX(s, a) + SI_ALIEN_W + s.dx >= SI_W)
      BY <1>3 DEF SiBlocked
    <3>4. s.dx < 0 \/ s.dx > 0
      <4>1. s.dx = SI_ALIEN_SPD \/ s.dx + SI_ALIEN_SPD = 0
        BY SiNumbers DEF SiSafe
      <4>2. QED
        BY <1>1, <4>1, SiNumbers
    <3>5. QED
      BY <1>1, <3>2, <3>3, <3>4, SiNumbers
  <2> HIDE DEF ox
  <2>3. /\ t \in SiRecords /\ t.ox = ox /\ t.oy = s.oy /\ t.mode = s.mode /\ t.dx = s.dx
        /\ t.tick = s.tick /\ t.aliens = s.aliens /\ t.score = s.score
    BY <2>1 DEF SiRecords
  <2>4. \A a \in t.aliens : SiX(t, a) = SI_ALIEN_OX + ox + CellX(a) /\ SiY(t, a) = SiY(s, a)
    BY <2>3 DEF SiX, SiY, CellX
  <2>5. SiSafe(t)
    <3>1. \A a \in t.aliens : 0 <= SiX(t, a) /\ SiX(t, a) + SI_ALIEN_W <= SI_W
      BY <2>2, <2>3, <2>4
    <3>2. QED
      BY <2>3, <3>1 DEF SiSafe
  <2>6. SiHeld(t)
    BY <2>3, <2>4 DEF SiHeld
  <2>7. QED
    BY <2>3, <2>5, <2>6 DEF t
<1>4. QED
  BY <1>2, <1>3
SiSound(s) ==
  /\ s \in SiRecords /\ SiSafe(s)
  /\ s.mode = "play" => SiHeld(s)
  /\ s.win <=> s.aliens = {}

LEMMA SiStarts ==
  /\ SiOff \in SiRecords /\ SiSafe(SiOff) /\ SiHeld(SiOff) /\ SiSound(SiOff)
  /\ SiOff.aliens # {} /\ ~SiOff.win
<1> DEFINE px == SI_W \div 2 - SI_PLAYER_W \div 2
<1>1. px \in Int /\ SI_ALIEN_SPD \in Int
  BY SiNumbers
<1>2. "prompt" \in SiModes /\ NoBullet \in SiBullets
  BY DEF SiModes, SiBullets
<1>3. SiOff = [mode |-> "prompt", px |-> px, dx |-> SI_ALIEN_SPD,
               ox |-> 0, oy |-> 0, tick |-> 0, aliens |-> SiAliens, bullet |-> NoBullet,
               score |-> 0, quit |-> FALSE, win |-> FALSE]
  BY DEF SiOff
<1> HIDE DEF px
<1>4. SiAliens \in SUBSET SiAliens /\ FALSE \in BOOLEAN
  OBVIOUS
<1>5. 0 \in Int
  OBVIOUS
<1>6. /\ SiOff \in SiRecords /\ SiOff.dx = SI_ALIEN_SPD /\ SiOff.ox = 0 /\ SiOff.oy = 0 /\ SiOff.tick = 0
      /\ SiOff.aliens = SiAliens /\ SiOff.score = 0
  BY <1>1, <1>2, <1>3, <1>4, <1>5 DEF SiRecords
<1>7. ~SiOff.win
  BY <1>3
<1>8. SiOff.score = 10 * Cardinality(SiAliens \ SiOff.aliens)
  <2>1. SiAliens \ SiOff.aliens = {} /\ Cardinality({}) = 0
    BY <1>6, FS_EmptySet
  <2>2. QED
    BY <1>6, <2>1
<1>9. ASSUME NEW a \in SiAliens
      PROVE  /\ 0 <= SiX(SiOff, a) /\ SiX(SiOff, a) + SI_ALIEN_W <= SI_W
             /\ SiY(SiOff, a) + SI_ALIEN_H < SiLine + (SI_ALIEN_ROWS - 1) * (SI_ALIEN_H + 2)
  <2> DEFINE all == SI_ALIEN_COLS * (SI_ALIEN_W + 2)
             most == (SI_ALIEN_ROWS - 1) * (SI_ALIEN_H + 2)
  <2>1. SiX(SiOff, a) = SI_ALIEN_OX + 0 + CellX(a) /\ SiY(SiOff, a) = SI_ALIEN_OY + 0 + CellY(a)
    BY <1>6, PlaceOf
  <2>2. /\ CellX(a) \in Nat /\ CellX(a) + SI_ALIEN_W <= all /\ all \in Nat
        /\ CellY(a) \in Nat /\ CellY(a) <= most /\ most \in Nat
    BY Cells
  <2>3. SI_ALIEN_OX + all + SI_ALIEN_SPD < SI_W /\ SI_ALIEN_OY + SI_ALIEN_H < SiLine /\ SiLine \in Int
    BY SiRoom
  <2> HIDE DEF all, most
  <2>4. /\ 0 <= SiX(SiOff, a) /\ SiX(SiOff, a) + SI_ALIEN_W <= SI_W
        /\ SiY(SiOff, a) + SI_ALIEN_H < SiLine + most
    BY <2>1, <2>2, <2>3, SiNumbers
  <2>5. QED
    BY <2>4 DEF most
<1>10. SiSafe(SiOff)
  BY <1>6, <1>8, <1>9, SiNumbers DEF SiSafe
<1>11. SiHeld(SiOff)
  BY <1>6, <1>9 DEF SiHeld
<1>12. SiAliens # {}
  <2>1. 0 \in 0..SI_ALIEN_COLS - 1 /\ 0 \in 0..SI_ALIEN_ROWS - 1
    BY SiNumbers
  <2>2. <<0, 0>> \in SiAliens
    BY <2>1 DEF SiAliens
  <2>3. QED
    BY <2>2
<1>13. QED
  BY <1>6, <1>7, <1>10, <1>11, <1>12 DEF SiSound

(* A change of what the invariant does not speak about.                    *)
LEMMA SiOther ==
  ASSUME NEW s, SiSound(s), NEW t \in SiRecords,
         t.mode = s.mode, t.dx = s.dx, t.ox = s.ox, t.oy = s.oy, t.tick = s.tick,
         t.aliens = s.aliens, t.score = s.score, t.win = s.win
  PROVE  SiSound(t)
<1>1. \A a \in t.aliens : SiX(t, a) = SiX(s, a) /\ SiY(t, a) = SiY(s, a)
  BY DEF SiX, SiY
<1>2. SiSafe(t)
  <2>1. \A a \in t.aliens : 0 <= SiX(t, a) /\ SiX(t, a) + SI_ALIEN_W <= SI_W
    BY <1>1 DEF SiSound, SiSafe
  <2>2. QED
    BY <2>1 DEF SiSound, SiSafe
<1>3. t.mode = "play" => SiHeld(t)
  BY <1>1 DEF SiSound, SiHeld
<1>4. QED
  BY <1>2, <1>3 DEF SiSound

LEMMA TickKeepsSi ==
  ASSUME SiSound(si), NEW esc \in BOOLEAN, space_invaders_tick(esc)
  PROVE  SiSound(si')
<1> DEFINE s0 == [si EXCEPT !.quit = esc]
           shot == SiBulletStep(s0)
           next == shot.tick + 1
           moved == IF shot.tick + 1 >= SI_ALIEN_TICKS
                    THEN SiMarch([shot EXCEPT !.tick = 0]) ELSE [shot EXCEPT !.tick = @ + 1]
           won == moved.aliens = {}
           quit == moved.quit \/ won
<1>1. si \in SiRecords /\ SiSafe(si) /\ SiHeld(si) /\ si.mode = "play"
  BY DEF SiSound, space_invaders_tick
<1>2. si' = [moved EXCEPT !.win = won, !.quit = quit, !.mode = IF quit THEN "over" ELSE "play"]
  BY DEF space_invaders_tick
<1>3. s0 \in SiRecords /\ SiSafe(s0) /\ SiHeld(s0)
  <2>1. /\ s0 \in SiRecords /\ s0.dx = si.dx /\ s0.ox = si.ox /\ s0.oy = si.oy /\ s0.tick = si.tick
        /\ s0.aliens = si.aliens /\ s0.score = si.score /\ s0.win = si.win /\ s0.mode = si.mode
    BY <1>1 DEF SiRecords
  <2> HIDE DEF s0
  <2>2. SiSound(s0)
    BY <2>1, SiOther
  <2>3. QED
    BY <1>1, <2>1, <2>2 DEF SiSound
<1> HIDE DEF s0
<1>4. /\ shot \in SiRecords /\ SiKept(s0, shot) /\ shot.score = 10 * Cardinality(SiAliens \ shot.aliens)
  BY <1>3, BulletFlies
<1> HIDE DEF shot
<1>5. SiSafe(shot) /\ SiHeld(shot)
  BY <1>3, <1>4, KeptSafe
<1>6. shot.tick \in Int /\ 0 <= shot.tick /\ shot.tick < SI_ALIEN_TICKS
  BY <1>4, <1>5 DEF SiRecords, SiSafe
<1>7. ASSUME NEW n \in Int, 0 <= n, n < SI_ALIEN_TICKS
      PROVE  /\ [shot EXCEPT !.tick = n] \in SiRecords /\ SiSafe([shot EXCEPT !.tick = n])
             /\ SiHeld([shot EXCEPT !.tick = n])
  <2> DEFINE t == [shot EXCEPT !.tick = n]
  <2>1. /\ t \in SiRecords /\ t.dx = shot.dx /\ t.ox = shot.ox /\ t.oy = shot.oy /\ t.tick = n
        /\ t.aliens = shot.aliens /\ t.score = shot.score
    BY <1>4 DEF SiRecords
  <2> HIDE DEF t
  <2>2. \A a \in t.aliens : SiX(t, a) = SiX(shot, a) /\ SiY(t, a) = SiY(shot, a)
    BY <2>1 DEF SiX, SiY
  <2>3. \A a \in t.aliens : 0 <= SiX(t, a) /\ SiX(t, a) + SI_ALIEN_W <= SI_W
    BY <1>5, <2>1, <2>2 DEF SiSafe
  <2>4. SiSafe(t) /\ SiHeld(t)
    BY <1>5, <1>7, <2>1, <2>2, <2>3 DEF SiSafe, SiHeld
  <2>5. QED
    BY <2>1, <2>4 DEF t
<1>8. moved \in SiRecords /\ SiSafe(moved) /\ (moved.quit \/ SiHeld(moved))
  <2>1. CASE shot.tick + 1 >= SI_ALIEN_TICKS
    <3> DEFINE z == [shot EXCEPT !.tick = 0]
    <3>1. z \in SiRecords /\ SiSafe(z) /\ SiHeld(z)
      BY <1>7, SiNumbers
    <3>2. moved = SiMarch(z)
      BY <2>1
    <3> HIDE DEF z, moved
    <3>3. QED
      BY <3>1, <3>2, Marched
  <2>2. CASE ~(shot.tick + 1 >= SI_ALIEN_TICKS)
    <3>1. next \in Int /\ 0 <= next /\ next < SI_ALIEN_TICKS
      BY <1>6, <2>2, SiNumbers
    <3>2. moved = [shot EXCEPT !.tick = next]
      BY <1>4, <2>2 DEF SiRecords
    <3> HIDE DEF next, moved
    <3>3. QED
      BY <1>7, <3>1, <3>2
  <2>3. QED
    BY <2>1, <2>2
<1> HIDE DEF moved
<1>9. won \in BOOLEAN /\ quit \in BOOLEAN /\ (won <=> moved.aliens = {}) /\ (quit \/ SiHeld(moved))
  <2>1. moved.quit \in BOOLEAN
    BY <1>8 DEF SiRecords
  <2>2. QED
    BY <1>8, <2>1
<1> DEFINE mode == IF quit THEN "over" ELSE "play"
<1>10. mode \in SiModes /\ (mode = "play" => ~quit)
  BY DEF SiModes
<1>11. si' = [moved EXCEPT !.win = won, !.quit = quit, !.mode = mode]
  BY <1>2
<1> HIDE DEF won, quit, mode
<1>12. /\ si' \in SiRecords /\ si'.dx = moved.dx /\ si'.ox = moved.ox /\ si'.oy = moved.oy
       /\ si'.tick = moved.tick /\ si'.aliens = moved.aliens /\ si'.score = moved.score
       /\ si'.win = won /\ si'.mode = mode
  BY <1>8, <1>9, <1>10, <1>11 DEF SiRecords
<1>13. \A a \in si'.aliens : SiX(si', a) = SiX(moved, a) /\ SiY(si', a) = SiY(moved, a)
  BY <1>12 DEF SiX, SiY
<1>14. SiSafe(si')
  <2>1. \A a \in si'.aliens : 0 <= SiX(si', a) /\ SiX(si', a) + SI_ALIEN_W <= SI_W
    BY <1>8, <1>12, <1>13 DEF SiSafe
  <2>2. QED
    BY <1>8, <1>12, <2>1 DEF SiSafe
<1>15. si'.mode = "play" => SiHeld(si')
  BY <1>9, <1>10, <1>12, <1>13 DEF SiHeld
<1>16. si'.win <=> si'.aliens = {}
  BY <1>9, <1>12
<1>17. QED
  BY <1>12, <1>14, <1>15, <1>16 DEF SiSound

LEMMA SiSteps == [AsmNext]_asmVars => SiNext \/ si' = SiOff \/ UNCHANGED si
BY DEF AsmNext, PlayGame, DrawScreen, UseWire, UseTables, UseDisk, Reset, asmVars, games

LEMMA NextKeepsSi == SiSound(si) /\ [AsmNext]_asmVars => SiSound(si')
<1> SUFFICES ASSUME SiSound(si), [AsmNext]_asmVars PROVE SiSound(si')
  OBVIOUS
<1>1. SiNext \/ si' = SiOff \/ UNCHANGED si
  BY SiSteps
<1>2. CASE si' = SiOff
  BY <1>2, SiStarts
<1>3. CASE UNCHANGED si
  BY <1>3
<1>4. CASE space_invaders_init
  <2>1. si' = [SiOff EXCEPT !.mode = "play"] /\ "play" \in SiModes
    BY <1>4 DEF space_invaders_init, SiModes
  <2>2. /\ si' \in SiRecords /\ si'.dx = SiOff.dx /\ si'.ox = SiOff.ox /\ si'.oy = SiOff.oy
        /\ si'.tick = SiOff.tick /\ si'.aliens = SiOff.aliens /\ si'.score = SiOff.score
        /\ si'.win = SiOff.win
    BY <2>1, SiStarts DEF SiRecords
  <2>3. \A a \in si'.aliens : SiX(si', a) = SiX(SiOff, a) /\ SiY(si', a) = SiY(SiOff, a)
    BY <2>2 DEF SiX, SiY
  <2>4. SiSafe(si')
    <3>1. \A a \in si'.aliens : 0 <= SiX(si', a) /\ SiX(si', a) + SI_ALIEN_W <= SI_W
      BY <2>2, <2>3, SiStarts DEF SiSafe
    <3>2. QED
      BY <2>2, <3>1, SiStarts DEF SiSafe
  <2>5. SiHeld(si')
    BY <2>2, <2>3, SiStarts DEF SiHeld
  <2>6. QED
    BY <2>2, <2>4, <2>5, SiStarts DEF SiSound
<1>5. si \in SiRecords /\ si.px \in Int
  BY DEF SiSound, SiRecords
<1>6. CASE SiLeft \/ SiRight
  <2> DEFINE l == si.px - SI_PLAYER_STEP
             r == si.px + SI_PLAYER_STEP
  <2>1. l \in Int /\ r \in Int
    BY <1>5, SiNumbers
  <2>2. si' = [si EXCEPT !.px = l] \/ si' = [si EXCEPT !.px = r]
    BY <1>6 DEF SiLeft, SiRight
  <2> HIDE DEF l, r
  <2>3. /\ si' \in SiRecords /\ si'.mode = si.mode /\ si'.dx = si.dx /\ si'.ox = si.ox /\ si'.oy = si.oy
        /\ si'.tick = si.tick /\ si'.aliens = si.aliens /\ si'.score = si.score /\ si'.win = si.win
    BY <1>5, <2>1, <2>2 DEF SiRecords
  <2>4. QED
    BY <2>3, SiOther
<1>7. CASE si_fire
  <2> DEFINE x == si.px + SI_PLAYER_W \div 2 - SI_BULLET_W \div 2
             y == SI_H - SI_PLAYER_H - SI_BULLET_H
             b == <<x, y>>
  <2>1. x \in Int /\ y \in Int
    BY <1>5, SiNumbers
  <2>2. si' = [si EXCEPT !.bullet = b]
    BY <1>7 DEF si_fire
  <2> HIDE DEF x, y
  <2>3. b \in [1..2 -> Int]
    BY <2>1
  <2> HIDE DEF b
  <2>4. b \in SiBullets
    BY <2>3 DEF SiBullets
  <2>5. /\ si' \in SiRecords /\ si'.mode = si.mode /\ si'.dx = si.dx /\ si'.ox = si.ox /\ si'.oy = si.oy
        /\ si'.tick = si.tick /\ si'.aliens = si.aliens /\ si'.score = si.score /\ si'.win = si.win
    BY <1>5, <2>2, <2>4 DEF SiRecords
  <2>6. QED
    BY <2>5, SiOther
<1>8. ASSUME NEW esc \in BOOLEAN, space_invaders_tick(esc) PROVE SiSound(si')
  BY <1>8, TickKeepsSi
<1>9. CASE space_invaders_leave
  BY <1>2, <1>9 DEF space_invaders_leave
<1>10. QED
  BY <1>1, <1>2, <1>3, <1>4, <1>6, <1>7, <1>8, <1>9 DEF SiNext

SiInv == SiSound(si)

(* No living alien of space invaders marches over an edge, however many    *)
(* columns were shot away, each kill counts once, the last one wins, and   *)
(* the check of one alien against the bottom line overlooks no more than   *)
(* the rows, for every number and size of aliens.                          *)
THEOREM InvadersAreHeld == AsmSpec => []InvadersHeld
<1>1. AsmInit => SiInv
  BY SiStarts DEF AsmInit, SiInit, SiInv
<1>2. SiInv /\ [AsmNext]_asmVars => SiInv'
  BY NextKeepsSi DEF SiInv, SiSound, SiSafe, SiHeld, SiX, SiY
<1>3. SiInv => InvadersHeld
  <2> SUFFICES ASSUME SiInv PROVE InvadersHeld
    OBVIOUS
  <2>1. /\ si \in SiRecords /\ SiSafe(si) /\ (si.mode = "play" => SiHeld(si))
        /\ (si.win <=> si.aliens = {})
    BY DEF SiInv, SiSound
  <2>2. si.tick \in Int /\ si.aliens \subseteq SiAliens
    BY <2>1 DEF SiRecords
  <2>3. si.mode \in {"prompt", "play", "over"}
    BY <2>1 DEF SiRecords, SiModes
  <2>4. si.tick \in 0..SI_ALIEN_TICKS - 1
    BY <2>1, <2>2, SiNumbers DEF SiSafe
  <2>5. si.dx \in {SI_ALIEN_SPD, -SI_ALIEN_SPD}
    BY <2>1 DEF SiSafe
  <2>6. SiTypeOK
    BY <2>2, <2>3, <2>4, <2>5 DEF SiTypeOK
  <2>7. \A a \in si.aliens : SiX(si, a) >= 0 /\ SiX(si, a) + SI_ALIEN_W <= SI_W
    <3>1. \A a \in si.aliens : SiX(si, a) \in Int
      BY <2>1, <2>2, PlaceOf
    <3>2. QED
      BY <2>1, <3>1 DEF SiSafe
  <2>8. QED
    BY <2>1, <2>6, <2>7 DEF InvadersHeld, SiSafe, SiHeld
<1>4. QED
  BY <1>1, <1>2, <1>3, PTL DEF AsmSpec
-------------------------------------------------------------------------------
(* The snake.  What the ticks keep of the body, as a property of a state.  *)
SnakeModes == {"prompt", "play", "over"}
SnakeRecords == [mode : SnakeModes, seg : Seq(SnakeCell), dir : 0..3, next_dir : 0..3,
                 food : SnakeCell, score : Nat]

Ahead(c, d) == <<c[1] + SnakeStep[d + 1][1], c[2] + SnakeStep[d + 1][2]>>
Beside(a, b) == (a[1] - b[1]) * (a[1] - b[1]) + (a[2] - b[2]) * (a[2] - b[2]) = 1

Joined(s) ==
  /\ \A i, j \in 1..Len(s) : s[i] = s[j] => i = j
  /\ \A i \in 1..Len(s) - 1 : Beside(s[i], s[i + 1])

LEMMA SnakeNumbers ==
  /\ SNAKE_GRID_W \in Nat /\ SNAKE_GRID_W >= 6 /\ SNAKE_GRID_H \in Nat /\ SNAKE_GRID_H >= 4
  /\ SNAKE_MAX_LEN \in Nat /\ SNAKE_MAX_LEN > 3 /\ SNAKE_FOOD_TRIES \in Nat /\ SNAKE_FOOD_TRIES > 0
  /\ SnakeScores \in Nat /\ SnakeScores > 0
BY SnakeAssumption

LEMMA CellOf ==
  ASSUME NEW c \in SnakeCell
  PROVE  /\ c[1] \in Int /\ c[2] \in Int /\ c = <<c[1], c[2]>>
         /\ 1 <= c[1] /\ c[1] <= SNAKE_GRID_W - 2 /\ 1 <= c[2] /\ c[2] <= SNAKE_GRID_H - 2
BY SnakeNumbers DEF SnakeCell

LEMMA CellFrom ==
  ASSUME NEW x \in Int, NEW y \in Int, 1 <= x, x <= SNAKE_GRID_W - 2, 1 <= y, y <= SNAKE_GRID_H - 2
  PROVE  <<x, y>> \in SnakeCell
BY SnakeNumbers DEF SnakeCell

LEMMA StepOf ==
  ASSUME NEW d \in 0..3
  PROVE  LET x == SnakeStep[d + 1][1]  y == SnakeStep[d + 1][2]
         IN  /\ d = 0 => x = 0 /\ y + 1 = 0
             /\ d = 1 => x = 1 /\ y = 0
             /\ d = 2 => x = 0 /\ y = 1
             /\ d = 3 => x + 1 = 0 /\ y = 0
             /\ x \in Int /\ y \in Int
BY DEF SnakeStep

(* The cell ahead touches the one it is ahead of, and is not the one       *)
(* behind unless the snake turns back.                                     *)
LEMMA AheadTouches ==
  ASSUME NEW c \in SnakeCell, NEW d \in 0..3
  PROVE  Beside(Ahead(c, d), c)
<1> DEFINE x == SnakeStep[d + 1][1]
           y == SnakeStep[d + 1][2]
           h == Ahead(c, d)
<1>1. x \in Int /\ y \in Int /\ ((x = 0 /\ (y = 1 \/ y + 1 = 0)) \/ ((x = 1 \/ x + 1 = 0) /\ y = 0))
  BY StepOf
<1>2. h[1] = c[1] + x /\ h[2] = c[2] + y
  BY DEF Ahead
<1> HIDE DEF x, y, h
<1>3. h[1] - c[1] = x /\ h[2] - c[2] = y
  BY <1>1, <1>2, CellOf
<1>4. x * x + y * y = 1
  <2>1. CASE x = 0
    BY <1>1, <2>1
  <2>2. CASE y = 0
    BY <1>1, <2>2
  <2>3. QED
    BY <1>1, <2>1, <2>2
<1>5. QED
  BY <1>3, <1>4 DEF Beside, h

LEMMA NoTurnBack ==
  ASSUME NEW c \in SnakeCell, NEW b \in SnakeCell, NEW d \in 0..3, NEW e \in 0..3,
         c = Ahead(b, d), e # SnakeOpposite(d)
  PROVE  Ahead(c, e) # b
<1> DEFINE x == SnakeStep[d + 1][1]
           y == SnakeStep[d + 1][2]
           v == SnakeStep[e + 1][1]
           w == SnakeStep[e + 1][2]
<1>1. c[1] = b[1] + x /\ c[2] = b[2] + y
  BY DEF Ahead
<1>2. Ahead(c, e)[1] = c[1] + v /\ Ahead(c, e)[2] = c[2] + w
  BY DEF Ahead
<1>3. /\ d = 0 => x = 0 /\ y + 1 = 0
      /\ d = 1 => x = 1 /\ y = 0
      /\ d = 2 => x = 0 /\ y = 1
      /\ d = 3 => x + 1 = 0 /\ y = 0
      /\ x \in Int /\ y \in Int
  BY StepOf
<1>4. /\ e = 0 => v = 0 /\ w + 1 = 0
      /\ e = 1 => v = 1 /\ w = 0
      /\ e = 2 => v = 0 /\ w = 1
      /\ e = 3 => v + 1 = 0 /\ w = 0
      /\ v \in Int /\ w \in Int
  BY StepOf
<1> HIDE DEF x, y, v, w
<1>5. b[1] \in Int /\ b[2] \in Int /\ c[1] \in Int /\ c[2] \in Int
  BY CellOf
<1>6. x + v # 0 \/ y + w # 0
  BY <1>3, <1>4 DEF SnakeOpposite
<1>7. Ahead(c, e)[1] = b[1] + (x + v) /\ Ahead(c, e)[2] = b[2] + (y + w)
  BY <1>1, <1>2, <1>3, <1>4, <1>5
<1>8. QED
  BY <1>3, <1>4, <1>5, <1>6, <1>7

Eaten(s, f) == f \in ToSet(s) => f = <<1, 1>>

LEMMA Remainder ==
  ASSUME NEW n \in Int, NEW m \in Nat, m > 0
  PROVE  n % m \in Nat /\ n % m < m
OBVIOUS

LEMMA FoodPlaced ==
  ASSUME NEW s, NEW k \in Nat
  PROVE  LET f == snake_place_food(s, k) IN f \in SnakeCell /\ Eaten(s, f)
<1> DEFINE free == {n \in 0..SNAKE_FOOD_TRIES - 1 : SnakeTry(k, n) \notin ToSet(s)}
           f == snake_place_food(s, k)
<1>1. <<1, 1>> \in SnakeCell
  BY CellFrom, SnakeNumbers
<1>2. ASSUME NEW n \in Nat PROVE SnakeTry(k, n) \in SnakeCell
  <2> DEFINE w == SNAKE_GRID_W - 2
             h == SNAKE_GRID_H - 2
             x == k * 7 + n
             y == k * 11 + n * 3
  <2>1. w \in Nat /\ w > 0 /\ h \in Nat /\ h > 0 /\ x \in Nat /\ y \in Nat
    BY SnakeNumbers
  <2>2. SnakeTry(k, n) = <<1 + (x % w), 1 + (y % h)>>
    BY DEF SnakeTry
  <2> HIDE DEF w, h, x, y
  <2>3. x % w \in Nat /\ x % w < w /\ y % h \in Nat /\ y % h < h
    BY <2>1, Remainder
  <2>4. /\ 1 + (x % w) \in Int /\ 1 <= 1 + (x % w) /\ 1 + (x % w) <= w
        /\ 1 + (y % h) \in Int /\ 1 <= 1 + (y % h) /\ 1 + (y % h) <= h
    BY <2>1, <2>3
  <2>5. QED
    BY <2>2, <2>4, CellFrom DEF w, h
<1>3. CASE free = {}
  <2>1. f = <<1, 1>>
    BY <1>3 DEF snake_place_food
  <2>2. QED
    BY <1>1, <2>1 DEF Eaten
<1>4. CASE free # {}
  <2>1. free \in SUBSET Nat
    BY SnakeNumbers
  <2>2. Min(free) \in free
    BY <1>4, <2>1, MinIsLeast
  <2>3. f = SnakeTry(k, Min(free))
    BY <1>4 DEF snake_place_food
  <2>4. SnakeTry(k, Min(free)) \notin ToSet(s) /\ Min(free) \in Nat
    BY <2>1, <2>2
  <2>5. QED
    BY <1>2, <2>3, <2>4 DEF Eaten
<1>5. QED
  BY <1>3, <1>4

(* The state of a game: whole, and its head ahead of its neck.             *)
SnakeKept(k) ==
  /\ k \in SnakeRecords
  /\ Len(k.seg) < SNAKE_MAX_LEN /\ Joined(k.seg) /\ Eaten(k.seg, k.food) /\ k.score < SnakeScores
  /\ k.mode # "prompt" => Len(k.seg) >= 3
  /\ k.mode = "play" => k.seg[1] = Ahead(k.seg[2], k.dir)
  /\ k.mode = "over" => Ahead(k.seg[1], k.dir) # k.seg[2]

LEMMA SnakeStarts == SnakeKept(SnakeOff)
<1>1. <<1, 1>> \in SnakeCell
  BY CellFrom, SnakeNumbers
<1>2. SnakeOff \in SnakeRecords
  BY <1>1 DEF SnakeOff, SnakeRecords, SnakeModes
<1>3. Joined(<<>>) /\ Eaten(<<>>, <<1, 1>>) /\ Len(<<>>) = 0
  BY DEF Joined, Eaten
<1>4. QED
  BY <1>2, <1>3, SnakeNumbers DEF SnakeOff, SnakeKept

LEMMA SnakeBegins ==
  ASSUME snake_init
  PROVE  SnakeKept(snake')
<1> DEFINE x == SNAKE_GRID_W \div 2
           y == SNAKE_GRID_H \div 2
           seg == [i \in 1..3 |-> <<x - (i - 1), y>>]
           f == snake_place_food(seg, 0)
<1>1. snake' = [mode |-> "play", seg |-> seg, dir |-> 1, next_dir |-> 1, food |-> f, score |-> 0]
  BY DEF snake_init, SnakeMiddle
<1>2. x \in Int /\ y \in Int /\ 3 <= x /\ x <= SNAKE_GRID_W - 2 /\ 1 <= y /\ y <= SNAKE_GRID_H - 2
  BY SnakeNumbers
<1> HIDE DEF x, y
<1>3. ASSUME NEW i \in 1..3 PROVE <<x - (i - 1), y>> \in SnakeCell
  <2>1. x - (i - 1) \in Int /\ 1 <= x - (i - 1) /\ x - (i - 1) <= SNAKE_GRID_W - 2
    BY <1>2, SnakeNumbers
  <2>2. QED
    BY <1>2, <2>1, CellFrom
<1>4. seg \in [1..3 -> SnakeCell]
  BY <1>3
<1>5. seg \in Seq(SnakeCell) /\ Len(seg) = 3
  BY <1>4
<1>6. seg[1] = <<x, y>> /\ seg[2] = <<x - 1, y>> /\ seg[3] = <<x - 2, y>>
  BY <1>2
<1>7. f \in SnakeCell /\ Eaten(seg, f)
  BY FoodPlaced
<1>8. Joined(seg)
  <2>1. ASSUME NEW i \in 1..3, NEW j \in 1..3, seg[i] = seg[j] PROVE i = j
    <3>1. <<x - (i - 1), y>> = <<x - (j - 1), y>>
      BY <2>1
    <3>2. x - (i - 1) = x - (j - 1)
      BY <3>1
    <3>3. QED
      BY <1>2, <3>2
  <2>2. ASSUME NEW i \in 1..2 PROVE Beside(seg[i], seg[i + 1])
    <3>1. seg[i][1] - seg[i + 1][1] = 1 /\ seg[i][2] - seg[i + 1][2] = 0
      BY <1>2
    <3> HIDE DEF seg
    <3>2. QED
      BY <3>1 DEF Beside
  <2> HIDE DEF seg
  <2>3. QED
    BY <1>5, <2>1, <2>2 DEF Joined
<1>9. seg[1] = Ahead(seg[2], 1)
  <2>1. SnakeStep[2][1] = 1 /\ SnakeStep[2][2] = 0
    BY DEF SnakeStep
  <2> HIDE DEF seg
  <2>2. QED
    BY <1>2, <1>6, <2>1 DEF Ahead
<1> HIDE DEF seg, f
<1>10. snake' \in SnakeRecords
  BY <1>1, <1>5, <1>7 DEF SnakeRecords, SnakeModes
<1>11. /\ snake'.mode = "play" /\ snake'.seg = seg /\ snake'.dir = 1 /\ snake'.food = f
       /\ snake'.score = 0
  BY <1>1
<1>12. /\ Len(snake'.seg) < SNAKE_MAX_LEN /\ Len(snake'.seg) >= 3
       /\ snake'.score < SnakeScores
  <2>1. Len(snake'.seg) = 3
    BY <1>5, <1>11
  <2>2. snake'.score = 0
    BY <1>11
  <2>3. QED
    BY <2>1, <2>2, SnakeNumbers
<1>13. Joined(snake'.seg) /\ Eaten(snake'.seg, snake'.food)
  BY <1>7, <1>8, <1>11
<1>14. snake'.mode # "over" /\ snake'.seg[1] = Ahead(snake'.seg[2], snake'.dir)
  BY <1>9, <1>11
<1>15. QED
  BY <1>10, <1>12, <1>13, <1>14 DEF SnakeKept

(* The body after a tick: the new head and the old body, or all but its    *)
(* last segment.                                                           *)
Headed(h, s, n) == [i \in 1..n |-> IF i = 1 THEN h ELSE s[i - 1]]
Grown(h, s) == Headed(h, s, Len(s) + 1)
Moved(h, s) == Headed(h, s, Len(s))

LEMMA BodyOf ==
  ASSUME NEW s \in Seq(SnakeCell), NEW h \in SnakeCell, Len(s) >= 1
  PROVE  /\ <<h>> \o s = Grown(h, s)
         /\ <<h>> \o Front(s) = Moved(h, s)
<1>1. Len(s) \in Nat
  OBVIOUS
<1>2. <<h>> \in Seq(SnakeCell) /\ Len(<<h>>) = 1 /\ <<h>>[1] = h
  OBVIOUS
<1>3. /\ <<h>> \o s \in Seq(SnakeCell) /\ Len(<<h>> \o s) = Len(s) + 1
      /\ \A i \in 1..Len(s) + 1 : (<<h>> \o s)[i] = IF i = 1 THEN h ELSE s[i - 1]
  <2>1. /\ <<h>> \o s \in Seq(SnakeCell) /\ Len(<<h>> \o s) = 1 + Len(s)
        /\ \A i \in 1..1 + Len(s) : (<<h>> \o s)[i] = IF i <= 1 THEN <<h>>[i] ELSE s[i - 1]
    BY <1>2, ConcatProperties
  <2>2. QED
    BY <1>1, <1>2, <2>1
<1>4. /\ Front(s) \in Seq(SnakeCell) /\ Len(Front(s)) = Len(s) - 1
      /\ \A i \in 1..Len(s) - 1 : Front(s)[i] = s[i]
  <2>1. Front(s) = SubSeq(s, 1, Len(s) - 1)
    BY DEF Front
  <2> DEFINE n == Len(s) - 1
  <2>2. n \in Int /\ n >= 0 /\ \A i \in 1..n : s[i] \in SnakeCell
    BY <1>1
  <2> HIDE DEF n
  <2>3. /\ SubSeq(s, 1, n) \in Seq(SnakeCell)
        /\ Len(SubSeq(s, 1, n)) = IF 1 <= n THEN n - 1 + 1 ELSE 0
        /\ \A i \in 1..n - 1 + 1 : SubSeq(s, 1, n)[i] = s[1 + i - 1]
    BY <2>2, SubSeqProperties
  <2>4. n - 1 + 1 = n /\ \A i \in 1..n : 1 + i - 1 = i
    BY <2>2
  <2>5. Len(SubSeq(s, 1, n)) = n
    BY <2>2, <2>3
  <2>6. \A i \in 1..n : SubSeq(s, 1, n)[i] = s[i]
    BY <2>3, <2>4
  <2>7. QED
    BY <2>1, <2>3, <2>5, <2>6 DEF n
<1>5. /\ <<h>> \o Front(s) \in Seq(SnakeCell) /\ Len(<<h>> \o Front(s)) = Len(s)
      /\ \A i \in 1..Len(s) : (<<h>> \o Front(s))[i] = IF i = 1 THEN h ELSE s[i - 1]
  <2> DEFINE t == Front(s)
  <2>1. t \in Seq(SnakeCell) /\ Len(t) = Len(s) - 1 /\ \A i \in 1..Len(s) - 1 : t[i] = s[i]
    BY <1>4
  <2> HIDE DEF t
  <2>2. /\ <<h>> \o t \in Seq(SnakeCell) /\ Len(<<h>> \o t) = 1 + Len(t)
        /\ \A i \in 1..1 + Len(t) : (<<h>> \o t)[i] = IF i <= 1 THEN <<h>>[i] ELSE t[i - 1]
    BY <1>2, <2>1, ConcatProperties
  <2>3. \A i \in 1..Len(s) : i # 1 => t[i - 1] = s[i - 1]
    BY <1>1, <2>1
  <2>4. Len(<<h>> \o t) = Len(s)
    BY <1>1, <2>1, <2>2
  <2>5. \A i \in 1..Len(s) : (<<h>> \o t)[i] = IF i = 1 THEN h ELSE s[i - 1]
    BY <1>1, <1>2, <2>1, <2>2, <2>3
  <2>6. QED
    BY <2>2, <2>4, <2>5 DEF t
<1>6. QED
  BY <1>1, <1>3, <1>5 DEF Grown, Moved, Headed

(* A body with a new head that touches it and is not on it.                *)
LEMMA NewHead ==
  ASSUME NEW s \in Seq(SnakeCell), Joined(s), NEW h \in SnakeCell, h \notin ToSet(s), Len(s) >= 3,
         Beside(h, s[1]), NEW n \in {Len(s), Len(s) + 1}
  PROVE  LET b == Headed(h, s, n)
         IN  b \in Seq(SnakeCell) /\ Len(b) = n /\ Joined(b) /\ b[1] = h /\ b[2] = s[1]
<1> DEFINE b == [i \in 1..n |-> IF i = 1 THEN h ELSE s[i - 1]]
<1>1. Len(s) \in Nat /\ n \in Nat /\ n >= 3 /\ \A i \in 1..Len(s) : s[i] \in SnakeCell
  OBVIOUS
<1>2. \A i \in 1..n : i # 1 => i - 1 \in 1..Len(s)
  BY <1>1
<1>3. b \in [1..n -> SnakeCell]
  BY <1>1, <1>2
<1>4. b \in Seq(SnakeCell) /\ Len(b) = n
  BY <1>1, <1>3
<1>5. b[1] = h /\ b[2] = s[1]
  BY <1>1
<1>6. \A i \in 1..Len(s) : s[i] # h
  BY DEF ToSet
<1>7. ASSUME NEW i \in 1..n, NEW j \in 1..n, b[i] = b[j] PROVE i = j
  <2>1. CASE i = 1 \/ j = 1
    <3>1. \A k \in 1..n : k # 1 => b[k] # h
      BY <1>2, <1>6
    <3>2. QED
      BY <1>5, <1>7, <2>1, <3>1
  <2>2. CASE i # 1 /\ j # 1
    <3>1. s[i - 1] = s[j - 1] /\ i - 1 \in 1..Len(s) /\ j - 1 \in 1..Len(s)
      BY <1>2, <1>7, <2>2
    <3>2. i - 1 = j - 1
      BY <3>1 DEF Joined
    <3>3. QED
      BY <3>2
  <2>3. QED
    BY <2>1, <2>2
<1>8. ASSUME NEW i \in 1..n - 1 PROVE Beside(b[i], b[i + 1])
  <2>1. CASE i = 1
    <3>1. b[i] = h /\ b[i + 1] = s[1]
      BY <1>5, <2>1
    <3>2. QED
      BY <3>1
  <2>2. CASE i # 1
    <3>1. b[i] = s[i - 1] /\ b[i + 1] = s[i] /\ i - 1 \in 1..Len(s) - 1
      BY <1>1, <2>2
    <3>2. Beside(s[i - 1], s[(i - 1) + 1])
      BY <3>1 DEF Joined
    <3>3. (i - 1) + 1 = i
      OBVIOUS
    <3>4. QED
      BY <3>1, <3>2, <3>3
  <2>3. QED
    BY <2>1, <2>2
<1> HIDE DEF b
<1>9. Joined(b)
  BY <1>4, <1>7, <1>8 DEF Joined
<1>10. QED
  BY <1>4, <1>5, <1>9 DEF b, Headed

LEMMA DirOf ==
  ASSUME snake \in SnakeRecords
  PROVE  SnakeDir \in 0..3 /\ SnakeDir # SnakeOpposite(snake.dir)
<1>1. snake.dir \in 0..3 /\ snake.next_dir \in 0..3
  BY DEF SnakeRecords
<1>2. \A d \in 0..3 : d # SnakeOpposite(d)
  BY DEF SnakeOpposite
<1>3. QED
  BY <1>1, <1>2 DEF SnakeDir

LEMMA TickKeepsSnake ==
  ASSUME SnakeKept(snake), snake_tick
  PROVE  SnakeKept(snake')
<1> DEFINE s == snake.seg
           d == SnakeDir
           h == SnakeHead
<1>1. /\ snake \in SnakeRecords /\ snake.mode = "play" /\ s \in Seq(SnakeCell) /\ Len(s) >= 3
      /\ Len(s) < SNAKE_MAX_LEN /\ Joined(s) /\ Eaten(s, snake.food)
      /\ snake.score \in Nat /\ snake.score < SnakeScores /\ snake.food \in SnakeCell
      /\ s[1] = Ahead(s[2], snake.dir) /\ snake.dir \in 0..3
  BY DEF SnakeKept, snake_tick, SnakeRecords
<1>2. d \in 0..3 /\ d # SnakeOpposite(snake.dir)
  BY <1>1, DirOf
<1>3. h = Ahead(s[1], d)
  BY DEF SnakeHead, Ahead
<1>4. s[1] \in SnakeCell /\ s[2] \in SnakeCell
  BY <1>1
<1>5. Ahead(s[1], d) # s[2] /\ Beside(h, s[1])
  BY <1>1, <1>2, <1>3, <1>4, NoTurnBack, AheadTouches
<1>6. "over" \in SnakeModes /\ "play" \in SnakeModes
  BY DEF SnakeModes
<1> HIDE DEF s, d, h
<1>7. CASE SnakeCrash
  <2>1. snake' = [snake EXCEPT !.mode = "over", !.dir = d]
    BY <1>7 DEF snake_tick, d
  <2>2. /\ snake' \in SnakeRecords /\ snake'.mode = "over" /\ snake'.seg = s /\ snake'.dir = d
        /\ snake'.food = snake.food /\ snake'.score = snake.score
    BY <1>1, <1>2, <1>6, <2>1 DEF SnakeRecords, s
  <2>3. QED
    BY <1>1, <1>5, <2>2 DEF SnakeKept
<1>8. CASE ~SnakeCrash
  <2> DEFINE ate == h = snake.food
             b == SnakeBody(ate)
             score == IF ate THEN (snake.score + 1) % SnakeScores ELSE snake.score
             food == IF ate THEN snake_place_food(b, score) ELSE snake.food
  <2>1. snake' = [snake EXCEPT !.seg = b, !.dir = d, !.score = score, !.food = food]
    <3>1. snake' = [snake EXCEPT !.seg = b, !.dir = d, !.score = score,
                      !.food = IF ate THEN snake_place_food(b, score) ELSE @]
      BY <1>8 DEF snake_tick, d, h
    <3>2. QED
      BY <3>1
  <2>2. h \in SnakeCell /\ h \notin ToSet(s)
    BY <1>8 DEF SnakeCrash, h, s
  <2>3. \/ b = Moved(h, s)
        \/ ate /\ Len(s) < SNAKE_MAX_LEN - 1 /\ b = Grown(h, s)
    <3>1. \/ b = <<h>> \o Front(s)
          \/ ate /\ Len(s) < SNAKE_MAX_LEN - 1 /\ b = <<h>> \o s
      BY DEF SnakeBody, h, s
    <3> HIDE DEF b
    <3>2. <<h>> \o s = Grown(h, s) /\ <<h>> \o Front(s) = Moved(h, s)
      BY <1>1, <2>2, BodyOf
    <3>3. QED
      BY <3>1, <3>2
  <2>4. score \in Nat /\ score < SnakeScores
    <3>1. snake.score + 1 \in Nat
      BY <1>1
    <3>2. (snake.score + 1) % SnakeScores \in Nat /\ (snake.score + 1) % SnakeScores < SnakeScores
      BY <3>1, SnakeNumbers, Remainder
    <3>3. QED
      BY <1>1, <3>2
  <2> HIDE DEF b, score
  <2>5. /\ b \in Seq(SnakeCell) /\ Len(b) >= 3 /\ Len(b) < SNAKE_MAX_LEN /\ Joined(b)
        /\ b[1] = h /\ b[2] = s[1]
    <3>1. Len(s) \in Nat /\ SNAKE_MAX_LEN \in Nat
      BY <1>1, SnakeNumbers
    <3>2. CASE b = Moved(h, s)
      <4> DEFINE n == Len(s)
      <4>1. b = Headed(h, s, n) /\ n \in {Len(s), Len(s) + 1}
        BY <3>2 DEF Moved
      <4>2. b \in Seq(SnakeCell) /\ Len(b) = n /\ Joined(b) /\ b[1] = h /\ b[2] = s[1]
        BY <1>1, <1>5, <2>2, <4>1, NewHead
      <4>3. QED
        BY <1>1, <3>1, <4>2
    <3>3. CASE Len(s) < SNAKE_MAX_LEN - 1 /\ b = Grown(h, s)
      <4> DEFINE n == Len(s) + 1
      <4>1. b = Headed(h, s, n) /\ n \in {Len(s), Len(s) + 1}
        BY <3>3 DEF Grown
      <4> HIDE DEF n
      <4>2. b \in Seq(SnakeCell) /\ Len(b) = n /\ Joined(b) /\ b[1] = h /\ b[2] = s[1]
        BY <1>1, <1>5, <2>2, <4>1, NewHead
      <4>3. QED
        BY <1>1, <3>1, <3>3, <4>2 DEF n
    <3>4. QED
      BY <2>3, <3>2, <3>3
  <2>6. food \in SnakeCell /\ Eaten(b, food)
    <3>1. CASE ate
      BY <2>4, <3>1, FoodPlaced
    <3>2. CASE ~ate
      <4>1. b = Moved(h, s) /\ food = snake.food
        BY <2>3, <3>2
      <4>2. ASSUME snake.food \in ToSet(b) PROVE snake.food \in ToSet(s)
        <5>1. PICK i \in DOMAIN b : b[i] = snake.food
          BY <4>2 DEF ToSet
        <5>2. i \in 1..Len(s) /\ b[i] = IF i = 1 THEN h ELSE s[i - 1]
          BY <4>1 DEF Moved, Headed
        <5>3. i # 1 /\ Len(s) \in Nat
          BY <1>1, <3>2, <5>1, <5>2
        <5>4. i - 1 \in 1..Len(s) /\ s[i - 1] = snake.food
          BY <5>1, <5>2, <5>3
        <5>5. DOMAIN s = 1..Len(s)
          BY <1>1
        <5>6. QED
          BY <5>4, <5>5 DEF ToSet
      <4>3. QED
        BY <1>1, <4>1, <4>2 DEF Eaten
    <3>3. QED
      BY <3>1, <3>2
  <2> HIDE DEF food
  <2>7. /\ snake' \in SnakeRecords /\ snake'.mode = "play" /\ snake'.seg = b /\ snake'.dir = d
        /\ snake'.food = food /\ snake'.score = score
    BY <1>1, <1>2, <2>1, <2>4, <2>5, <2>6 DEF SnakeRecords
  <2>8. b[1] = Ahead(b[2], d)
    BY <1>3, <2>5
  <2>9. QED
    BY <2>4, <2>5, <2>6, <2>7, <2>8 DEF SnakeKept
<1>9. QED
  BY <1>7, <1>8

LEMMA SnakeSteps == [AsmNext]_asmVars => SnakeNext \/ snake' = SnakeOff \/ UNCHANGED snake
BY DEF AsmNext, PlayGame, DrawScreen, UseWire, UseTables, UseDisk, Reset, asmVars, games

LEMMA NextKeepsSnake == SnakeKept(snake) /\ [AsmNext]_asmVars => SnakeKept(snake')
<1> SUFFICES ASSUME SnakeKept(snake), [AsmNext]_asmVars PROVE SnakeKept(snake')
  OBVIOUS
<1>1. SnakeNext \/ snake' = SnakeOff \/ UNCHANGED snake
  BY SnakeSteps
<1>2. ASSUME NEW d \in 0..3, snake_key(d) PROVE SnakeKept(snake')
  <2>1. snake' = [snake EXCEPT !.next_dir = d] /\ snake \in SnakeRecords
    BY <1>2 DEF snake_key, SnakeKept
  <2>2. /\ snake' \in SnakeRecords /\ snake'.mode = snake.mode /\ snake'.seg = snake.seg
        /\ snake'.dir = snake.dir /\ snake'.food = snake.food /\ snake'.score = snake.score
    BY <2>1 DEF SnakeRecords
  <2>3. QED
    BY <2>2 DEF SnakeKept
<1>3. snake_leave => snake' = SnakeOff
  BY DEF snake_leave
<1>4. UNCHANGED snake => SnakeKept(snake')
  OBVIOUS
<1>5. QED
  BY <1>1, <1>2, <1>3, <1>4, SnakeStarts, SnakeBegins, TickKeepsSnake DEF SnakeNext

SnakeInv == SnakeKept(snake)

(* The snake stays in one piece: however keys, food and ticks fall, its    *)
(* segments are on different cells of the grid and each touches the next,  *)
(* a turn back is ignored, so no snake dies of its own neck, and food is   *)
(* off the body unless no cell tried was free; for every grid and length.  *)
THEOREM SnakeStaysWhole == AsmSpec => []SnakeWhole
<1>1. AsmInit => SnakeInv
  BY SnakeStarts DEF AsmInit, SnakeInit, SnakeInv
<1>2. SnakeInv /\ [AsmNext]_asmVars => SnakeInv'
  BY NextKeepsSnake DEF SnakeInv, SnakeKept, Joined, Beside, Ahead, Eaten
<1>3. SnakeInv => SnakeWhole
  <2> SUFFICES ASSUME SnakeInv PROVE SnakeWhole
    OBVIOUS
  <2>1. /\ snake \in SnakeRecords /\ Len(snake.seg) < SNAKE_MAX_LEN /\ Joined(snake.seg)
        /\ Eaten(snake.seg, snake.food) /\ snake.score < SnakeScores
        /\ snake.mode = "over" => Ahead(snake.seg[1], snake.dir) # snake.seg[2]
    BY DEF SnakeInv, SnakeKept
  <2>2. /\ snake.mode \in SnakeModes /\ snake.seg \in Seq(SnakeCell) /\ snake.dir \in 0..3
        /\ snake.next_dir \in 0..3 /\ snake.food \in SnakeCell /\ snake.score \in Nat
    BY <2>1 DEF SnakeRecords
  <2>3. snake.score \in 0..SnakeScores - 1
    BY <2>1, <2>2, SnakeNumbers
  <2>4. SnakeTypeOK
    BY <2>1, <2>2, <2>3 DEF SnakeTypeOK, SnakeModes
  <2>5. DOMAIN snake.seg = 1..Len(snake.seg)
    BY <2>2
  <2>6. IsInjective(snake.seg)
    BY <2>1, <2>5 DEF IsInjective, Joined
  <2>7. QED
    BY <2>1, <2>4, <2>6 DEF SnakeWhole, Joined, Beside, Ahead, Eaten
<1>4. QED
  BY <1>1, <1>2, <1>3, PTL DEF AsmSpec
-------------------------------------------------------------------------------
(* Racing.  The invariant says where every obstacle is: the youngest was   *)
(* spawned in the last tick that spawns, and each older one is the way of  *)
(* RACE_SPAWN_TICKS ticks further down.                                    *)
RaceGap == RACE_SPAWN_TICKS * RACE_SCROLL
RaceAge(t) == t % RACE_SPAWN_TICKS
RaceObsts == [lane : 0..RACE_LANES - 1, y : -RACE_OBST_H..RACE_H]
RacePlace(n, i, y) == y + (n - i) * RaceGap
RaceNewest(t) == RACE_SCROLL * (1 + RaceAge(t)) - RACE_OBST_H

RaceKept(r) ==
  /\ r = [mode |-> r.mode, lane |-> r.lane, obst |-> r.obst, score |-> r.score, tick |-> r.tick]
  /\ r.mode \in {"prompt", "play", "over"}
  /\ r.lane \in 0..RACE_LANES - 1
  /\ r.tick \in 0..RacePeriod - 1
  /\ r.score \in 0..RaceScores - 1
  /\ r.obst \in Seq(RaceObsts)
  /\ \A i \in 1..Len(r.obst) : r.obst[i].y = RacePlace(Len(r.obst), i, RaceNewest(r.tick))

LEMMA RaceNumbers ==
  /\ RACE_LANES \in Nat /\ RACE_LANES > 1 /\ RACE_SCROLL \in Nat /\ RACE_SCROLL >= 1
  /\ RACE_OBST_MAX \in Nat /\ RACE_OBST_MAX >= 1
  /\ RACE_SPAWN_TICKS \in Nat /\ RACE_SPAWN_TICKS >= 1
  /\ RaceScores \in Nat /\ RaceScores >= 1
  /\ RACE_W \in Nat /\ RACE_H \in Nat /\ RACE_CAR_W \in Nat /\ RACE_CAR_H \in Nat
  /\ RACE_OBST_W \in Nat /\ RACE_OBST_H \in Nat
BY RacingAssumption

LEMMA RaceGaps ==
  /\ RaceGap \in Nat /\ RaceGap >= RACE_SCROLL
  /\ RACE_OBST_MAX * RaceGap > RACE_H + RACE_OBST_H
  /\ (RACE_LANES - 1) * RaceGap > RACE_CAR_H + RACE_OBST_H
  /\ RacePeriod \in Nat /\ RacePeriod >= 1
<1>1. ASSUME NEW a \in Nat, NEW b \in Nat, a >= 1 PROVE a * b \in Nat /\ a * b >= b
  <2>1. ASSUME NEW c \in Nat PROVE c * b >= 0
    OBVIOUS
  <2>2. a - 1 \in Nat /\ a * b = (a - 1) * b + b
    BY <1>1
  <2>3. (a - 1) * b >= 0
    BY <2>1, <2>2
  <2>4. QED
    BY <2>2, <2>3
<1>2. RaceGap \in Nat /\ RaceGap >= RACE_SCROLL
  BY <1>1, RaceNumbers DEF RaceGap
<1>3. RacePeriod \in Nat /\ RacePeriod >= RACE_LANES
  BY <1>1, RaceNumbers DEF RacePeriod
<1>4. QED
  BY <1>2, <1>3, RaceNumbers, RacingAssumption DEF RaceGap

(* A clock taken modulo the period still shows when the next spawn is due. *)
LEMMA NextAge ==
  ASSUME NEW t \in 0..RacePeriod - 1
  PROVE  /\ RaceAge(t) \in 0..RACE_SPAWN_TICKS - 1
         /\ RaceAge((t + 1) % RacePeriod) = RaceAge(t + 1)
         /\ RaceAge(t + 1) = IF RaceAge(t) = RACE_SPAWN_TICKS - 1 THEN 0 ELSE RaceAge(t) + 1
<1> DEFINE m == RACE_SPAWN_TICKS
           a == t % m
           q == t \div m
<1>0. t \in Nat /\ m \in Nat /\ m > 0 /\ m >= 1
  BY RaceNumbers, RaceGaps
<1>1. a \in 0..m - 1 /\ q \in Int /\ t = m * q + a
  BY <1>0
<1> HIDE DEF m, a, q
<1>2. (t + 1) % m = IF a = m - 1 THEN 0 ELSE a + 1
  <2>1. CASE a = m - 1
    <3>1. t + 1 = (q + 1) * m + 0 /\ q + 1 \in Int /\ 0 \in 0..m - 1 /\ t + 1 \in Int
      BY <1>0, <1>1, <2>1
    <3>2. QED
      BY <1>0, <3>1, <2>1, ModUnique
  <2>2. CASE a # m - 1
    <3>1. t + 1 = q * m + (a + 1) /\ a + 1 \in 0..m - 1 /\ t + 1 \in Int
      BY <1>0, <1>1, <2>2
    <3>2. QED
      BY <1>0, <1>1, <3>1, <2>2, ModUnique
  <2>3. QED
    BY <2>1, <2>2
<1>3. ((t + 1) % RacePeriod) % m = (t + 1) % m
  <2>1. CASE t + 1 < RacePeriod
    <3>1. t + 1 = 0 * RacePeriod + (t + 1) /\ t + 1 \in 0..RacePeriod - 1
      BY <2>1, <1>0, RaceGaps
    <3>2. (t + 1) % RacePeriod = t + 1
      BY <3>1, RaceGaps, ModUnique
    <3>3. QED
      BY <3>2
  <2>2. CASE t + 1 = RacePeriod
    <3>1. t + 1 = 1 * RacePeriod + 0 /\ 0 \in 0..RacePeriod - 1 /\ t + 1 \in Int
      BY <2>2, <1>0, RaceGaps
    <3>2. (t + 1) % RacePeriod = 0
      BY <3>1, RaceGaps, ModUnique
    <3>3. t + 1 = RACE_LANES * m + 0 /\ 0 = 0 * m + 0 /\ 0 \in 0..m - 1
      BY <2>2, <1>0, RaceNumbers DEF RacePeriod, m
    <3>4. (t + 1) % m = 0 /\ 0 % m = 0
      BY <3>3, <3>1, <1>0, RaceNumbers, ModUnique
    <3>5. QED
      BY <3>2, <3>4
  <2>3. QED
    BY <2>1, <2>2, <1>0, RaceGaps
<1>4. QED
  BY <1>1, <1>2, <1>3 DEF m, a, RaceAge

(* What the scroll loop leaves: at most the oldest obstacle is past the    *)
(* lower edge, and the others stay in their order.                         *)
RaceMoved(o) == [o EXCEPT !.y = @ + RACE_SCROLL]
ScrollStep(obst, f, n) ==
  IF n = 0 THEN <<>>
  ELSE IF obst[n].y + RACE_SCROLL > RACE_H THEN f[n - 1]
  ELSE Append(f[n - 1], [obst[n] EXCEPT !.y = @ + RACE_SCROLL])
Scrolling(obst, f) == [n \in 0..Len(obst) |-> ScrollStep(obst, f, n)]
ScrollLoop(obst) == CHOOSE f : f = Scrolling(obst, f)

(* out of the first obstacles, 0 or 1 of them, have left                   *)
ScrolledTo(obst, out) == [n \in 0..Len(obst) |-> [i \in 1..(n - out) |-> RaceMoved(obst[i + out])]]

LEMMA ScrollIsLoop ==
  ASSUME NEW obst
  PROVE  RaceScroll(obst) = ScrollLoop(obst)[Len(obst)]
BY DEF RaceScroll, ScrollLoop, Scrolling, ScrollStep

LEMMA MovedTyped ==
  ASSUME NEW o \in RaceObsts, o.y + RACE_SCROLL <= RACE_H
  PROVE  RaceMoved(o) \in RaceObsts /\ RaceMoved(o).y = o.y + RACE_SCROLL /\ RaceMoved(o).lane = o.lane
BY RaceNumbers DEF RaceMoved, RaceObsts

LEMMA ScrollOf ==
  ASSUME NEW obst \in Seq(RaceObsts), NEW out \in {0, 1}, out <= Len(obst),
         \A i \in 1..Len(obst) : (obst[i].y + RACE_SCROLL > RACE_H) <=> (i = out)
  PROVE  /\ RaceScroll(obst) \in Seq(RaceObsts)
         /\ Len(RaceScroll(obst)) = Len(obst) - out
         /\ \A i \in 1..(Len(obst) - out) : /\ RaceScroll(obst)[i] = RaceMoved(obst[i + out])
                                          /\ RaceScroll(obst)[i].y = obst[i + out].y + RACE_SCROLL
                                          /\ obst[i + out].y + RACE_SCROLL <= RACE_H
<1> DEFINE g == ScrolledTo(obst, out)
           N == Len(obst)
<1>0. N \in Nat /\ \A i \in 1..N : obst[i] \in RaceObsts
  OBVIOUS
<1>1. ASSUME NEW i \in 1..N, i # out
      PROVE  obst[i].y + RACE_SCROLL <= RACE_H /\ RaceMoved(obst[i]) \in RaceObsts
  <2>1. obst[i].y \in Int
    BY <1>0, RaceNumbers DEF RaceObsts
  <2>2. obst[i].y + RACE_SCROLL <= RACE_H
    BY <2>1, <1>1, RaceNumbers
  <2>3. QED
    BY <2>2, <1>0, MovedTyped
<1>2. ASSUME NEW n \in 0..N
      PROVE  /\ g[n] \in Seq(RaceObsts)
             /\ \A i \in 1..(n - out) : g[n][i] = RaceMoved(obst[i + out])
             /\ Len(g[n]) = IF n >= out THEN n - out ELSE 0
  <2>1. g[n] = [i \in 1..(n - out) |-> RaceMoved(obst[i + out])]
    BY DEF ScrolledTo
  <2>2. ASSUME NEW i \in 1..(n - out) PROVE RaceMoved(obst[i + out]) \in RaceObsts
    <3>1. i + out \in 1..N /\ i + out # out
      BY <1>0
    <3>2. QED
      BY <3>1, <1>1
  <2>3. CASE n - out >= 0
    BY <2>1, <2>2, <2>3, <1>0
  <2>4. CASE n - out < 0
    <3>1. 1..(n - out) = {}
      BY <2>4, <1>0
    <3>2. g[n] = <<>>
      BY SMTT(20), <3>1, <2>1, EmptySeq
    <3>3. QED
      BY <3>2, <2>1, <2>4, <1>0
  <2>5. QED
    BY <2>3, <2>4, <1>0
<1> HIDE DEF g, N
<1>3. ASSUME NEW n \in 0..N PROVE g[n] = ScrollStep(obst, g, n)
  <2>1. CASE n = 0
    <3>1. g[n] \in Seq(RaceObsts) /\ Len(g[n]) = 0
      BY <1>2, <2>1, <1>0
    <3>2. QED
      BY <3>1, <2>1, EmptySeq DEF ScrollStep
  <2>2. CASE n # 0 /\ n = out
    <3>1. n = 1 /\ out = 1 /\ n - 1 = 0 /\ 0 \in 0..N /\ n \in 1..N
      BY <2>2, <1>0
    <3>2. g[n] \in Seq(RaceObsts) /\ Len(g[n]) = 0 /\ g[0] \in Seq(RaceObsts) /\ Len(g[0]) = 0
      BY <3>1, <1>2, <1>0
    <3>3. g[n] = g[n - 1]
      BY <3>1, <3>2, EmptySeq
    <3>4. obst[n].y + RACE_SCROLL > RACE_H
      BY <3>1 DEF N
    <3>5. QED
      BY <3>1, <3>3, <3>4 DEF ScrollStep
  <2>3. CASE n # 0 /\ n # out
    <3>1. n \in 1..N /\ n - 1 \in 0..N /\ n - 1 - out \in Nat /\ n - out \in Nat
      BY <2>3, <1>0
    <3>2. ~(obst[n].y + RACE_SCROLL > RACE_H)
      BY <3>1, <2>3 DEF N
    <3>3. /\ g[n] \in Seq(RaceObsts) /\ Len(g[n]) = n - out
          /\ g[n - 1] \in Seq(RaceObsts) /\ Len(g[n - 1]) = n - 1 - out
      BY <3>1, <1>2
    <3>4. RaceMoved(obst[n]) \in RaceObsts
      BY <3>1, <2>3, <1>1
    <3> DEFINE a == Append(g[n - 1], RaceMoved(obst[n]))
    <3>5. a \in Seq(RaceObsts) /\ Len(a) = n - out
      BY <3>3, <3>4, <3>1
    <3>6. ASSUME NEW i \in 1..(n - out) PROVE g[n][i] = a[i]
      <4>1. g[n][i] = RaceMoved(obst[i + out])
        BY <1>2
      <4>2. CASE i = n - out
        <5>1. i + out = n /\ i = Len(g[n - 1]) + 1
          BY <4>2, <3>1, <3>3
        <5>2. QED
          BY <5>1, <4>1, <3>3, <3>4
      <4>3. CASE i # n - out
        <5>1. i \in 1..(n - 1 - out)
          BY <4>3, <3>1
        <5>2. g[n - 1][i] = RaceMoved(obst[i + out])
          BY <5>1, <3>1, <1>2
        <5>3. QED
          BY <5>1, <5>2, <4>1, <3>3, <3>4
      <4>4. QED
        BY <4>2, <4>3
    <3> HIDE DEF a
    <3>7. g[n] = a
      BY <3>3, <3>5, <3>6, SameSequence
    <3>8. QED
      BY <3>7, <3>2, <2>3 DEF ScrollStep, RaceMoved, a
  <2>4. QED
    BY <2>1, <2>2, <2>3
<1>4. g = Scrolling(obst, g)
  BY <1>3 DEF Scrolling, g, N, ScrolledTo
<1> DEFINE f == ScrollLoop(obst)
<1>5. f = Scrolling(obst, f)
  BY <1>4 DEF ScrollLoop
<1> HIDE DEF f
<1> DEFINE T == {n \in 0..N : f[n] # g[n]}
<1>6. T = {}
  <2>1. SUFFICES ASSUME T # {} PROVE FALSE
    OBVIOUS
  <2>2. T \in SUBSET Nat
    BY <1>0
  <2>3. PICK n \in T : \A j \in T : n <= j
    BY <2>1, <2>2, MinIsLeast
  <2>4. n \in 0..N /\ f[n] = ScrollStep(obst, f, n) /\ g[n] = ScrollStep(obst, g, n)
    BY <1>3, <1>5 DEF Scrolling, N
  <2>5. n # 0
    BY <2>3, <2>4 DEF ScrollStep
  <2>6. n - 1 \in 0..N /\ n - 1 \notin T
    BY <2>2, <2>3, <2>4, <2>5, <1>0
  <2>7. f[n - 1] = g[n - 1]
    BY <2>6
  <2>8. QED
    BY <2>3, <2>4, <2>7 DEF ScrollStep
<1>7. RaceScroll(obst) = g[N]
  BY SMTT(20), <1>6, <1>0, ScrollIsLoop DEF f, N
<1>8. N \in 0..N /\ N >= out
  BY <1>0 DEF N
<1>9. /\ g[N] \in Seq(RaceObsts) /\ \A i \in 1..(N - out) : g[N][i] = RaceMoved(obst[i + out])
      /\ Len(g[N]) = N - out
  <2>1. Len(g[N]) = IF N >= out THEN N - out ELSE 0
    BY <1>2, <1>8
  <2>2. g[N] \in Seq(RaceObsts) /\ \A i \in 1..(N - out) : g[N][i] = RaceMoved(obst[i + out])
    BY <1>2, <1>8
  <2>3. QED
    BY <2>1, <2>2, <1>8
<1>10. ASSUME NEW i \in 1..(N - out)
       PROVE  g[N][i] = RaceMoved(obst[i + out]) /\ g[N][i].y = obst[i + out].y + RACE_SCROLL
              /\ obst[i + out].y + RACE_SCROLL <= RACE_H
  <2>1. i + out \in 1..N /\ i + out # out
    BY <1>0
  <2>2. g[N][i] = RaceMoved(obst[i + out])
    BY <1>9
  <2>3. obst[i + out] \in RaceObsts /\ obst[i + out].y + RACE_SCROLL <= RACE_H
    BY <2>1, <1>0, <1>1
  <2>4. QED
    BY <2>2, <2>3, MovedTyped
<1>11. QED
  BY <1>7, <1>9, <1>10 DEF N

(* Obstacles in line: the i-th of n is n - i gaps below the last, at y.    *)
InLine(obst, y) == \A i \in 1..Len(obst) : obst[i].y = RacePlace(Len(obst), i, y)

LEMMA Gaps ==
  ASSUME NEW n \in Int, NEW i \in Int, NEW y \in Int
  PROVE  /\ RacePlace(n, i, y) \in Int
         /\ RacePlace(n, i, y) - RacePlace(n, i + 1, y) = RaceGap
         /\ RacePlace(n, i, y + RACE_SCROLL) = RacePlace(n, i, y) + RACE_SCROLL
         /\ RacePlace(n + 1, i, y) = RacePlace(n, i, y) + RaceGap
         /\ RacePlace(n - 1, i, y) = RacePlace(n, i + 1, y)
         /\ RacePlace(n, n, y) = y
BY RaceGaps, RaceNumbers DEF RacePlace

LEMMA GapsApart ==
  ASSUME NEW n \in Int, NEW i \in Int, NEW j \in Int, NEW k \in Int, NEW y \in Int, j >= i + k
  PROVE  RacePlace(n, i, y) - RacePlace(n, j, y) >= k * RaceGap
<1>1. RaceGap \in Nat
  BY RaceGaps
<1>2. (j - i - k) * RaceGap >= 0
  <2>1. ASSUME NEW c \in Nat, NEW d \in Nat PROVE c * d >= 0
    OBVIOUS
  <2>2. j - i - k \in Nat
    OBVIOUS
  <2>3. QED
    BY <1>1, <2>1, <2>2
<1>3. RacePlace(n, i, y) - RacePlace(n, j, y) = (j - i - k) * RaceGap + k * RaceGap
  BY <1>1 DEF RacePlace
<1>4. (j - i - k) * RaceGap \in Int /\ k * RaceGap \in Int
  BY <1>1
<1>5. QED
  BY <1>2, <1>3, <1>4

LEMMA ObstTyped ==
  ASSUME NEW obst \in Seq(RaceObsts)
  PROVE  /\ Len(obst) \in Nat
         /\ \A i \in 1..Len(obst) : /\ obst[i] \in RaceObsts
                                   /\ obst[i].y \in Int /\ obst[i].y <= RACE_H
                                   /\ obst[i].lane \in 0..RACE_LANES - 1
<1>1. Len(obst) \in Nat /\ \A i \in 1..Len(obst) : obst[i] \in RaceObsts
  OBVIOUS
<1>2. ASSUME NEW o \in RaceObsts
      PROVE  o.y \in Int /\ o.y <= RACE_H /\ o.lane \in 0..RACE_LANES - 1
  BY RaceNumbers DEF RaceObsts
<1>3. QED
  BY <1>1, <1>2

LEMMA ScrollInLine ==
  ASSUME NEW obst \in Seq(RaceObsts), NEW y \in Int, InLine(obst, y)
  PROVE  /\ RaceScroll(obst) \in Seq(RaceObsts)
         /\ InLine(RaceScroll(obst), y + RACE_SCROLL)
<1> DEFINE N == Len(obst)
           out == IF N > 0 /\ obst[1].y + RACE_SCROLL > RACE_H THEN 1 ELSE 0
           s == RaceScroll(obst)
<1>0. N \in Nat /\ \A i \in 1..N : obst[i].y \in Int /\ obst[i].y <= RACE_H
  BY ObstTyped
<1>1. out \in {0, 1} /\ out <= N
  BY <1>0
<1>2. ASSUME NEW i \in 1..N PROVE (obst[i].y + RACE_SCROLL > RACE_H) <=> (i = out)
  <2>1. CASE i = 1
    BY <2>1, <1>0
  <2>2. CASE i # 1
    <3>1. 1 \in 1..N /\ i \in Int /\ N \in Int /\ i >= 1 + 1
      BY <2>2, <1>0
    <3>2. RacePlace(N, 1, y) - RacePlace(N, i, y) >= 1 * RaceGap
      BY <3>1, GapsApart
    <3>3. obst[1].y - obst[i].y >= RaceGap
      BY <3>1, <3>2, RaceGaps DEF InLine
    <3>4. obst[i].y + RACE_SCROLL <= RACE_H
      BY <3>1, <3>3, <1>0, RaceGaps, RaceNumbers
    <3>5. QED
      BY <3>4, <3>1, <1>1, <1>0, RaceNumbers
  <2>3. QED
    BY <2>1, <2>2
<1> HIDE DEF out
<1>3. /\ s \in Seq(RaceObsts) /\ Len(s) = N - out
      /\ \A i \in 1..(N - out) : s[i].y = obst[i + out].y + RACE_SCROLL
  BY <1>1, <1>2, ScrollOf
<1> HIDE DEF s
<1>4. ASSUME NEW i \in 1..Len(s) PROVE s[i].y = RacePlace(Len(s), i, y + RACE_SCROLL)
  <2>1. i + out \in 1..N /\ i \in Int /\ N \in Int
    BY <1>0, <1>1, <1>3
  <2>2. s[i].y = RacePlace(N, i + out, y) + RACE_SCROLL
    BY <2>1, <1>3 DEF InLine
  <2>3. RacePlace(N, i + out, y) = RacePlace(N - out, i, y)
    BY <2>1, <1>1, RaceGaps DEF RacePlace
  <2>4. RacePlace(N - out, i, y + RACE_SCROLL) = RacePlace(N - out, i, y) + RACE_SCROLL
    BY <2>1, <1>1, Gaps
  <2>5. QED
    BY <2>2, <2>3, <2>4, <1>3
<1>5. QED
  BY <1>3, <1>4 DEF InLine, s

LEMMA NewestTyped ==
  ASSUME NEW t \in 0..RacePeriod - 1
  PROVE  /\ RaceNewest(t) \in Int /\ RaceNewest(t) >= RACE_SCROLL - RACE_OBST_H
         /\ RaceAge(t) = RACE_SPAWN_TICKS - 1 => RaceNewest(t) = RaceGap - RACE_OBST_H
         /\ RaceAge(t + 1) # 0 => RaceNewest((t + 1) % RacePeriod) = RaceNewest(t) + RACE_SCROLL
         /\ RaceAge(t + 1) = 0 => /\ RaceAge(t) = RACE_SPAWN_TICKS - 1
                                 /\ RaceNewest((t + 1) % RacePeriod) = RACE_SCROLL - RACE_OBST_H
<1> DEFINE a == RaceAge(t)
           b == RaceAge(t + 1)
<1>1. /\ a \in 0..RACE_SPAWN_TICKS - 1 /\ RaceAge((t + 1) % RacePeriod) = b
      /\ b = IF a = RACE_SPAWN_TICKS - 1 THEN 0 ELSE a + 1
  BY NextAge
<1> HIDE DEF a, b
<1>2. RaceNewest(t) = RACE_SCROLL * (1 + a) - RACE_OBST_H
  BY DEF RaceNewest, a
<1>3. RaceNewest((t + 1) % RacePeriod) = RACE_SCROLL * (1 + b) - RACE_OBST_H
  BY <1>1 DEF RaceNewest
<1>4. a \in Nat /\ RACE_SCROLL * a >= 0 /\ RACE_SCROLL * a \in Int
  <2>1. ASSUME NEW c \in Nat, NEW d \in Nat PROVE c * d >= 0 /\ c * d \in Int
    OBVIOUS
  <2>2. QED
    BY <2>1, <1>1, RaceNumbers
<1>5. RaceNewest(t) \in Int /\ RaceNewest(t) >= RACE_SCROLL - RACE_OBST_H
  BY <1>2, <1>4, RaceNumbers
<1>6. a = RACE_SPAWN_TICKS - 1 => RaceNewest(t) = RaceGap - RACE_OBST_H
  BY <1>2, RaceNumbers DEF RaceGap
<1>7. b # 0 => RaceNewest((t + 1) % RacePeriod) = RaceNewest(t) + RACE_SCROLL
  BY <1>1, <1>2, <1>3, <1>4, RaceNumbers
<1>8. b = 0 => a = RACE_SPAWN_TICKS - 1
  BY <1>1, RaceNumbers
<1>9. b = 0 => RaceNewest((t + 1) % RacePeriod) = RACE_SCROLL - RACE_OBST_H
  BY <1>3, RaceNumbers
<1>10. QED
  BY <1>5, <1>6, <1>7, <1>8, <1>9 DEF a, b

(* When a spawn is due the oldest obstacle but OBST_MAX has left.          *)
LEMMA RoomToSpawn ==
  ASSUME RaceKept(race), RaceAge(race.tick + 1) = 0
  PROVE  Len(race.obst) < RACE_OBST_MAX
<1> DEFINE N == Len(race.obst)
           y == RaceNewest(race.tick)
<1>1. /\ race.tick \in 0..RacePeriod - 1 /\ race.obst \in Seq(RaceObsts)
      /\ \A i \in 1..N : race.obst[i].y = RacePlace(N, i, y)
  BY DEF RaceKept
<1>2. N \in Nat /\ \A i \in 1..N : race.obst[i].y <= RACE_H
  BY <1>1, ObstTyped
<1>3. y \in Int /\ y = RaceGap - RACE_OBST_H
  BY <1>1, NewestTyped
<1> HIDE DEF N, y
<1>4. CASE N = 0
  BY <1>4, RaceNumbers DEF N
<1>5. CASE N # 0
  <2>1. 1 \in 1..N /\ race.obst[1].y = y + (N - 1) * RaceGap
    BY <1>1, <1>2, <1>5 DEF RacePlace
  <2>2. (N - 1) * RaceGap = N * RaceGap - RaceGap /\ N * RaceGap \in Int
    BY <1>2, RaceGaps
  <2>3. N * RaceGap <= RACE_H + RACE_OBST_H
    BY <2>1, <2>2, <1>2, <1>3, RaceGaps, RaceNumbers
  <2>4. ASSUME NEW a \in Nat, NEW b \in Nat, NEW c \in Nat, a >= b PROVE a * c >= b * c
    <3>1. ASSUME NEW k \in Nat, NEW d \in Nat PROVE k * d >= 0
      OBVIOUS
    <3>2. a - b \in Nat /\ a * c = (a - b) * c + b * c
      BY <2>4
    <3>3. (a - b) * c >= 0
      BY <3>1, <3>2
    <3>4. QED
      BY <3>2, <3>3
  <2>5. ~(N >= RACE_OBST_MAX)
    <3>1. ASSUME N >= RACE_OBST_MAX PROVE N * RaceGap >= RACE_OBST_MAX * RaceGap
      BY <2>4, <3>1, <1>2, RaceGaps, RaceNumbers
    <3>2. RACE_OBST_MAX * RaceGap \in Int
      BY RaceGaps, RaceNumbers
    <3>3. QED
      BY <3>1, <3>2, <2>2, <2>3, RaceGaps, RaceNumbers
  <2>6. QED
    BY <2>5, <1>2, RaceNumbers DEF N
<1>6. QED
  BY <1>4, <1>5

(* The table after the spawn, before it is scrolled.                       *)
LEMMA SpawnInLine ==
  ASSUME RaceKept(race)
  PROVE  /\ RaceSpawned(race.tick + 1) \in Seq(RaceObsts)
         /\ \E y \in Int : /\ InLine(RaceSpawned(race.tick + 1), y)
                          /\ RaceNewest((race.tick + 1) % RacePeriod) = y + RACE_SCROLL
<1> DEFINE t == race.tick
           y == RaceNewest(t)
           N == Len(race.obst)
<1>1. t \in 0..RacePeriod - 1 /\ race.obst \in Seq(RaceObsts) /\ InLine(race.obst, y)
  BY DEF RaceKept, InLine
<1>2. y \in Int /\ N \in Nat
  BY <1>1, NewestTyped, ObstTyped
<1> HIDE DEF t, y, N
<1>3. CASE RaceAge(t + 1) # 0
  <2>1. RaceSpawned(t + 1) = race.obst
    BY <1>3 DEF RaceSpawned, RaceAge
  <2>2. RaceNewest((t + 1) % RacePeriod) = y + RACE_SCROLL
    BY <1>1, <1>3, NewestTyped DEF y
  <2>3. QED
    BY <2>1, <2>2, <1>1, <1>2 DEF t
<1>4. CASE RaceAge(t + 1) = 0
  <2> DEFINE o == [lane |-> (t + 1) % RACE_LANES, y |-> -RACE_OBST_H]
             s == Append(race.obst, o)
  <2>1. N < RACE_OBST_MAX /\ N \in Nat
    BY <1>2, <1>4, RoomToSpawn DEF N, t
  <2>2. RaceSpawned(t + 1) = s
    BY <2>1, <1>4, RaceNumbers DEF RaceSpawned, RaceAge, racing_spawn_obstacle, N
  <2>3. o \in RaceObsts /\ o.y = -RACE_OBST_H
    <3>1. t + 1 \in Int
      BY <1>1, RaceGaps
    <3>2. (t + 1) % RACE_LANES \in 0..RACE_LANES - 1
      BY <3>1, RaceNumbers, Remainder
    <3>3. -RACE_OBST_H \in -RACE_OBST_H..RACE_H
      BY RaceNumbers
    <3>4. QED
      BY <3>2, <3>3 DEF RaceObsts
  <2> HIDE DEF o
  <2>4. s \in Seq(RaceObsts) /\ Len(s) = N + 1
    BY <1>1, <2>3 DEF N
  <2>5. y = RaceGap - RACE_OBST_H /\ RaceNewest((t + 1) % RacePeriod) = -RACE_OBST_H + RACE_SCROLL
    BY <1>1, <1>4, NewestTyped, RaceNumbers DEF y
  <2>6. ASSUME NEW i \in 1..(N + 1) PROVE s[i].y = RacePlace(N + 1, i, -RACE_OBST_H)
    <3>1. -RACE_OBST_H \in Int /\ N + 1 \in Int /\ i \in Int /\ N \in Int
      BY <1>2, RaceNumbers
    <3>2. CASE i = N + 1
      <4>1. s[i] = o
        BY <3>2, <1>1 DEF N
      <4>2. RacePlace(N + 1, N + 1, -RACE_OBST_H) = -RACE_OBST_H
        BY <3>1, Gaps
      <4>3. QED
        BY <3>2, <4>1, <4>2, <2>3
    <3>3. CASE i # N + 1
      <4>1. i \in 1..N
        BY <3>3, <1>2
      <4>2. s[i] = race.obst[i]
        BY <4>1, <1>1 DEF N
      <4>3. race.obst[i].y = RacePlace(N, i, y)
        BY <4>1, <1>1 DEF InLine, N
      <4>4. RacePlace(N + 1, i, -RACE_OBST_H) = RacePlace(N, i, y)
        BY <3>1, <2>5, RaceGaps, RaceNumbers DEF RacePlace
      <4>5. QED
        BY <4>2, <4>3, <4>4
    <3>4. QED
      BY <3>2, <3>3
  <2>7. InLine(s, -RACE_OBST_H) /\ -RACE_OBST_H \in Int
    BY <2>4, <2>6, RaceNumbers DEF InLine
  <2>8. QED
    BY <2>2, <2>4, <2>5, <2>7 DEF t
<1>5. QED
  BY <1>3, <1>4

LEMMA TickKeepsRace ==
  ASSUME RaceKept(race), NEW esc \in BOOLEAN, racing_tick(esc)
  PROVE  RaceKept(race')
<1> DEFINE sp == RaceSpawned(race.tick + 1)
           s == RaceScroll(sp)
           crash == \E i \in DOMAIN s : RaceHit(race.lane, s[i])
           t == (race.tick + 1) % RacePeriod
           sc == (race.score + Len(sp) - Len(s)) % RaceScores
           m == IF esc \/ crash THEN "over" ELSE "play"
<1>1. race' = [race EXCEPT !.tick = t, !.obst = s, !.score = sc, !.mode = m]
  BY DEF racing_tick
<1>2. PICK y \in Int : InLine(sp, y) /\ RaceNewest(t) = y + RACE_SCROLL
  BY SpawnInLine
<1>3. sp \in Seq(RaceObsts)
  BY SpawnInLine
<1>4. s \in Seq(RaceObsts) /\ InLine(s, RaceNewest(t))
  BY <1>2, <1>3, ScrollInLine
<1>5. race.tick \in 0..RacePeriod - 1 /\ race.score \in 0..RaceScores - 1 /\ race.lane \in 0..RACE_LANES - 1
  BY DEF RaceKept
<1>6. t \in 0..RacePeriod - 1
  BY <1>5, RaceGaps, Remainder
<1>7. sc \in 0..RaceScores - 1
  <2>1. race.score + Len(sp) - Len(s) \in Int
    BY <1>3, <1>4, <1>5, RaceNumbers, ObstTyped
  <2>2. QED
    BY <2>1, RaceNumbers, Remainder
<1>8. m \in {"prompt", "play", "over"}
  OBVIOUS
<1> HIDE DEF sp, s, t, sc, m
<1>9. race' = [mode |-> m, lane |-> race.lane, obst |-> s, score |-> sc, tick |-> t]
  BY <1>1 DEF RaceKept
<1>10. /\ race'.mode = m /\ race'.lane = race.lane /\ race'.obst = s /\ race'.score = sc
       /\ race'.tick = t
  BY <1>9
<1>11. QED
  BY <1>4, <1>5, <1>6, <1>7, <1>8, <1>9, <1>10 DEF RaceKept, InLine

LEMMA RaceStarts == RaceKept(RaceOff)
<1>1. 0 \in 0..RacePeriod - 1 /\ 0 \in 0..RaceScores - 1 /\ 1 \in 0..RACE_LANES - 1
  BY RaceGaps, RaceNumbers
<1>2. <<>> \in Seq(RaceObsts) /\ Len(<<>>) = 0
  OBVIOUS
<1>3. /\ RaceOff.mode = "prompt" /\ RaceOff.lane = 1 /\ RaceOff.obst = <<>>
      /\ RaceOff.score = 0 /\ RaceOff.tick = 0
  BY DEF RaceOff
<1>4. QED
  BY <1>1, <1>2, <1>3 DEF RaceKept, RaceOff

(* Steps that leave the road alone.                                        *)
LEMMA RoadAlone ==
  ASSUME NEW r, RaceKept(r), NEW l \in 0..RACE_LANES - 1, NEW m \in {"prompt", "play", "over"}
  PROVE  RaceKept([mode |-> m, lane |-> l, obst |-> r.obst, score |-> r.score, tick |-> r.tick])
BY DEF RaceKept

LEMMA RaceSteps == [AsmNext]_asmVars => RaceNext \/ race' = RaceOff \/ UNCHANGED race
BY DEF AsmNext, PlayGame, DrawScreen, UseWire, UseTables, UseDisk, Reset, asmVars, games

LEMMA NextKeepsRace == RaceKept(race) /\ [AsmNext]_asmVars => RaceKept(race')
<1> SUFFICES ASSUME RaceKept(race), [AsmNext]_asmVars PROVE RaceKept(race')
  OBVIOUS
<1>1. CASE race' = RaceOff
  BY <1>1, RaceStarts
<1>2. CASE UNCHANGED race
  BY <1>2
<1>3. CASE racing_init
  <2>1. race' = [mode |-> "play", lane |-> RaceOff.lane, obst |-> RaceOff.obst,
                 score |-> RaceOff.score, tick |-> RaceOff.tick]
    BY <1>3 DEF racing_init, RaceOff
  <2>2. RaceOff.lane \in 0..RACE_LANES - 1
    BY RaceNumbers DEF RaceOff
  <2>3. QED
    BY <2>1, <2>2, RaceStarts, RoadAlone
<1>4. CASE racing_leave
  BY <1>4, RaceStarts DEF racing_leave
<1>5. CASE RaceLeft
  <2>1. race' = [mode |-> race.mode, lane |-> race.lane - 1, obst |-> race.obst,
                 score |-> race.score, tick |-> race.tick]
    BY <1>5 DEF RaceLeft, RaceKept
  <2>2. race.lane - 1 \in 0..RACE_LANES - 1 /\ race.mode \in {"prompt", "play", "over"}
    <3>1. race.lane \in 0..RACE_LANES - 1 /\ race.mode \in {"prompt", "play", "over"}
      BY DEF RaceKept
    <3>2. race.lane > 0
      BY <1>5 DEF RaceLeft
    <3>3. QED
      BY <3>1, <3>2, RaceNumbers
  <2>3. QED
    BY <2>1, <2>2, RoadAlone
<1>6. CASE RaceRight
  <2>1. race' = [mode |-> race.mode, lane |-> race.lane + 1, obst |-> race.obst,
                 score |-> race.score, tick |-> race.tick]
    BY <1>6 DEF RaceRight, RaceKept
  <2>2. race.lane + 1 \in 0..RACE_LANES - 1 /\ race.mode \in {"prompt", "play", "over"}
    <3>1. race.lane \in 0..RACE_LANES - 1 /\ race.mode \in {"prompt", "play", "over"}
      BY DEF RaceKept
    <3>2. race.lane < RACE_LANES - 1
      BY <1>6 DEF RaceRight
    <3>3. QED
      BY <3>1, <3>2, RaceNumbers
  <2>3. QED
    BY <2>1, <2>2, RoadAlone
<1>7. CASE \E esc \in BOOLEAN : racing_tick(esc)
  BY <1>7, TickKeepsRace
<1>8. QED
  BY <1>1, <1>2, <1>3, <1>4, <1>5, <1>6, <1>7, RaceSteps DEF RaceNext

(* An obstacle in another lane is no danger: the lanes are wide enough.    *)
LEMMA OtherLaneSafe ==
  ASSUME NEW o \in RaceObsts, NEW l \in 0..RACE_LANES - 1, o.lane # l
  PROVE  ~RaceHit(l, o)
<1> DEFINE w == RACE_LANE_W
           k == o.lane
           cw == RACE_CAR_W \div 2
           h == RACE_OBST_W \div 2
           e == RACE_LANE_W \div 2
           x == k * w
           z == l * w
<1>1. w \in Nat /\ cw \in Nat /\ h \in Nat /\ e \in Int
  BY RaceNumbers DEF RACE_LANE_W
<1>2. w >= cw + RACE_OBST_W - h /\ h + h <= RACE_OBST_W
  BY RacingAssumption, RaceNumbers DEF RACE_LANE_W
<1>3. k \in Int /\ l \in Int /\ k # l
  BY RaceNumbers DEF RaceObsts
<1>4. RaceHit(l, o) => (z + e) + cw > x + e - h /\ (z + e) - cw < (x + e - h) + RACE_OBST_W
  <2>1. RaceObstX(o) = x + e - h /\ race_car_center_x(l) = z + e
    BY DEF race_car_center_x, RaceObstX
  <2> HIDE DEF x, z, e, h, cw
  <2>2. RaceHit(l, o) => /\ race_car_center_x(l) + RACE_CAR_W \div 2 > RaceObstX(o)
                         /\ race_car_center_x(l) - RACE_CAR_W \div 2 < RaceObstX(o) + RACE_OBST_W
    BY Zenon DEF RaceHit
  <2>3. QED
    BY Zenon, <2>1, <2>2 DEF cw
<1> HIDE DEF w, k, cw, h, e
<1>5. x \in Int /\ z \in Int
  BY <1>1, <1>3
<1>6. ASSUME NEW a \in Int, NEW b \in Int, a >= b + 1 PROVE a * w >= b * w + w
  <2>1. ASSUME NEW c \in Nat, NEW d \in Nat PROVE c * d >= 0
    OBVIOUS
  <2>2. a - b - 1 \in Nat
    BY <1>6
  <2>3. (a - b - 1) * w >= 0
    BY <2>1, <2>2, <1>1
  <2>4. a * w = (a - b - 1) * w + b * w + w /\ a * w \in Int /\ b * w \in Int /\ (a - b - 1) * w \in Int
    BY <1>1
  <2>5. QED
    BY <2>3, <2>4, <1>1
<1>7. CASE l > k
  <2>1. z >= x + w
    BY <1>3, <1>6, <1>7
  <2> HIDE DEF x, z
  <2>2. QED
    BY <2>1, <1>1, <1>2, <1>4, <1>5, RaceNumbers
<1>8. CASE l < k
  <2>1. x >= z + w
    BY <1>3, <1>6, <1>8
  <2> HIDE DEF x, z
  <2>2. QED
    BY <2>1, <1>1, <1>2, <1>4, <1>5, RaceNumbers
<1>9. QED
  BY <1>3, <1>7, <1>8

(* Fewer obstacles than lanes are as far down as the car, so one lane has  *)
(* none of them.                                                           *)
LEMMA LaneLeft ==
  ASSUME NEW s \in Seq(RaceObsts), NEW y \in Int, InLine(s, y)
  PROVE  \E l \in 0..RACE_LANES - 1 : \A i \in 1..Len(s) : ~RaceHit(l, s[i])
<1> DEFINE Z == {i \in 1..Len(s) : /\ s[i].y + RACE_OBST_H >= RaceCarY
                                  /\ s[i].y <= RaceCarY + RACE_CAR_H}
           L == 0..RACE_LANES - 1
<1>0. /\ Len(s) \in Nat /\ RaceCarY \in Int
      /\ \A i \in 1..Len(s) : s[i] \in RaceObsts /\ s[i].y \in Int /\ s[i].lane \in L
  BY ObstTyped, RaceNumbers DEF RaceCarY
<1>1. ASSUME NEW i \in 1..Len(s), NEW l, RaceHit(l, s[i]) PROVE i \in Z
  BY <1>1 DEF RaceHit
<1>2. PICK l \in L : \A i \in Z : s[i].lane # l
  <2>1. SUFFICES ASSUME \A l \in L : \E i \in Z : s[i].lane = l PROVE FALSE
    OBVIOUS
  <2>2. 0 \in L
    BY RaceNumbers
  <2>3. Z # {} /\ Z \in SUBSET Nat
    BY SMTT(20), <2>1, <2>2, <1>0
  <2>4. PICK a \in Z : \A i \in Z : a <= i
    BY <2>3, MinIsLeast
  <2>5. ASSUME NEW i \in Z PROVE i \in a..(a + RACE_LANES - 2)
    <3>1. a \in 1..Len(s) /\ i \in 1..Len(s) /\ a <= i /\ a \in Int /\ i \in Int
      BY <2>4, <1>0
    <3>2. s[a].y - s[i].y <= RACE_CAR_H + RACE_OBST_H
      BY SMTT(20), <3>1, <1>0, <2>4, <2>5, RaceNumbers
    <3>3. ASSUME i >= a + (RACE_LANES - 1) PROVE FALSE
      <4>1. RacePlace(Len(s), a, y) - RacePlace(Len(s), i, y) >= (RACE_LANES - 1) * RaceGap
        BY <3>1, <3>3, <1>0, RaceNumbers, GapsApart
      <4>2. s[a].y - s[i].y >= (RACE_LANES - 1) * RaceGap
        BY <4>1, <3>1 DEF InLine
      <4>3. (RACE_LANES - 1) * RaceGap \in Int
        BY RaceGaps, RaceNumbers
      <4>4. QED
        BY SMTT(20), <4>2, <4>3, <3>1, <3>2, <1>0, RaceGaps, RaceNumbers
    <3>4. QED
      BY <3>1, <3>3, RaceNumbers
  <2> DEFINE I == a..(a + RACE_LANES - 2)
             f == [i \in Z |-> s[i].lane]
  <2>6. IsFiniteSet(I) /\ Cardinality(I) = RACE_LANES - 1
    <3>1. a \in Int /\ a + RACE_LANES - 2 \in Int /\ ~(a > a + RACE_LANES - 2)
          /\ (a + RACE_LANES - 2) - a + 1 = RACE_LANES - 1
      BY <2>3, <2>4, RaceNumbers
    <3>2. QED
      BY <3>1, FS_Interval
  <2>7. Z \in SUBSET I
    BY <2>5
  <2>8. IsFiniteSet(Z) /\ Cardinality(Z) <= RACE_LANES - 1 /\ Cardinality(Z) \in Nat
    <3>1. IsFiniteSet(Z) /\ Cardinality(Z) <= Cardinality(I)
      BY <2>6, <2>7, FS_Subset
    <3>2. Cardinality(Z) \in Nat
      BY <3>1, FS_CardinalityType
    <3>3. QED
      BY <3>1, <3>2, <2>6
  <2>9. f \in Surjection(Z, L)
    BY <1>0, <2>1 DEF Surjection
  <2>10. IsFiniteSet(L) /\ Cardinality(L) = RACE_LANES
    <3>1. 0 \in Int /\ RACE_LANES - 1 \in Int /\ ~(0 > RACE_LANES - 1)
          /\ (RACE_LANES - 1) - 0 + 1 = RACE_LANES
      BY RaceNumbers
    <3>2. QED
      BY <3>1, FS_Interval
  <2>11. Cardinality(L) <= Cardinality(Z)
    BY <2>8, <2>9, FS_Surjection
  <2>12. QED
    BY <2>8, <2>10, <2>11, RaceNumbers
<1>3. ASSUME NEW i \in 1..Len(s) PROVE ~RaceHit(l, s[i])
  <2>1. CASE i \in Z
    BY <2>1, <1>0, <1>2, OtherLaneSafe
  <2>2. CASE i \notin Z
    BY <2>2, <1>1
  <2>3. QED
    BY <2>1, <2>2
<1>4. QED
  BY <1>2, <1>3

LEMMA RaceIsFair == ASSUME RaceKept(race) PROVE RaceFair
<1> DEFINE y == RaceNewest(race.tick)
           N == Len(race.obst)
           s == RaceScroll(race.obst)
<1>1. race.tick \in 0..RacePeriod - 1 /\ race.obst \in Seq(RaceObsts) /\ InLine(race.obst, y)
  BY DEF RaceKept, InLine
<1>2. y \in Int /\ N \in Nat
  BY <1>1, NewestTyped, ObstTyped
<1> HIDE DEF y
<1>3. RaceTypeOK
  BY DEF RaceKept, RaceTypeOK, RaceObsts
<1>4. (race.tick + 1) % RACE_SPAWN_TICKS = 0 => N < RACE_OBST_MAX
  BY RoomToSpawn DEF RaceAge
<1>5. ASSUME NEW i \in 1..N - 1
      PROVE  race.obst[i].y - race.obst[i + 1].y = RACE_SPAWN_TICKS * RACE_SCROLL
  <2>1. i \in 1..N /\ i + 1 \in 1..N /\ i \in Int /\ N \in Int
    BY <1>2
  <2>2. RacePlace(N, i, y) - RacePlace(N, i + 1, y) = RaceGap
    BY <2>1, <1>2, Gaps
  <2>3. QED
    BY <2>1, <2>2, <1>1 DEF InLine, RaceGap
<1>6. s \in Seq(RaceObsts) /\ InLine(s, y + RACE_SCROLL) /\ y + RACE_SCROLL \in Int
  BY <1>1, <1>2, ScrollInLine, RaceNumbers
<1> HIDE DEF s
<1>7. PICK l \in 0..RACE_LANES - 1 : \A i \in 1..Len(s) : ~RaceHit(l, s[i])
  BY <1>6, LaneLeft
<1>8. ASSUME NEW o \in ToSet(s) PROVE ~RaceHit(l, o)
  <2>1. PICK i \in DOMAIN s : o = s[i]
    BY DEF ToSet
  <2>2. DOMAIN s = 1..Len(s)
    BY <1>6
  <2>3. QED
    BY <2>1, <2>2, <1>7
<1>9. QED
  BY <1>3, <1>4, <1>5, <1>7, <1>8 DEF RaceFair, s

(* The race can be won for ever, for every size of the road, number of     *)
(* lanes and distance of the spawns that fit each other (RacingAssumption):*)
(* a spawn always finds room in the table, the obstacles stay evenly       *)
(* spaced whichever of them leave, and one lane is always free.            *)
THEOREM RaceStaysFair == AsmSpec => []RaceFair
<1>1. AsmInit => RaceKept(race)
  BY RaceStarts DEF AsmInit, RaceInit
<1> DEFINE I == RaceKept(race)
<1>2. I /\ [AsmNext]_asmVars => I'
  BY NextKeepsRace DEF RaceKept, RacePlace, RaceNewest, RaceAge, RaceGap, RaceObsts, RacePeriod
<1>3. I => RaceFair
  BY RaceIsFair
<1> HIDE DEF I
<1>4. AsmInit => I
  BY <1>1 DEF I
<1>5. QED
  BY <1>2, <1>3, <1>4, PTL DEF AsmSpec
-------------------------------------------------------------------------------
(* Tetris.  What one pass of the loop over the rows does: the lowest full  *)
(* row is gone, and with it TETRIS_W cells.                                *)
Well == (0..TETRIS_W - 1) \X (0..TETRIS_H - 1)

LEMMA TetrisNumbers ==
  /\ TETRIS_W \in Nat /\ TETRIS_W >= 4 /\ TETRIS_H \in Nat /\ TETRIS_H >= 2
  /\ TETRIS_DROP_MAX \in Nat /\ TETRIS_DROP_MAX >= 1 /\ TetrisLines \in Nat
BY TetrisAssumption

LEMMA OneToOne ==
  ASSUME NEW S, NEW T, NEW g \in [S -> T],
         \A x, y \in S : g[x] = g[y] => x = y,
         \A z \in T : \E x \in S : g[x] = z
  PROVE  g \in Bijection(S, T) /\ ExistsBijection(S, T)
<1>1. g \in Injection(S, T)
  BY DEF Injection, IsInjective
<1>2. g \in Surjection(S, T)
  BY DEF Surjection
<1>3. g \in Bijection(S, T)
  BY <1>1, <1>2 DEF Bijection
<1>4. QED
  BY <1>3 DEF ExistsBijection

LEMMA WellCells ==
  /\ \A c \in Well : /\ c[1] \in 0..TETRIS_W - 1 /\ c[2] \in 0..TETRIS_H - 1 /\ c = <<c[1], c[2]>>
                     /\ c[1] \in Int /\ c[2] \in Int
  /\ \A x \in 0..TETRIS_W - 1, y \in 0..TETRIS_H - 1 : <<x, y>> \in Well
BY TetrisNumbers DEF Well

LEMMA BoardFinite ==
  ASSUME NEW b \in SUBSET Well
  PROVE  IsFiniteSet(b) /\ Cardinality(b) \in Nat /\ IsFiniteSet(Well) /\ Cardinality(b) <= Cardinality(Well)
         /\ Cardinality(Well) \in Nat
<1> DEFINE X == 0..TETRIS_W - 1
           Y == 0..TETRIS_H - 1
<1>1. IsFiniteSet(X) /\ IsFiniteSet(Y)
  BY FS_Interval, TetrisNumbers
<1>2. IsFiniteSet(Well)
  BY <1>1, FS_Product DEF Well
<1>3. IsFiniteSet(b) /\ Cardinality(b) <= Cardinality(Well)
  BY <1>2, FS_Subset
<1>4. QED
  BY <1>2, <1>3, FS_CardinalityType

LEMMA FullFinite ==
  ASSUME NEW b
  PROVE  IsFiniteSet(TetrisFullRows(b)) /\ Cardinality(TetrisFullRows(b)) \in Nat
<1> DEFINE Y == 0..TETRIS_H - 1
           F == TetrisFullRows(b)
<1>1. IsFiniteSet(Y)
  BY FS_Interval, TetrisNumbers
<1>2. F \in SUBSET Y
  BY DEF TetrisFullRows
<1> HIDE DEF F, Y
<1>3. IsFiniteSet(F)
  BY <1>1, <1>2, FS_Subset
<1>4. QED
  BY <1>3, FS_CardinalityType DEF F

LEMMA LowestFull ==
  ASSUME NEW b, TetrisFullRows(b) # {}
  PROVE  /\ Max(TetrisFullRows(b)) \in TetrisFullRows(b)
         /\ Max(TetrisFullRows(b)) \in 0..TETRIS_H - 1
         /\ \A k \in TetrisFullRows(b) : k <= Max(TetrisFullRows(b))
<1> DEFINE F == TetrisFullRows(b)
           T == {n \in Nat : \E k \in F : n = TETRIS_H - k}
<1>1. F \in SUBSET (0..TETRIS_H - 1)
  BY DEF TetrisFullRows
<1> HIDE DEF F
<1>2. ASSUME NEW k \in F PROVE TETRIS_H - k \in T /\ k \in Int
  <2>1. k \in 0..TETRIS_H - 1
    BY <1>1
  <2>2. TETRIS_H - k \in Nat
    BY <2>1, TetrisNumbers
  <2>3. QED
    BY <2>1, <2>2
<1>3. PICK k0 \in F : TRUE
  BY DEF F
<1>4. T \in SUBSET Nat /\ T # {}
  BY <1>2, <1>3
<1>5. PICK n \in T : \A m \in T : n <= m
  BY <1>4, MinIsLeast
<1>6. PICK r \in F : n = TETRIS_H - r
  BY <1>5
<1>7. ASSUME NEW k \in F PROVE r >= k
  <2>1. n <= TETRIS_H - k /\ k \in Int /\ r \in Int
    BY <1>2, <1>5, <1>6
  <2>2. QED
    BY <2>1, <1>6, TetrisNumbers
<1> DEFINE m == Max(F)
<1>8. m \in F /\ \A k \in F : m >= k
  BY <1>7 DEF Max
<1> HIDE DEF m
<1>9. m \in 0..TETRIS_H - 1 /\ \A k \in F : k \in Int
  BY <1>1, <1>2, <1>8
<1>10. \A k \in F : k <= m
  BY <1>8, <1>9, TetrisNumbers
<1>11. QED
  BY <1>8, <1>9, <1>10 DEF m, F

(* How the cells of the two boards correspond.                             *)
RowOf(b, r) == {c \in b : c[2] = r}
Lowered(r, c) == IF c[2] > r THEN c ELSE <<c[1], c[2] + 1>>

LEMMA DropRow ==
  ASSUME NEW b \in SUBSET Well, NEW r \in TetrisFullRows(b)
  PROVE  /\ TetrisDropRow(b, r) \in SUBSET Well
         /\ Cardinality(TetrisDropRow(b, r)) = Cardinality(b) - TETRIS_W
         /\ Cardinality(b) >= TETRIS_W
<1> DEFINE D == TetrisDropRow(b, r)
           A == b \ RowOf(b, r)
           f == [c \in A |-> Lowered(r, c)]
<1>0. r \in 0..TETRIS_H - 1 /\ r \in Int
  BY TetrisNumbers DEF TetrisFullRows
<1>1. ASSUME NEW c \in A
      PROVE  /\ c \in b /\ c[1] \in Int /\ c[2] \in Int /\ c = <<c[1], c[2]>> /\ c[2] # r /\ c \in Well
             /\ Lowered(r, c) \in D
             /\ Lowered(r, c) \in Well
             /\ Lowered(r, c)[1] = c[1]
             /\ c[2] > r => Lowered(r, c)[2] = c[2]
             /\ c[2] < r => Lowered(r, c)[2] = c[2] + 1
  <2>1. /\ c \in b /\ c \in Well /\ c[2] # r /\ c = <<c[1], c[2]>> /\ c[1] \in Int /\ c[2] \in Int
        /\ c[1] \in 0..TETRIS_W - 1 /\ c[2] \in 0..TETRIS_H - 1
    BY WellCells DEF RowOf
  <2>2. CASE c[2] > r
    <3>1. Lowered(r, c) = c /\ ~(c[2] < r)
      BY <2>1, <2>2, <1>0 DEF Lowered
    <3>2. c \in D
      BY <2>1, <2>2 DEF TetrisDropRow
    <3>3. QED
      BY <3>1, <3>2, <2>1
  <2>3. CASE c[2] < r
    <3> DEFINE e == <<c[1], c[2] + 1>>
    <3>1. Lowered(r, c) = e /\ ~(c[2] > r)
      BY <2>1, <2>3, <1>0 DEF Lowered
    <3>2. e \in D
      BY <2>1, <2>3 DEF TetrisDropRow
    <3>3. c[2] + 1 \in 0..TETRIS_H - 1
      BY <2>1, <2>3, <1>0, TetrisNumbers
    <3>4. e \in Well /\ e[1] = c[1] /\ e[2] = c[2] + 1
      BY <2>1, <3>3, WellCells
    <3> HIDE DEF e
    <3>5. QED
      BY <3>1, <3>2, <3>4, <2>1
  <2>4. QED
    BY <2>1, <2>2, <2>3, <1>0
<1>2. ASSUME NEW d \in D PROVE \E c \in A : d = Lowered(r, c)
  <2>1. CASE d \in b /\ d[2] > r
    <3>1. d \in Well /\ d[2] \in Int
      BY <2>1, WellCells
    <3>2. d \in A /\ Lowered(r, d) = d
      BY <2>1, <3>1, <1>0 DEF RowOf, Lowered
    <3>3. QED
      BY <3>2
  <2>2. CASE ~(d \in b /\ d[2] > r)
    <3>1. PICK c \in b : c[2] < r /\ d = <<c[1], c[2] + 1>>
      BY <2>2 DEF TetrisDropRow
    <3>2. c \in Well /\ c[2] \in Int
      BY <3>1, WellCells
    <3>3. c \in A /\ Lowered(r, c) = d
      BY <3>1, <3>2, <1>0 DEF RowOf, Lowered
    <3>4. QED
      BY <3>3
  <2>3. QED
    BY <2>1, <2>2
<1>3. ASSUME NEW c \in A, NEW d \in A, Lowered(r, c) = Lowered(r, d) PROVE c = d
  <2>1. /\ c[1] \in Int /\ c[2] \in Int /\ c = <<c[1], c[2]>> /\ c[2] # r
        /\ d[1] \in Int /\ d[2] \in Int /\ d = <<d[1], d[2]>> /\ d[2] # r
        /\ Lowered(r, c)[1] = c[1] /\ Lowered(r, d)[1] = d[1]
        /\ c[2] > r => Lowered(r, c)[2] = c[2]
        /\ c[2] < r => Lowered(r, c)[2] = c[2] + 1
        /\ d[2] > r => Lowered(r, d)[2] = d[2]
        /\ d[2] < r => Lowered(r, d)[2] = d[2] + 1
    BY <1>1
  <2>2. c[1] = d[1]
    BY <2>1, <1>3
  <2>3. c[2] = d[2]
    BY <2>1, <1>0, <1>3
  <2>4. QED
    BY <2>1, <2>2, <2>3
<1> HIDE DEF D, A
<1>4. f \in Bijection(A, D)
  <2>1. f \in [A -> D]
    BY <1>1
  <2>2. \A c, d \in A : f[c] = f[d] => c = d
    BY <1>3
  <2>3. \A d \in D : \E c \in A : f[c] = d
    BY <1>2
  <2> HIDE DEF f
  <2>4. QED
    BY <2>1, <2>2, <2>3, OneToOne
<1>5. IsFiniteSet(b) /\ Cardinality(b) \in Nat
  BY BoardFinite
<1> DEFINE Q == RowOf(b, r)
           X == 0..TETRIS_W - 1
           h == [x \in X |-> <<x, r>>]
<1>6. ASSUME NEW x \in X PROVE <<x, r>> \in Q
  <2>1. <<x, r>> \in b
    BY DEF TetrisFullRows
  <2>2. QED
    BY <2>1 DEF RowOf
<1>7. ASSUME NEW c \in Q PROVE c[1] \in X /\ c = <<c[1], r>>
  BY WellCells DEF RowOf
<1>8. h \in Bijection(X, Q)
  <2> HIDE DEF Q, X
  <2>1. h \in [X -> Q]
    BY <1>6
  <2>2. \A x, y \in X : h[x] = h[y] => x = y
    OBVIOUS
  <2>3. \A c \in Q : \E x \in X : h[x] = c
    BY <1>7
  <2> HIDE DEF h
  <2>4. QED
    BY <2>1, <2>2, <2>3, OneToOne
<1>9. IsFiniteSet(X) /\ Cardinality(X) = TETRIS_W
  <2>1. 0 \in Int /\ TETRIS_W - 1 \in Int /\ ~(0 > TETRIS_W - 1) /\ (TETRIS_W - 1) - 0 + 1 = TETRIS_W
    BY TetrisNumbers
  <2>2. QED
    BY <2>1, FS_Interval
<1> HIDE DEF X
<1>10. ExistsBijection(X, Q) /\ ExistsBijection(A, D)
  BY <1>4, <1>8 DEF ExistsBijection
<1>11. IsFiniteSet(Q) /\ Cardinality(Q) = TETRIS_W
  BY <1>9, <1>10, FS_Bijection
<1>12. b \cap Q = Q /\ A = b \ Q
  BY DEF RowOf, A
<1> HIDE DEF Q
<1>13. IsFiniteSet(A) /\ Cardinality(A) = Cardinality(b) - TETRIS_W /\ Cardinality(A) \in Nat
  <2>1. IsFiniteSet(b \ Q) /\ Cardinality(b \ Q) = Cardinality(b) - Cardinality(b \cap Q)
    BY <1>5, FS_Difference
  <2>2. QED
    BY <2>1, <1>11, <1>12, FS_CardinalityType
<1>14. Cardinality(D) = Cardinality(A)
  BY <1>10, <1>13, FS_Bijection
<1>15. D \in SUBSET Well
  BY <1>1, <1>2
<1>16. QED
  BY <1>5, <1>13, <1>14, <1>15, TetrisNumbers DEF D

LEMMA InDropped ==
  ASSUME NEW b \in SUBSET Well, NEW r \in 0..TETRIS_H - 1,
         NEW x \in 0..TETRIS_W - 1, NEW k \in 0..TETRIS_H - 1
  PROVE  /\ k > r => (<<x, k>> \in TetrisDropRow(b, r) <=> <<x, k>> \in b)
         /\ k <= r => (<<x, k>> \in TetrisDropRow(b, r) <=> <<x, k - 1>> \in b)
<1> DEFINE c == <<x, k>>
           d == <<x, k - 1>>
           D == TetrisDropRow(b, r)
<1>0. r \in Int /\ k \in Int /\ x \in Int
  BY TetrisNumbers
<1>1. c[2] = k /\ d[2] = k - 1 /\ d[1] = x /\ d[2] + 1 = k /\ c[1] = x
  BY <1>0
<1>2. ASSUME c \in D PROVE (c \in b /\ k > r) \/ (d \in b /\ k - 1 < r)
  <2>1. CASE c \in b /\ c[2] > r
    BY <2>1, <1>1
  <2>2. CASE \E e \in b : e[2] < r /\ c = <<e[1], e[2] + 1>>
    <3>1. PICK e \in b : e[2] < r /\ c = <<e[1], e[2] + 1>>
      BY <2>2
    <3>2. e = <<e[1], e[2]>> /\ e[2] \in Int
      BY WellCells
    <3>3. e[1] = x /\ e[2] + 1 = k
      BY <3>1, <1>1
    <3>4. e[2] = k - 1
      BY <3>2, <3>3, <1>0
    <3>5. QED
      BY <3>1, <3>2, <3>3, <3>4
  <2>3. QED
    BY <1>2, <2>1, <2>2 DEF TetrisDropRow
<1>3. ASSUME c \in b, k > r PROVE c \in D
  BY <1>1, <1>3 DEF TetrisDropRow
<1>4. ASSUME d \in b, k - 1 < r PROVE c \in D
  <2>1. c = <<d[1], d[2] + 1>> /\ d[2] < r
    BY <1>1, <1>4
  <2> HIDE DEF d, c
  <2>2. QED
    BY <2>1, <1>4 DEF TetrisDropRow
<1> HIDE DEF c, d, D
<1>5. QED
  BY <1>0, <1>2, <1>3, <1>4 DEF c, d, D

(* One full row less.                                                      *)
LEMMA FullDropped ==
  ASSUME NEW b \in SUBSET Well, TetrisFullRows(b) # {}
  PROVE  LET D == TetrisDropRow(b, Max(TetrisFullRows(b)))
         IN  Cardinality(TetrisFullRows(D)) = Cardinality(TetrisFullRows(b)) - 1
<1> DEFINE F == TetrisFullRows(b)
           r == Max(F)
           D == TetrisDropRow(b, r)
           G == TetrisFullRows(D)
           Y == 0..TETRIS_H - 1
           X == 0..TETRIS_W - 1
           f == [k \in F \ {r} |-> k + 1]
<1>1. r \in F /\ r \in Y /\ \A k \in F : k <= r
  BY LowestFull
<1>2. F \in SUBSET Y /\ G \in SUBSET Y /\ Y \in SUBSET Int /\ r \in Int /\ 0 \in X
  BY <1>1, TetrisNumbers DEF TetrisFullRows
<1>3. ASSUME NEW k \in Y
      PROVE  /\ k \in F <=> \A x \in X : <<x, k>> \in b
             /\ k \in G <=> \A x \in X : <<x, k>> \in D
  BY DEF TetrisFullRows
<1>4. ASSUME NEW k \in Y, NEW x \in X
      PROVE  /\ k > r => (<<x, k>> \in D <=> <<x, k>> \in b)
             /\ k <= r => (<<x, k>> \in D <=> <<x, k - 1>> \in b)
  BY <1>1, InDropped
<1> HIDE DEF F, r, D, G, X
<1>5. ASSUME NEW k \in F \ {r} PROVE k + 1 \in G
  <2>1. k \in Y /\ k \in Int /\ k < r
    BY <1>1, <1>2
  <2>2. k + 1 \in Y /\ k + 1 <= r /\ (k + 1) - 1 = k
    BY <2>1, <1>1, <1>2, TetrisNumbers
  <2>3. ASSUME NEW x \in X PROVE <<x, k + 1>> \in D
    <3>1. <<x, (k + 1) - 1>> \in b
      BY <2>1, <2>2, <1>3
    <3>2. QED
      BY <2>2, <3>1, <1>4
  <2>4. QED
    BY <2>2, <2>3, <1>3
<1>6. ASSUME NEW k \in G PROVE k - 1 \in F \ {r} /\ (k - 1) + 1 = k
  <2>1. k \in Y /\ k \in Int
    BY <1>2
  <2>2. k <= r
    <3>1. SUFFICES ASSUME k > r PROVE FALSE
      BY <2>1, <1>2
    <3>2. \A x \in X : <<x, k>> \in b
      BY <2>1, <3>1, <1>3, <1>4
    <3>3. k \in F
      BY <2>1, <3>2, <1>3
    <3>4. QED
      BY <3>1, <3>3, <1>1, <1>2, <2>1
  <2>3. \A x \in X : <<x, k - 1>> \in b
    BY <2>1, <2>2, <1>3, <1>4
  <2>4. k - 1 \in Y
    <3>1. <<0, k - 1>> \in b
      BY <2>3, <1>2
    <3>2. <<0, k - 1>> \in Well
      BY <3>1
    <3>3. <<0, k - 1>>[2] \in Y
      BY <3>2, WellCells
    <3>4. QED
      BY <3>3
  <2>5. k - 1 \in F
    BY <2>3, <2>4, <1>3
  <2>6. QED
    BY <2>1, <2>2, <2>5, <1>2
<1> DEFINE A == F \ {r}
<1>7. ExistsBijection(A, G)
  <2>1. f \in [A -> G]
    BY <1>5
  <2>2. \A i, j \in A : f[i] = f[j] => i = j
    <3>1. \A i \in A : i \in Int /\ f[i] = i + 1
      BY <1>2
    <3> HIDE DEF f, A
    <3>2. QED
      BY <3>1
  <2>3. \A k \in G : \E i \in A : f[i] = k
    <3>1. ASSUME NEW k \in G PROVE k - 1 \in A /\ f[k - 1] = k
      BY <1>6
    <3> HIDE DEF f, A
    <3>2. QED
      BY <3>1
  <2> HIDE DEF f, A
  <2>4. QED
    BY <2>1, <2>2, <2>3, OneToOne
<1>8. IsFiniteSet(F) /\ Cardinality(F) \in Nat
  BY FullFinite DEF F
<1>9. IsFiniteSet(A) /\ Cardinality(A) = Cardinality(F) - 1
  BY <1>1, <1>8, FS_RemoveElement
<1>10. Cardinality(G) = Cardinality(A)
  BY <1>7, <1>9, FS_Bijection
<1>11. QED
  BY <1>9, <1>10 DEF F, r, D, G

(* The loop as a function, and that there is one.                          *)
ClearStep(f, b) ==
  IF TetrisFullRows(b) = {} THEN b ELSE f[TetrisDropRow(b, Max(TetrisFullRows(b)))]
Clears == CHOOSE f : f = [b \in SUBSET Well |-> ClearStep(f, b)]
Upto(n) == {b \in SUBSET Well : Cardinality(b) <= n}
ClearedUpto(n) == \E f : f = [b \in Upto(n) |-> ClearStep(f, b)]

LEMMA ClearIs == ASSUME NEW b PROVE TetrisClear(b) = Clears[b]
BY DEF TetrisClear, Clears, ClearStep, Well

LEMMA DropShorter ==
  ASSUME NEW b \in SUBSET Well, TetrisFullRows(b) # {}
  PROVE  /\ TetrisDropRow(b, Max(TetrisFullRows(b))) \in SUBSET Well
         /\ Cardinality(TetrisDropRow(b, Max(TetrisFullRows(b)))) = Cardinality(b) - TETRIS_W
         /\ Cardinality(b) >= TETRIS_W
BY LowestFull, DropRow

LEMMA ClearsExist ==
  ASSUME NEW n \in Nat
  PROVE  ClearedUpto(n)
<1> DEFINE Bad == {m \in Nat : ~ClearedUpto(m)}
<1> SUFFICES ASSUME Bad # {} PROVE FALSE
  OBVIOUS
<1>1. PICK m \in Bad : \A k \in Bad : m <= k
  BY MinIsLeast
<1>2. ASSUME m = 0 PROVE FALSE
  <2> DEFINE g == [b \in Upto(m) |-> b]
  <2>1. ASSUME NEW b \in Upto(m) PROVE ClearStep(g, b) = b
    <3>1. b \in SUBSET Well /\ Cardinality(b) <= 0
      BY <1>2 DEF Upto
    <3>2. TetrisFullRows(b) = {}
      BY <3>1, DropShorter, BoardFinite, TetrisNumbers
    <3>3. QED
      BY <3>2 DEF ClearStep
  <2>2. g = [b \in Upto(m) |-> ClearStep(g, b)]
    <3>1. [b \in Upto(m) |-> ClearStep(g, b)] = [b \in Upto(m) |-> b]
      BY <2>1
    <3>2. QED
      BY <3>1
  <2> HIDE DEF g
  <2>3. QED
    BY <2>2, <1>1 DEF ClearedUpto
<1>3. CASE m > 0
  <2>1. m - 1 \in Nat /\ m - 1 \notin Bad
    BY <1>1, <1>3
  <2>2. PICK f : f = [b \in Upto(m - 1) |-> ClearStep(f, b)]
    BY <2>1 DEF ClearedUpto
  <2> DEFINE g == [b \in Upto(m) |-> ClearStep(f, b)]
  <2>3. ASSUME NEW b \in Upto(m - 1) PROVE b \in Upto(m) /\ f[b] = ClearStep(f, b) /\ g[b] = f[b]
    <3>1. b \in Upto(m)
      BY <1>1, BoardFinite DEF Upto
    <3>2. f[b] = ClearStep(f, b)
      BY <2>2
    <3>3. QED
      BY <3>1, <3>2
  <2>4. ASSUME NEW b \in Upto(m) PROVE ClearStep(g, b) = ClearStep(f, b)
    <3>1. CASE TetrisFullRows(b) = {}
      BY <3>1 DEF ClearStep
    <3>2. CASE TetrisFullRows(b) # {}
      <4> DEFINE D == TetrisDropRow(b, Max(TetrisFullRows(b)))
      <4>1. D \in Upto(m - 1)
        <5>1. b \in SUBSET Well /\ Cardinality(b) <= m /\ Cardinality(b) \in Nat
          BY BoardFinite DEF Upto
        <5>2. D \in SUBSET Well /\ Cardinality(D) = Cardinality(b) - TETRIS_W
          BY <5>1, <3>2, DropShorter
        <5>3. Cardinality(D) <= m - 1
          BY <5>1, <5>2, <1>1, TetrisNumbers
        <5>4. QED
          BY <5>2, <5>3 DEF Upto
      <4>2. g[D] = f[D]
        BY <4>1, <2>3
      <4> HIDE DEF D, g
      <4>3. QED
        BY <4>2, <3>2 DEF ClearStep, D
    <3>3. QED
      BY <3>1, <3>2
  <2>5. g = [b \in Upto(m) |-> ClearStep(g, b)]
    <3>1. [b \in Upto(m) |-> ClearStep(g, b)] = [b \in Upto(m) |-> ClearStep(f, b)]
      BY <2>4
    <3>2. QED
      BY <3>1
  <2> HIDE DEF g
  <2>6. QED
    BY <2>5, <1>1 DEF ClearedUpto
<1>4. QED
  BY <1>1, <1>2, <1>3

LEMMA ClearsAll ==
  ASSUME NEW b \in SUBSET Well
  PROVE  TetrisClear(b) = IF TetrisFullRows(b) = {} THEN b
                          ELSE TetrisClear(TetrisDropRow(b, Max(TetrisFullRows(b))))
<1>1. Upto(Cardinality(Well)) = SUBSET Well
  BY BoardFinite DEF Upto
<1>2. ClearedUpto(Cardinality(Well))
  BY BoardFinite, ClearsExist
<1>3. \E f : f = [c \in SUBSET Well |-> ClearStep(f, c)]
  BY <1>1, <1>2 DEF ClearedUpto
<1>4. Clears = [c \in SUBSET Well |-> ClearStep(Clears, c)]
  BY <1>3 DEF Clears
<1>5. Clears[b] = ClearStep(Clears, b)
  BY <1>4
<1>6. QED
  BY <1>5, ClearIs DEF ClearStep

(* What the loop leaves: no full row, and TETRIS_W cells less for every    *)
(* row it found.                                                           *)
ClearedWell(b) ==
  /\ TetrisClear(b) \in SUBSET Well
  /\ TetrisFullRows(TetrisClear(b)) = {}
  /\ Cardinality(TetrisClear(b)) + TETRIS_W * Cardinality(TetrisFullRows(b)) = Cardinality(b)

LEMMA ClearOf ==
  ASSUME NEW b0 \in SUBSET Well
  PROVE  ClearedWell(b0)
<1> DEFINE Bad == {m \in Nat : \E b \in SUBSET Well : Cardinality(b) = m /\ ~ClearedWell(b)}
<1> SUFFICES ASSUME Bad # {} PROVE FALSE
  BY BoardFinite
<1>1. PICK m \in Bad : \A k \in Bad : m <= k
  BY MinIsLeast
<1>2. PICK b \in SUBSET Well : Cardinality(b) = m /\ ~ClearedWell(b)
  BY <1>1
<1>3. CASE TetrisFullRows(b) = {}
  <2>1. TetrisClear(b) = b
    BY <1>3, ClearsAll
  <2>2. Cardinality(TetrisFullRows(b)) = 0
    BY <1>3, FS_EmptySet
  <2>3. Cardinality(b) + TETRIS_W * 0 = Cardinality(b)
    BY BoardFinite, TetrisNumbers
  <2>4. QED
    BY <1>2, <1>3, <2>1, <2>2, <2>3 DEF ClearedWell
<1>4. CASE TetrisFullRows(b) # {}
  <2> DEFINE D == TetrisDropRow(b, Max(TetrisFullRows(b)))
             p == Cardinality(TetrisFullRows(b))
             q == Cardinality(TetrisFullRows(D))
             w == Cardinality(TetrisClear(D))
  <2>1. D \in SUBSET Well /\ Cardinality(D) = Cardinality(b) - TETRIS_W
    BY <1>4, DropShorter
  <2>2. q = p - 1 /\ p \in Nat /\ q \in Nat
    BY <1>4, FullDropped, FullFinite
  <2>3. Cardinality(D) < m /\ Cardinality(D) \in Nat
    BY <2>1, <1>2, BoardFinite, TetrisNumbers
  <2>4. ClearedWell(D)
    <3> HIDE DEF D
    <3>1. QED
      BY <2>1, <2>3, <1>1
  <2>5. TetrisClear(b) = TetrisClear(D)
    BY <1>4, ClearsAll
  <2> HIDE DEF D
  <2>6. TetrisClear(D) \in SUBSET Well /\ TetrisFullRows(TetrisClear(D)) = {}
        /\ w + TETRIS_W * q = Cardinality(D) /\ w \in Nat
    BY <2>4, BoardFinite DEF ClearedWell
  <2> HIDE DEF p, q, w
  <2>7. TETRIS_W * p = TETRIS_W * q + TETRIS_W
    BY <2>2, TetrisNumbers
  <2>8. TETRIS_W * q \in Int
    BY <2>2, TetrisNumbers
  <2>9. w + TETRIS_W * p = Cardinality(b)
    BY <2>1, <2>3, <2>6, <2>7, <2>8, <1>2, BoardFinite, TetrisNumbers
  <2>10. QED
    BY <2>5, <2>6, <2>9, <1>2 DEF ClearedWell, p, w
<1>5. QED
  BY <1>3, <1>4

(* Every cell of a piece lies in a square of four by four, and a piece     *)
(* that is spawned above the board reaches row 1 at most.                  *)
LEMMA ShapesTyped ==
  ASSUME NEW p \in 0..TETRIS_NUM - 1, NEW r \in 0..3
  PROVE  \A c \in tetris_shapes[p + 1][r + 1] : c[1] \in 0..3 /\ c[2] \in 0..3
<1>1. p \in {0, 1, 2, 3, 4, 5, 6} /\ r \in {0, 1, 2, 3}
  BY DEF TETRIS_NUM
<1>2. CASE p = 0
  BY <1>1, <1>2 DEF tetris_shapes
<1>3. CASE p = 1
  BY <1>1, <1>3 DEF tetris_shapes
<1>4. CASE p = 2
  BY <1>1, <1>4 DEF tetris_shapes
<1>5. CASE p = 3
  BY <1>1, <1>5 DEF tetris_shapes
<1>6. CASE p = 4
  BY <1>1, <1>6 DEF tetris_shapes
<1>7. CASE p = 5
  BY <1>1, <1>7 DEF tetris_shapes
<1>8. CASE p = 6
  BY <1>1, <1>8 DEF tetris_shapes
<1>9. QED
  BY <1>1, <1>2, <1>3, <1>4, <1>5, <1>6, <1>7, <1>8

(* The game's record, with one constructor for all its states.             *)
Game(m, b, p, r, x, y, k, s, l, q, a) ==
  [mode |-> m, board |-> b, piece |-> p, rot |-> r, px |-> x, py |-> y,
   ticks |-> k, score |-> s, lines |-> l, quit |-> q, placed |-> a]

TetShape(t) ==
  t = Game(t.mode, t.board, t.piece, t.rot, t.px, t.py, t.ticks, t.score, t.lines, t.quit, t.placed)

TetTypes(t) ==
  /\ TetShape(t)
  /\ t.mode \in {"prompt", "play", "over"} /\ t.quit \in BOOLEAN
  /\ t.board \in SUBSET Well
  /\ t.piece \in 0..TETRIS_NUM - 1 /\ t.rot \in 0..3
  /\ t.px \in Int /\ t.py \in Int
  /\ t.score \in Nat /\ t.lines \in Nat /\ t.placed \in Nat

Inside(t) == \A c \in TetrisCells(t, 0, 0, t.rot) : c[1] \in 0..TETRIS_W - 1 /\ c[2] < TETRIS_H
Unblocked(t) == t.quit \/ TetrisCells(t, 0, 0, t.rot) \cap t.board = {}
Counted(t) ==
  TetrisFullRows(t.board) = {} /\ Cardinality(t.board) + TETRIS_W * t.lines = t.placed
TetKept(t) ==
  TetTypes(t) /\ t.ticks \in 0..TETRIS_DROP_MAX - 1 /\ Inside(t) /\ Unblocked(t) /\ Counted(t)

LEMMA SoundIsKept == TetKept(tetris) => TetrisSound
BY DEF TetKept, TetTypes, TetrisSound, TetrisTypeOK, Inside, Unblocked, Counted, Well

LEMMA GameFields ==
  ASSUME NEW m, NEW b, NEW p, NEW r, NEW x, NEW y, NEW k, NEW s, NEW l, NEW q, NEW a,
         NEW t, t = Game(m, b, p, r, x, y, k, s, l, q, a)
  PROVE  /\ t.mode = m /\ t.board = b /\ t.piece = p /\ t.rot = r /\ t.px = x /\ t.py = y
         /\ t.ticks = k /\ t.score = s /\ t.lines = l /\ t.quit = q /\ t.placed = a
         /\ TetShape(t)
BY DEF Game, TetShape

LEMMA CellsOf ==
  ASSUME NEW t, TetTypes(t), NEW dx \in Int, NEW dy \in Int, NEW r \in 0..3,
         NEW c \in TetrisCells(t, dx, dy, r)
  PROVE  c[1] \in Int /\ c[2] \in Int /\ c = <<c[1], c[2]>>
         /\ \E e \in tetris_shapes[t.piece + 1][r + 1] :
              e[1] \in 0..3 /\ e[2] \in 0..3 /\ c[1] = t.px + e[1] + dx /\ c[2] = t.py + e[2] + dy
<1>1. PICK e \in tetris_shapes[t.piece + 1][r + 1] : c = <<t.px + e[1] + dx, t.py + e[2] + dy>>
  BY DEF TetrisCells
<1>2. e[1] \in 0..3 /\ e[2] \in 0..3
  BY ShapesTyped DEF TetTypes
<1>3. QED
  BY <1>1, <1>2 DEF TetTypes

(* A piece that a move would not make collide may be moved.                *)
LEMMA MovedCells ==
  ASSUME NEW t, NEW u, TetTypes(t), NEW dx \in Int, NEW dy \in Int, NEW r \in 0..3,
         u.piece = t.piece, u.rot = r, u.px = t.px + dx, u.py = t.py + dy, u.board = t.board,
         ~tetris_collide(t, dx, dy, r)
  PROVE  Inside(u) /\ Unblocked(u)
<1>1. TetrisCells(u, 0, 0, u.rot) = TetrisCells(t, dx, dy, r)
  <2>1. ASSUME NEW e \in tetris_shapes[t.piece + 1][r + 1]
        PROVE  <<u.px + e[1] + 0, u.py + e[2] + 0>> = <<t.px + e[1] + dx, t.py + e[2] + dy>>
    <3>1. e[1] \in 0..3 /\ e[2] \in 0..3 /\ t.px \in Int /\ t.py \in Int
      BY ShapesTyped DEF TetTypes
    <3>2. u.px + e[1] + 0 = t.px + e[1] + dx /\ u.py + e[2] + 0 = t.py + e[2] + dy
      BY <3>1
    <3>3. QED
      BY <3>2
  <2>2. QED
    BY <2>1 DEF TetrisCells
<1>2. ASSUME NEW c \in TetrisCells(t, dx, dy, r)
      PROVE  c[1] \in 0..TETRIS_W - 1 /\ c[2] < TETRIS_H /\ c \notin t.board
  <2>1. c[1] \in 0..TETRIS_W - 1 /\ ~(c[2] >= TETRIS_H) /\ c \notin t.board
    BY DEF tetris_collide
  <2>2. c[2] \in Int
    BY CellsOf
  <2>3. QED
    BY <2>1, <2>2, TetrisNumbers
<1>3. QED
  BY <1>1, <1>2 DEF Inside, Unblocked

(* A record of eleven fields is rewritten one field at a time.             *)
LEMMA GameMode ==
  ASSUME NEW t, TetShape(t), NEW m2
  PROVE  [t EXCEPT !.mode = m2]
           = Game(m2, t.board, t.piece, t.rot, t.px, t.py, t.ticks, t.score, t.lines, t.quit, t.placed)
BY DEF Game, TetShape

LEMMA GameTicked ==
  ASSUME NEW t, TetShape(t), NEW q2, NEW k2
  PROVE  [t EXCEPT !.quit = q2, !.ticks = k2]
           = Game(t.mode, t.board, t.piece, t.rot, t.px, t.py, k2, t.score, t.lines, q2, t.placed)
<1> DEFINE t1 == [t EXCEPT !.quit = q2]
           t2 == [t1 EXCEPT !.ticks = k2]
<1>0. t2 = [t EXCEPT !.quit = q2, !.ticks = k2]
  OBVIOUS
<1>1. t1 = Game(t.mode, t.board, t.piece, t.rot, t.px, t.py, t.ticks, t.score, t.lines, q2, t.placed)
  BY DEF Game, TetShape
<1> HIDE DEF t1
<1>2. t2 = Game(t.mode, t.board, t.piece, t.rot, t.px, t.py, k2, t.score, t.lines, q2, t.placed)
  BY <1>1 DEF Game
<1> HIDE DEF t2
<1>3. QED
  BY <1>0, <1>2

LockedAs(t, b2, l2, s2, a2) == [t EXCEPT !.board = b2, !.lines = l2, !.score = s2, !.placed = a2]

LEMMA GameLocked ==
  ASSUME NEW t, TetShape(t), NEW b2, NEW l2, NEW s2, NEW a2
  PROVE  LockedAs(t, b2, l2, s2, a2)
           = Game(t.mode, b2, t.piece, t.rot, t.px, t.py, t.ticks, s2, l2, t.quit, a2)
<1> DEFINE t1 == [t EXCEPT !.board = b2]
           t2 == [t1 EXCEPT !.lines = l2]
           t3 == [t2 EXCEPT !.score = s2]
           t4 == [t3 EXCEPT !.placed = a2]
<1>0. t4 = [t EXCEPT !.board = b2, !.lines = l2, !.score = s2, !.placed = a2]
  OBVIOUS
<1>1. t1 = Game(t.mode, b2, t.piece, t.rot, t.px, t.py, t.ticks, t.score, t.lines, t.quit, t.placed)
  BY DEF Game, TetShape
<1> HIDE DEF t1
<1>2. t2 = Game(t.mode, b2, t.piece, t.rot, t.px, t.py, t.ticks, t.score, l2, t.quit, t.placed)
  BY <1>1 DEF Game
<1> HIDE DEF t2
<1>3. t3 = Game(t.mode, b2, t.piece, t.rot, t.px, t.py, t.ticks, s2, l2, t.quit, t.placed)
  BY <1>2 DEF Game
<1> HIDE DEF t3
<1>4. t4 = Game(t.mode, b2, t.piece, t.rot, t.px, t.py, t.ticks, s2, l2, t.quit, a2)
  BY <1>3 DEF Game
<1> HIDE DEF t4
<1>5. QED
  BY <1>0, <1>4 DEF LockedAs

LEMMA GameSpawned ==
  ASSUME NEW t, TetShape(t), NEW p2, NEW r2, NEW x2, NEW y2, NEW k2
  PROVE  [t EXCEPT !.piece = p2, !.rot = r2, !.px = x2, !.py = y2, !.ticks = k2]
           = Game(t.mode, t.board, p2, r2, x2, y2, k2, t.score, t.lines, t.quit, t.placed)
<1> DEFINE t1 == [t EXCEPT !.piece = p2]
           t2 == [t1 EXCEPT !.rot = r2]
           t3 == [t2 EXCEPT !.px = x2]
           t4 == [t3 EXCEPT !.py = y2]
           t5 == [t4 EXCEPT !.ticks = k2]
<1>0. t5 = [t EXCEPT !.piece = p2, !.rot = r2, !.px = x2, !.py = y2, !.ticks = k2]
  OBVIOUS
<1>1. t1 = Game(t.mode, t.board, p2, t.rot, t.px, t.py, t.ticks, t.score, t.lines, t.quit, t.placed)
  BY DEF Game, TetShape
<1> HIDE DEF t1
<1>2. t2 = Game(t.mode, t.board, p2, r2, t.px, t.py, t.ticks, t.score, t.lines, t.quit, t.placed)
  BY <1>1 DEF Game
<1> HIDE DEF t2
<1>3. t3 = Game(t.mode, t.board, p2, r2, x2, t.py, t.ticks, t.score, t.lines, t.quit, t.placed)
  BY <1>2 DEF Game
<1> HIDE DEF t3
<1>4. t4 = Game(t.mode, t.board, p2, r2, x2, y2, t.ticks, t.score, t.lines, t.quit, t.placed)
  BY <1>3 DEF Game
<1> HIDE DEF t4
<1>5. t5 = Game(t.mode, t.board, p2, r2, x2, y2, k2, t.score, t.lines, t.quit, t.placed)
  BY <1>4 DEF Game
<1> HIDE DEF t5
<1>6. QED
  BY <1>0, <1>5

LEMMA SpawnOf ==
  ASSUME NEW t, TetShape(t), NEW p
  PROVE  TetrisSpawn(t, p)
           = Game(t.mode, t.board, p, 0, TETRIS_W \div 2 - 2, -2, 0, t.score, t.lines, t.quit, t.placed)
<1> DEFINE x == TETRIS_W \div 2 - 2
           y == -2
<1>1. TetrisSpawn(t, p) = [t EXCEPT !.piece = p, !.rot = 0, !.px = x, !.py = y, !.ticks = 0]
  BY DEF TetrisSpawn
<1> HIDE DEF x, y
<1>2. TetrisSpawn(t, p) = Game(t.mode, t.board, p, 0, x, y, 0, t.score, t.lines, t.quit, t.placed)
  BY <1>1, GameSpawned
<1>3. QED
  BY <1>2 DEF x, y

(* A new piece, two rows above the board, is between the walls.            *)
LEMMA SpawnInside ==
  ASSUME NEW u, TetTypes(u), u.rot = 0, u.px = TETRIS_W \div 2 - 2, u.py = -2
  PROVE  Inside(u)
<1>1. ASSUME NEW c \in TetrisCells(u, 0, 0, u.rot) PROVE c[1] \in 0..TETRIS_W - 1 /\ c[2] < TETRIS_H
  <2>1. u.rot \in 0..3 /\ 0 \in Int
    BY DEF TetTypes
  <2>2. PICK e \in tetris_shapes[u.piece + 1][u.rot + 1] : c = <<u.px + e[1] + 0, u.py + e[2] + 0>>
    BY DEF TetrisCells
  <2>6. e[1] \in 0..3 /\ e[2] \in 0..3
    BY <2>1, ShapesTyped DEF TetTypes
  <2> DEFINE h == TETRIS_W \div 2
  <2>3. h \in Int /\ h >= 2 /\ h + 2 <= TETRIS_W
    BY TetrisNumbers
  <2>4. u.px = h - 2
    OBVIOUS
  <2> HIDE DEF h
  <2>5. QED
    BY <2>2, <2>3, <2>4, <2>6, TetrisNumbers
<1>2. QED
  BY <1>1 DEF Inside

LEMMA LockKeeps ==
  ASSUME NEW t, TetTypes(t), Inside(t), Counted(t)
  PROVE  /\ TetKept(tetris_lock(t)) /\ tetris_lock(t).mode = t.mode
<1> DEFINE put == {c \in TetrisCells(t, 0, 0, t.rot) : c[2] \in 0..TETRIS_H - 1}
           B == t.board \cup put
           board == TetrisClear(B)
           cleared == Cardinality(TetrisFullRows(B))
           score == (t.score + cleared * cleared * 100) % TETRIS_NUM
           a == Cardinality(put \ t.board)
           next == TetrisSpawn([t EXCEPT !.board = board, !.lines = @ + cleared, !.score = score,
                                         !.placed = @ + a], score)
           u == [next EXCEPT !.quit = @ \/ tetris_collide(next, 0, 0, 0)]
           px == TETRIS_W \div 2 - 2
<1>1. tetris_lock(t) = u
  BY DEF tetris_lock
<1>2. put \in SUBSET Well
  <2>1. ASSUME NEW c \in put PROVE c \in Well
    <3>1. c[1] \in 0..TETRIS_W - 1 /\ c[2] \in 0..TETRIS_H - 1
      BY DEF Inside
    <3>2. c = <<c[1], c[2]>>
      <4>1. PICK e \in tetris_shapes[t.piece + 1][t.rot + 1] : c = <<t.px + e[1] + 0, t.py + e[2] + 0>>
        BY DEF TetrisCells
      <4>2. QED
        BY <4>1
    <3>3. QED
      BY <3>1, <3>2, WellCells
  <2>2. QED
    BY <2>1
<1> HIDE DEF put
<1>3. B \in SUBSET Well /\ put \ t.board \in SUBSET Well /\ t.board \in SUBSET Well
  BY <1>2 DEF TetTypes
<1>4. Cardinality(B) = Cardinality(t.board) + a /\ a \in Nat /\ Cardinality(t.board) \in Nat
  <2>1. IsFiniteSet(t.board) /\ IsFiniteSet(put \ t.board) /\ a \in Nat /\ Cardinality(t.board) \in Nat
    BY <1>3, BoardFinite
  <2>2. t.board \cap (put \ t.board) = {} /\ B = t.board \cup (put \ t.board)
    OBVIOUS
  <2>3. Cardinality(t.board \cup (put \ t.board))
          = Cardinality(t.board) + Cardinality(put \ t.board)
              - Cardinality(t.board \cap (put \ t.board))
    BY <2>1, FS_Union
  <2>4. Cardinality({}) = 0
    BY FS_EmptySet
  <2>5. Cardinality(t.board \cap (put \ t.board)) = 0
    BY <2>2, <2>4
  <2>6. Cardinality(B) = Cardinality(t.board \cup (put \ t.board))
    BY <2>2
  <2>7. a = Cardinality(put \ t.board)
    OBVIOUS
  <2> HIDE DEF a, B
  <2>8. Cardinality(B) = Cardinality(t.board) + a - 0
    BY Zenon, <2>3, <2>5, <2>6, <2>7
  <2>9. QED
    BY <2>1, <2>8
<1>5. ClearedWell(B)
  BY <1>3, ClearOf
<1>6. cleared \in Nat
  BY FullFinite
<1> HIDE DEF B
<1>7. /\ board \in SUBSET Well /\ TetrisFullRows(board) = {}
      /\ Cardinality(board) + TETRIS_W * cleared = Cardinality(B)
      /\ Cardinality(board) \in Nat
  BY <1>5, BoardFinite DEF ClearedWell
<1> HIDE DEF cleared, board, a
<1>8. score \in 0..TETRIS_NUM - 1 /\ score \in Nat
  <2>1. cleared * cleared \in Nat
    <3>1. ASSUME NEW c \in Nat, NEW d \in Nat PROVE c * d \in Nat
      OBVIOUS
    <3>2. QED
      BY <1>6, <3>1
  <2> DEFINE q == cleared * cleared
             v == t.score + q * 100
  <2>2. v \in Int
    <3> HIDE DEF q
    <3>1. q \in Nat
      BY <2>1 DEF q
    <3>2. QED
      BY <3>1 DEF TetTypes
  <2> HIDE DEF v, q
  <2>3. v % TETRIS_NUM \in Nat /\ v % TETRIS_NUM < TETRIS_NUM
    BY <2>2, Remainder DEF TETRIS_NUM
  <2>4. score = v % TETRIS_NUM
    BY DEF v, q
  <2>5. QED
    BY <2>3, <2>4 DEF TETRIS_NUM
<1> HIDE DEF score
<1>9. next = Game(t.mode, board, score, 0, px, -2, 0, score, t.lines + cleared, t.quit, t.placed + a)
  <2> DEFINE v == [t EXCEPT !.board = board, !.lines = @ + cleared, !.score = score, !.placed = @ + a]
  <2>1. v = Game(t.mode, board, t.piece, t.rot, t.px, t.py, t.ticks, score, t.lines + cleared, t.quit, t.placed + a)
    <3> DEFINE l == t.lines + cleared
               n == t.placed + a
    <3>1. v = LockedAs(t, board, l, score, n)
      BY DEF LockedAs
    <3> HIDE DEF v, l, n
    <3>2. v = Game(t.mode, board, t.piece, t.rot, t.px, t.py, t.ticks, score, l, t.quit, n)
      <4>1. TetShape(t)
        BY DEF TetTypes
      <4>2. QED
        BY <3>1, <4>1, GameLocked
    <3>3. QED
      BY <3>2 DEF l, n
  <2> HIDE DEF v
  <2>2. /\ TetShape(v) /\ v.mode = t.mode /\ v.board = board /\ v.score = score
        /\ v.lines = t.lines + cleared /\ v.quit = t.quit /\ v.placed = t.placed + a
    BY <2>1, GameFields
  <2>3. next = Game(v.mode, v.board, score, 0, px, -2, 0, v.score, v.lines, v.quit, v.placed)
    BY <2>2, SpawnOf DEF v
  <2>4. QED
    BY <2>2, <2>3
<1> HIDE DEF next, px
<1>10. u = Game(t.mode, board, score, 0, px, -2, 0, score, t.lines + cleared,
                t.quit \/ tetris_collide(next, 0, 0, 0), t.placed + a)
  BY <1>9 DEF Game
<1> HIDE DEF u
<1>11. /\ next.board = board /\ next.piece = score /\ next.rot = 0 /\ next.px = px /\ next.py = -2
       /\ next.mode = t.mode /\ next.quit = t.quit /\ next.lines = t.lines + cleared
       /\ next.score = score /\ next.placed = t.placed + a /\ TetShape(next)
  BY <1>9, GameFields
<1>12. /\ u.board = board /\ u.piece = score /\ u.rot = 0 /\ u.px = px /\ u.py = -2 /\ u.ticks = 0
       /\ u.mode = t.mode /\ u.lines = t.lines + cleared
       /\ u.score = score /\ u.placed = t.placed + a /\ TetShape(u)
  BY <1>10, GameFields
<1>13. u.quit = (t.quit \/ tetris_collide(next, 0, 0, 0))
  BY <1>10, GameFields
<1>14. px \in Int /\ px + 0 = px /\ -2 \in Int /\ -2 + 0 = -2
  BY TetrisNumbers DEF px
<1>15. t.lines \in Nat /\ t.placed \in Nat /\ t.quit \in BOOLEAN
  BY DEF TetTypes
<1>16. t.lines + cleared \in Nat /\ t.placed + a \in Nat
  BY <1>4, <1>6, <1>15
<1>17. TetTypes(next)
  BY <1>7, <1>8, <1>11, <1>14, <1>15, <1>16 DEF TetTypes
<1>18. TetTypes(u)
  <2>1. u.quit \in BOOLEAN
    BY <1>13
  <2>2. QED
    BY <2>1, <1>7, <1>8, <1>12, <1>14, <1>15, <1>16, <1>17, <1>11 DEF TetTypes
<1>19. Inside(u)
  BY <1>18, <1>12, SpawnInside DEF px
<1>20. Unblocked(u)
  <2>1. CASE u.quit
    BY <2>1 DEF Unblocked
  <2>2. CASE ~u.quit
    <3>1. ~tetris_collide(next, 0, 0, 0)
      BY <2>2, <1>13
    <3>2. QED
      BY <3>1, <1>11, <1>12, <1>14, <1>17, MovedCells
  <2>3. QED
    BY <2>1, <2>2
<1>21. Counted(u)
  <2>1. Cardinality(t.board) + TETRIS_W * t.lines = t.placed
    BY DEF Counted
  <2>2. TETRIS_W * (t.lines + cleared) = TETRIS_W * t.lines + TETRIS_W * cleared
        /\ TETRIS_W * t.lines \in Int /\ TETRIS_W * cleared \in Int
    BY <1>6, <1>15, TetrisNumbers
  <2> DEFINE m == TETRIS_W * t.lines
             n == TETRIS_W * cleared
             v == TETRIS_W * (t.lines + cleared)
  <2>3. v = m + n /\ m \in Int /\ n \in Int /\ Cardinality(t.board) + m = t.placed
        /\ Cardinality(board) + n = Cardinality(B)
    BY <2>1, <2>2, <1>7
  <2> HIDE DEF m, n, v
  <2>4. Cardinality(board) + v = t.placed + a
    BY <2>3, <1>4, <1>7, <1>15
  <2>5. QED
    BY <2>4, <1>7, <1>12 DEF Counted, v
<1>22. u.ticks \in 0..TETRIS_DROP_MAX - 1
  BY <1>12, TetrisNumbers
<1>23. QED
  BY <1>1, <1>12, <1>18, <1>19, <1>20, <1>21, <1>22 DEF TetKept

(* Falling: TetrisFall on any state whose ticks the caller has brought     *)
(* back in range.                                                          *)
LEMMA FallKeeps ==
  ASSUME NEW t, TetTypes(t), Inside(t), Counted(t), t.ticks \in 0..TETRIS_DROP_MAX - 1
  PROVE  TetKept(TetrisFall(t)) /\ TetrisFall(t).mode = t.mode
<1>1. CASE tetris_collide(t, 0, 1, t.rot)
  BY <1>1, LockKeeps DEF TetrisFall
<1>2. CASE ~tetris_collide(t, 0, 1, t.rot)
  <2> DEFINE u == [t EXCEPT !.py = @ + 1]
  <2>1. u = Game(t.mode, t.board, t.piece, t.rot, t.px, t.py + 1, t.ticks, t.score, t.lines, t.quit, t.placed)
    BY DEF TetTypes, TetShape, Game
  <2>2. TetrisFall(t) = u
    BY <1>2 DEF TetrisFall
  <2> HIDE DEF u
  <2>3. /\ u.board = t.board /\ u.piece = t.piece /\ u.rot = t.rot /\ u.px = t.px /\ u.py = t.py + 1
        /\ u.mode = t.mode /\ u.lines = t.lines /\ u.score = t.score /\ u.placed = t.placed /\ TetShape(u)
        /\ u.ticks = t.ticks /\ u.quit = t.quit
    BY <2>1, GameFields
  <2>4. TetTypes(u)
    BY <2>3 DEF TetTypes
  <2>5. t.px + 0 = t.px /\ t.rot \in 0..3
    BY DEF TetTypes
  <2>6. Inside(u) /\ Unblocked(u)
    BY <2>3, <2>5, <1>2, MovedCells
  <2>7. Counted(u)
    BY <2>3 DEF Counted
  <2>8. QED
    BY <2>2, <2>3, <2>4, <2>6, <2>7 DEF TetKept
<1>3. QED
  BY <1>1, <1>2

(* The states between two games.                                           *)
LEMMA OffKept ==
  ASSUME NEW t, NEW m \in {"prompt", "play", "over"}, NEW q \in BOOLEAN,
         t = Game(m, {}, 0, 0, TETRIS_W \div 2 - 2, -2, 0, 0, 0, q, 0)
  PROVE  TetKept(t)
<1>1. /\ t.mode = m /\ t.board = {} /\ t.piece = 0 /\ t.rot = 0 /\ t.px = TETRIS_W \div 2 - 2 /\ t.py = -2
      /\ t.ticks = 0 /\ t.score = 0 /\ t.lines = 0 /\ t.quit = q /\ t.placed = 0 /\ TetShape(t)
  <2> DEFINE x == TETRIS_W \div 2 - 2
             y == -2
  <2> HIDE DEF x, y
  <2>1. t = Game(m, {}, 0, 0, x, y, 0, 0, 0, q, 0)
    BY DEF x, y
  <2>2. /\ t.mode = m /\ t.board = {} /\ t.piece = 0 /\ t.rot = 0 /\ t.px = x /\ t.py = y
        /\ t.ticks = 0 /\ t.score = 0 /\ t.lines = 0 /\ t.quit = q /\ t.placed = 0 /\ TetShape(t)
    BY <2>1, GameFields
  <2>3. QED
    BY <2>2 DEF x, y
<1>2. t.px \in Int /\ t.py \in Int /\ 0 \in 0..TETRIS_NUM - 1
  BY <1>1, TetrisNumbers DEF TETRIS_NUM
<1>3. TetTypes(t)
  BY <1>1, <1>2 DEF TetTypes
<1>4. Inside(t)
  BY <1>1, <1>3, SpawnInside
<1>5. Unblocked(t)
  BY <1>1 DEF Unblocked
<1>6. TetrisFullRows(t.board) = {}
  <2>1. 0 \in 0..TETRIS_W - 1
    BY TetrisNumbers
  <2>2. QED
    BY <1>1, <2>1 DEF TetrisFullRows
<1>7. Cardinality(t.board) + TETRIS_W * t.lines = t.placed
  <2>1. Cardinality({}) = 0
    BY FS_EmptySet
  <2>2. 0 + TETRIS_W * 0 = 0
    BY TetrisNumbers
  <2>3. QED
    BY <1>1, <2>1, <2>2
<1>8. t.ticks \in 0..TETRIS_DROP_MAX - 1
  BY <1>1, TetrisNumbers
<1>9. QED
  BY <1>3, <1>4, <1>5, <1>6, <1>7, <1>8 DEF TetKept, Counted

LEMMA TetOff ==
  ASSUME NEW q, q = FALSE
  PROVE  /\ TetrisOff = Game("prompt", {}, 0, 0, TETRIS_W \div 2 - 2, -2, 0, 0, 0, q, 0)
         /\ [TetrisOff EXCEPT !.mode = "play"]
              = Game("play", {}, 0, 0, TETRIS_W \div 2 - 2, -2, 0, 0, 0, q, 0)
<1> DEFINE o == Game("prompt", {}, 0, 0, 0, 0, 0, 0, 0, q, 0)
           x == TETRIS_W \div 2 - 2
           y == -2
<1>1. TetrisOff = TetrisSpawn(o, 0)
  BY Zenon DEF TetrisOff, Game
<1>2. /\ TetShape(o) /\ o.mode = "prompt" /\ o.board = {} /\ o.score = 0
      /\ o.lines = 0 /\ o.quit = q /\ o.placed = 0
  BY GameFields
<1> HIDE DEF o
<1>3. TetrisOff = Game(o.mode, o.board, 0, 0, x, y, 0, o.score, o.lines, o.quit, o.placed)
  BY Zenon, <1>1, <1>2, SpawnOf
<1> HIDE DEF x, y
<1>4. TetrisOff = Game("prompt", {}, 0, 0, x, y, 0, 0, 0, q, 0)
  BY Zenon, <1>2, <1>3
<1>5. [TetrisOff EXCEPT !.mode = "play"] = Game("play", {}, 0, 0, x, y, 0, 0, 0, q, 0)
  BY <1>4 DEF Game
<1>6. QED
  BY <1>4, <1>5 DEF x, y

LEMMA StartsKept == TetKept(TetrisOff) /\ TetKept([TetrisOff EXCEPT !.mode = "play"])
<1> DEFINE q == FALSE
           o == TetrisOff
           n == [TetrisOff EXCEPT !.mode = "play"]
<1>1. q = FALSE /\ q \in BOOLEAN
  OBVIOUS
<1> HIDE DEF q
<1>2. /\ o = Game("prompt", {}, 0, 0, TETRIS_W \div 2 - 2, -2, 0, 0, 0, q, 0)
      /\ n = Game("play", {}, 0, 0, TETRIS_W \div 2 - 2, -2, 0, 0, 0, q, 0)
  BY <1>1, TetOff
<1> HIDE DEF o, n
<1>3. TetKept(o)
  BY <1>1, <1>2, OffKept
<1>4. TetKept(n)
  BY <1>1, <1>2, OffKept
<1>5. QED
  BY <1>3, <1>4 DEF o, n

(* Moving and turning.                                                     *)
LEMMA SideKeeps ==
  ASSUME NEW dx \in {-1, 1}, TetKept(tetris), TetrisSide(dx)
  PROVE  TetKept(tetris')
<1> DEFINE t == tetris
           u == tetris'
<1>1. TetTypes(t) /\ t.ticks \in 0..TETRIS_DROP_MAX - 1 /\ Counted(t)
  BY DEF TetKept
<1>2. u = [t EXCEPT !.px = @ + dx] /\ ~tetris_collide(t, dx, 0, t.rot)
  BY DEF TetrisSide
<1>3. u = Game(t.mode, t.board, t.piece, t.rot, t.px + dx, t.py, t.ticks, t.score, t.lines, t.quit, t.placed)
  BY <1>1, <1>2 DEF TetTypes, TetShape, Game
<1>4. /\ u.board = t.board /\ u.piece = t.piece /\ u.rot = t.rot /\ u.px = t.px + dx /\ u.py = t.py
      /\ u.mode = t.mode /\ u.lines = t.lines /\ u.score = t.score /\ u.placed = t.placed /\ TetShape(u)
      /\ u.ticks = t.ticks /\ u.quit = t.quit
  BY <1>3, GameFields
<1> HIDE DEF t, u
<1>5. dx \in Int /\ 0 \in Int /\ t.py + 0 = t.py /\ t.px + dx \in Int /\ t.rot \in 0..3
  BY <1>1 DEF TetTypes
<1>6. TetTypes(u)
  BY <1>1, <1>4, <1>5 DEF TetTypes
<1>7. Inside(u) /\ Unblocked(u)
  BY <1>1, <1>2, <1>4, <1>5, MovedCells
<1>8. Counted(u)
  BY <1>1, <1>4 DEF Counted
<1>9. QED
  BY <1>1, <1>4, <1>6, <1>7, <1>8 DEF TetKept, u

LEMMA TurnKeeps ==
  ASSUME TetKept(tetris), TetrisTurn
  PROVE  TetKept(tetris')
<1> DEFINE t == tetris
           u == tetris'
           r == (t.rot + 1) % 4
<1>1. TetTypes(t) /\ t.ticks \in 0..TETRIS_DROP_MAX - 1 /\ Counted(t)
  BY DEF TetKept
<1>2. u = [t EXCEPT !.rot = r] /\ ~tetris_collide(t, 0, 0, r)
  BY DEF TetrisTurn
<1>3. u = Game(t.mode, t.board, t.piece, r, t.px, t.py, t.ticks, t.score, t.lines, t.quit, t.placed)
  BY <1>1, <1>2 DEF TetTypes, TetShape, Game
<1>4. /\ u.board = t.board /\ u.piece = t.piece /\ u.rot = r /\ u.px = t.px /\ u.py = t.py
      /\ u.mode = t.mode /\ u.lines = t.lines /\ u.score = t.score /\ u.placed = t.placed /\ TetShape(u)
      /\ u.ticks = t.ticks /\ u.quit = t.quit
  BY <1>3, GameFields
<1>5. r \in 0..3
  BY <1>1 DEF TetTypes
<1> HIDE DEF t, u, r
<1>6. 0 \in Int /\ t.py + 0 = t.py /\ t.px + 0 = t.px
  BY <1>1 DEF TetTypes
<1>7. TetTypes(u)
  BY <1>1, <1>4, <1>5 DEF TetTypes
<1>8. Inside(u) /\ Unblocked(u)
  BY <1>1, <1>2, <1>4, <1>5, <1>6, MovedCells
<1>9. Counted(u)
  BY <1>1, <1>4 DEF Counted
<1>10. QED
  BY <1>1, <1>4, <1>7, <1>8, <1>9 DEF TetKept, u

(* A state that differs in its mode, its quit flag (only set) or its       *)
(* ticks.                                                                  *)
RestOf(t, m, k, q) == Game(m, t.board, t.piece, t.rot, t.px, t.py, k, t.score, t.lines, q, t.placed)

LEMMA RestKept ==
  ASSUME NEW t, TetTypes(t), Inside(t), Unblocked(t), Counted(t),
         NEW m, m \in {"prompt", "play", "over"}, NEW k, NEW q, q \in BOOLEAN, t.quit => q,
         NEW u, u = RestOf(t, m, k, q)
  PROVE  TetTypes(u) /\ Inside(u) /\ Unblocked(u) /\ Counted(u) /\ u.ticks = k /\ u.quit = q /\ u.mode = m
<1>1. /\ u.board = t.board /\ u.piece = t.piece /\ u.rot = t.rot /\ u.px = t.px /\ u.py = t.py
      /\ u.mode = m /\ u.lines = t.lines /\ u.score = t.score /\ u.placed = t.placed /\ TetShape(u)
      /\ u.ticks = k /\ u.quit = q
  BY GameFields DEF RestOf
<1>2. TetrisCells(u, 0, 0, u.rot) = TetrisCells(t, 0, 0, t.rot)
  BY <1>1 DEF TetrisCells
<1>3. TetTypes(u)
  BY <1>1 DEF TetTypes
<1>4. QED
  BY <1>1, <1>2, <1>3 DEF Inside, Unblocked, Counted

LEMMA TetTickKeeps ==
  ASSUME NEW esc \in BOOLEAN, TetKept(tetris), TetrisTick(esc)
  PROVE  TetKept(tetris')
<1> DEFINE started == [tetris EXCEPT !.quit = @ \/ esc, !.ticks = @ + 1]
           zero == [started EXCEPT !.ticks = 0]
           t == IF started.ticks >= TETRIS_DROP_MAX THEN TetrisFall(zero) ELSE started
           q0 == tetris.quit \/ esc
           k0 == tetris.ticks + 1
           m == IF t.quit THEN "over" ELSE "play"
<1>1. TetTypes(tetris) /\ tetris.ticks \in 0..TETRIS_DROP_MAX - 1 /\ Inside(tetris) /\ Unblocked(tetris)
      /\ Counted(tetris) /\ tetris.mode \in {"prompt", "play", "over"} /\ tetris.quit \in BOOLEAN
  BY DEF TetKept, TetTypes
<1>2. tetris' = [t EXCEPT !.mode = m]
  BY DEF TetrisTick
<1>5. q0 \in BOOLEAN /\ (tetris.quit => q0)
  BY <1>1
<1>14. started = [tetris EXCEPT !.quit = q0, !.ticks = k0]
  BY Zenon
<1> HIDE DEF started, q0, k0
<1>3. started = RestOf(tetris, tetris.mode, k0, q0)
  BY Zenon, <1>1, <1>14, GameTicked DEF TetTypes, RestOf
<1>4. zero = RestOf(tetris, tetris.mode, 0, q0)
  BY <1>3 DEF Game, RestOf
<1> HIDE DEF zero
<1>15. TetTypes(started) /\ Inside(started) /\ Unblocked(started) /\ Counted(started)
      /\ started.ticks = k0
  BY <1>1, <1>3, <1>5, RestKept
<1>6. TetTypes(started) /\ Inside(started) /\ Unblocked(started) /\ Counted(started)
      /\ started.ticks = tetris.ticks + 1
  BY <1>15 DEF k0
<1>7. TetTypes(zero) /\ Inside(zero) /\ Counted(zero) /\ zero.ticks = 0
  BY <1>1, <1>4, <1>5, RestKept
<1>8. TetKept(t)
  <2>1. CASE started.ticks >= TETRIS_DROP_MAX
    <3>1. 0 \in 0..TETRIS_DROP_MAX - 1
      BY TetrisNumbers
    <3>2. TetKept(TetrisFall(zero))
      BY <1>7, <3>1, FallKeeps
    <3>3. QED
      BY <2>1, <3>2
  <2>2. CASE ~(started.ticks >= TETRIS_DROP_MAX)
    <3>1. started.ticks \in 0..TETRIS_DROP_MAX - 1
      BY <2>2, <1>1, <1>6, TetrisNumbers
    <3>2. QED
      BY <2>2, <3>1, <1>6 DEF TetKept
  <2>3. QED
    BY <2>1, <2>2
<1> HIDE DEF t
<1>9. TetTypes(t) /\ Inside(t) /\ Unblocked(t) /\ Counted(t) /\ t.ticks \in 0..TETRIS_DROP_MAX - 1
      /\ t.quit \in BOOLEAN
  BY <1>8 DEF TetKept, TetTypes
<1>10. m \in {"prompt", "play", "over"}
  OBVIOUS
<1> HIDE DEF m
<1>11. tetris' = RestOf(t, m, t.ticks, t.quit)
  BY <1>2, <1>9 DEF TetTypes, TetShape, Game, RestOf
<1>12. TetTypes(tetris') /\ Inside(tetris') /\ Unblocked(tetris') /\ Counted(tetris') /\ tetris'.ticks = t.ticks
  BY <1>9, <1>10, <1>11, RestKept
<1>13. QED
  BY <1>9, <1>12 DEF TetKept

LEMMA TetSteps == [AsmNext]_asmVars => TetrisNext \/ UNCHANGED tetris \/ tetris' = TetrisOff
BY DEF AsmNext, PlayGame, DrawScreen, UseWire, UseTables, UseDisk, Reset, asmVars, games

LEMMA NextKeepsTet == TetKept(tetris) /\ [AsmNext]_asmVars => TetKept(tetris')
<1> SUFFICES ASSUME TetKept(tetris), [AsmNext]_asmVars PROVE TetKept(tetris')
  OBVIOUS
<1>1. CASE tetris' = TetrisOff
  BY <1>1, StartsKept
<1>2. CASE UNCHANGED tetris
  BY <1>2
<1>3. CASE tetris_init
  BY <1>3, StartsKept DEF tetris_init
<1>4. CASE tetris_leave
  BY <1>4, StartsKept DEF tetris_leave
<1>5. CASE \E dx \in {-1, 1} : TetrisSide(dx)
  BY <1>5, SideKeeps
<1>6. CASE TetrisTurn
  BY <1>6, TurnKeeps
<1>7. CASE TetrisDown
  <2>1. TetTypes(tetris) /\ Inside(tetris) /\ Counted(tetris) /\ tetris.ticks \in 0..TETRIS_DROP_MAX - 1
    BY DEF TetKept
  <2>2. QED
    BY <1>7, <2>1, FallKeeps DEF TetrisDown
<1>8. CASE \E esc \in BOOLEAN : TetrisTick(esc)
  BY <1>8, TetTickKeeps
<1>9. QED
  BY <1>1, <1>2, <1>3, <1>4, <1>5, <1>6, <1>7, <1>8, TetSteps DEF TetrisNext

(* In every state the falling piece of tetris_run is inside the well and   *)
(* off the locked cells, no full row is left on the board, and the cells   *)
(* placed are the cells on the board and TETRIS_W for every line counted.  *)
THEOREM TetrisStaysSound == AsmSpec => []TetrisSound
<1>1. AsmInit => TetKept(tetris)
  BY StartsKept DEF AsmInit, TetrisInit
<1> DEFINE I == TetKept(tetris)
<1>2. I /\ [AsmNext]_asmVars => I'
  BY NextKeepsTet DEF TetKept, TetTypes, TetShape, Game, Inside, Unblocked, Counted
<1>3. I => TetrisSound
  BY SoundIsKept
<1> HIDE DEF I
<1>4. AsmInit => I
  BY <1>1 DEF I
<1>5. QED
  BY <1>2, <1>3, <1>4, PTL DEF AsmSpec
-------------------------------------------------------------------------------
(* The game history.  The loop that adds one field of the entries up, as a *)
(* recursive function of the entries added so far.                         *)
SumStep(f, es, field, n) == IF n = 0 THEN 0 ELSE f[n - 1] + es[n][field]
Sums(es, field) == CHOOSE f : f = [n \in 0..Len(es) |-> SumStep(f, es, field, n)]
SummedUpto(es, field, n) == \E f : f = [k \in 0..n |-> SumStep(f, es, field, k)]
Total(es, field) == Sums(es, field)[Len(es)]

LEMMA TotalIs == ASSUME NEW field PROVE HistoryTotal(field) = Total(history.entries, field)
BY DEF HistoryTotal, Total, Sums, SumStep

LEMMA SumsExist ==
  ASSUME NEW es, NEW field, NEW n \in Nat
  PROVE  SummedUpto(es, field, n)
<1> DEFINE Bad == {m \in Nat : ~SummedUpto(es, field, m)}
<1> SUFFICES ASSUME Bad # {} PROVE FALSE
  OBVIOUS
<1>1. PICK m \in Bad : \A k \in Bad : m <= k
  BY MinIsLeast
<1>2. CASE m = 0
  <2> DEFINE g == [k \in 0..m |-> 0]
  <2>1. ASSUME NEW k \in 0..m PROVE SumStep(g, es, field, k) = 0
    BY <1>2 DEF SumStep
  <2>2. [k \in 0..m |-> SumStep(g, es, field, k)] = [k \in 0..m |-> 0]
    BY <2>1
  <2>3. g = [k \in 0..m |-> SumStep(g, es, field, k)]
    BY <2>2
  <2> HIDE DEF g
  <2>4. QED
    BY <2>3, <1>1 DEF SummedUpto
<1>3. CASE m > 0
  <2>1. m - 1 \in Nat /\ m - 1 \notin Bad
    BY <1>1, <1>3
  <2>2. PICK f : f = [k \in 0..m - 1 |-> SumStep(f, es, field, k)]
    BY <2>1 DEF SummedUpto
  <2> DEFINE g == [k \in 0..m |-> SumStep(f, es, field, k)]
  <2>3. ASSUME NEW k \in 0..m - 1 PROVE g[k] = f[k]
    <3>1. f[k] = SumStep(f, es, field, k) /\ k \in 0..m
      BY <2>1, <2>2
    <3>2. QED
      BY <3>1
  <2>4. ASSUME NEW k \in 0..m PROVE SumStep(g, es, field, k) = SumStep(f, es, field, k)
    <3>1. CASE k = 0
      BY <3>1 DEF SumStep
    <3>2. CASE k # 0
      <4>1. k - 1 \in 0..m - 1
        BY <3>2, <2>1
      <4>2. g[k - 1] = f[k - 1]
        BY <4>1, <2>3
      <4> HIDE DEF g
      <4>3. QED
        BY <4>2, <3>2 DEF SumStep
    <3>3. QED
      BY <3>1, <3>2
  <2>5. [k \in 0..m |-> SumStep(g, es, field, k)] = [k \in 0..m |-> SumStep(f, es, field, k)]
    BY <2>4
  <2>6. g = [k \in 0..m |-> SumStep(g, es, field, k)]
    BY <2>5
  <2> HIDE DEF g
  <2>7. QED
    BY <2>6, <1>1 DEF SummedUpto
<1>4. QED
  BY <1>1, <1>2, <1>3

Amounts(es, field) == \A n \in 1..Len(es) : es[n][field] \in Int

LEMMA SumsAre ==
  ASSUME NEW es, Len(es) \in Nat, NEW field
  PROVE  \A n \in 0..Len(es) : Sums(es, field)[n] = SumStep(Sums(es, field), es, field, n)
<1> DEFINE f == Sums(es, field)
<1>1. \E h : h = [n \in 0..Len(es) |-> SumStep(h, es, field, n)]
  BY SumsExist DEF SummedUpto
<1>2. f = [n \in 0..Len(es) |-> SumStep(f, es, field, n)]
  BY <1>1 DEF Sums
<1> HIDE DEF f
<1>3. \A n \in 0..Len(es) : f[n] = SumStep(f, es, field, n)
  BY <1>2
<1>4. QED
  BY <1>3 DEF f

LEMMA SumNext ==
  ASSUME NEW es, Len(es) \in Nat, NEW field
  PROVE  /\ Sums(es, field)[0] = 0
         /\ \A n \in 1..Len(es) : Sums(es, field)[n] = Sums(es, field)[n - 1] + es[n][field]
<1> DEFINE f == Sums(es, field)
<1>1. \A n \in 0..Len(es) : f[n] = SumStep(f, es, field, n)
  BY SumsAre
<1> HIDE DEF f
<1>2. 0 \in 0..Len(es)
  OBVIOUS
<1>3. f[0] = 0
  BY <1>1, <1>2 DEF SumStep
<1>4. ASSUME NEW n \in 1..Len(es) PROVE f[n] = f[n - 1] + es[n][field]
  BY <1>1 DEF SumStep
<1>5. QED
  BY <1>3, <1>4 DEF f

(* Two lists that differ by d in entry k only: the sums differ by d from k *)
(* on.                                                                     *)
Only(n, k, d) == IF n = k THEN d ELSE 0
Differ(k, d, n) == IF n >= k THEN d ELSE 0

Alike(es, fs, field, k, d) ==
  /\ Len(es) \in Nat /\ Len(fs) \in Nat /\ Len(es) <= Len(fs) /\ Amounts(es, field)
  /\ k \in Int /\ k >= 1 /\ d \in Int
  /\ \A n \in 1..Len(es) : fs[n][field] = es[n][field] + Only(n, k, d)

LEMMA SumDiffers ==
  ASSUME NEW es, NEW fs, NEW field, NEW k, NEW d, Alike(es, fs, field, k, d)
  PROVE  \A n \in 0..Len(es) : /\ Sums(es, field)[n] \in Int
                               /\ Sums(fs, field)[n] = Sums(es, field)[n] + Differ(k, d, n)
<1>0. /\ Len(es) \in Nat /\ Len(fs) \in Nat /\ Len(es) <= Len(fs) /\ Amounts(es, field)
      /\ k \in Int /\ k >= 1 /\ d \in Int
      /\ \A n \in 1..Len(es) : fs[n][field] = es[n][field] + Only(n, k, d)
  BY DEF Alike
<1> DEFINE f == Sums(es, field)
           g == Sums(fs, field)
           Bad == {n \in 0..Len(es) : ~(f[n] \in Int /\ g[n] = f[n] + Differ(k, d, n))}
<1>1. f[0] = 0 /\ \A n \in 1..Len(es) : f[n] = f[n - 1] + es[n][field]
  BY <1>0, SumNext
<1>2. g[0] = 0 /\ \A n \in 1..Len(fs) : g[n] = g[n - 1] + fs[n][field]
  BY <1>0, SumNext
<1> HIDE DEF f, g
<1>3. SUFFICES ASSUME Bad # {} PROVE FALSE
  BY DEF f, g
<1>4. Bad \in SUBSET Nat
  BY <1>0
<1>5. PICK m \in Bad : \A j \in Bad : m <= j
  BY <1>3, <1>4, MinIsLeast
<1>6. m \in 0..Len(es) /\ m \in Int
  BY <1>0, <1>5
<1>7. m # 0
  BY <1>0, <1>1, <1>2, <1>5 DEF Differ
<1>8. m - 1 \in 0..Len(es) /\ m - 1 \notin Bad /\ m \in 1..Len(es) /\ m \in 1..Len(fs)
  BY <1>0, <1>5, <1>6, <1>7
<1>9. f[m - 1] \in Int /\ g[m - 1] = f[m - 1] + Differ(k, d, m - 1)
  BY <1>8
<1>10. es[m][field] \in Int /\ fs[m][field] = es[m][field] + Only(m, k, d)
  BY <1>0, <1>8 DEF Amounts
<1>11. f[m] = f[m - 1] + es[m][field] /\ g[m] = g[m - 1] + fs[m][field]
  BY <1>1, <1>2, <1>8
<1>12. Differ(k, d, m) = Differ(k, d, m - 1) + Only(m, k, d) /\ Differ(k, d, m - 1) \in Int
  BY <1>0, <1>6 DEF Differ, Only
<1>15. Only(m, k, d) \in Int
  BY <1>0 DEF Only
<1>13. f[m] \in Int /\ g[m] = f[m] + Differ(k, d, m)
  BY <1>9, <1>10, <1>11, <1>12, <1>15
<1>14. QED
  BY <1>5, <1>13

LEMMA TotalGrows ==
  ASSUME NEW es, NEW fs, NEW field, NEW k, NEW d, Alike(es, fs, field, k, d),
         Len(fs) = Len(es), k <= Len(es)
  PROVE  Total(fs, field) = Total(es, field) + d
<1>1. Len(es) \in 0..Len(es) /\ k \in Int
  BY DEF Alike
<1>2. \A n \in 0..Len(es) : Sums(fs, field)[n] = Sums(es, field)[n] + Differ(k, d, n)
  BY SumDiffers
<1>3. Differ(k, d, Len(es)) = d
  BY <1>1 DEF Differ
<1>4. QED
  BY <1>1, <1>2, <1>3 DEF Total

LEMMA TotalAppended ==
  ASSUME NEW es, Len(es) \in Nat, NEW fs, Len(fs) = Len(es) + 1, NEW field, Amounts(es, field),
         \A n \in 1..Len(es) : fs[n][field] = es[n][field]
  PROVE  Total(fs, field) = Total(es, field) + fs[Len(es) + 1][field]
<1> DEFINE m == Len(es)
           k == m + 1
<1>1. Len(fs) \in Nat /\ k \in Int /\ k >= 1 /\ 0 \in Int /\ Len(es) <= Len(fs) /\ m \in 0..Len(es)
      /\ k \in 1..Len(fs) /\ k - 1 = m /\ k = Len(fs)
  OBVIOUS
<1>2. Differ(k, 0, m) = 0
  BY DEF Differ
<1>3. \A n \in 1..Len(es) : fs[n][field] = es[n][field] + Only(n, k, 0)
  BY DEF Amounts, Only
<1> HIDE DEF k
<1>9. \A n \in 0..Len(es) : /\ Sums(es, field)[n] \in Int
                              /\ Sums(fs, field)[n] = Sums(es, field)[n] + Differ(k, 0, n)
  <2>1. Alike(es, fs, field, k, 0)
    BY <1>1, <1>3 DEF Alike
  <2>2. QED
    BY <2>1, SumDiffers
<1>4. /\ Sums(es, field)[m] \in Int
      /\ Sums(fs, field)[m] = Sums(es, field)[m] + Differ(k, 0, m)
  BY <1>1, <1>9
<1>5. \A n \in 1..Len(fs) : Sums(fs, field)[n] = Sums(fs, field)[n - 1] + fs[n][field]
  BY <1>1, SumNext
<1>6. Sums(fs, field)[k] = Sums(fs, field)[m] + fs[k][field]
  BY <1>1, <1>5
<1>7. Sums(fs, field)[m] = Sums(es, field)[m]
  BY <1>2, <1>4
<1>8. QED
  BY <1>1, <1>6, <1>7 DEF Total, k

(* No part exceeds the sum.                                                *)
LEMMA SumBounds ==
  ASSUME NEW es, Len(es) \in Nat, NEW field, Amounts(es, field),
         \A n \in 1..Len(es) : es[n][field] >= 0, NEW k \in 1..Len(es)
  PROVE  Total(es, field) \in Int /\ es[k][field] <= Total(es, field)
<1> DEFINE f == Sums(es, field)
           Good(n) == f[n] \in Int /\ f[n] >= 0 /\ (n >= k => f[n] >= es[k][field])
           Bad == {n \in 0..Len(es) : ~Good(n)}
<1>1. f[0] = 0 /\ \A n \in 1..Len(es) : f[n] = f[n - 1] + es[n][field]
  BY SumNext
<1> HIDE DEF f
<1>2. ASSUME Bad # {} PROVE FALSE
  <2>1. Bad \in SUBSET Nat
    OBVIOUS
  <2>2. PICK m \in Bad : \A j \in Bad : m <= j
    BY <1>2, <2>1, MinIsLeast
  <2>3. m \in 0..Len(es) /\ m \in Int
    BY <2>2
  <2>4. m # 0
    BY <1>1, <2>2
  <2>5. m - 1 \in 0..Len(es) /\ m - 1 \notin Bad /\ m \in 1..Len(es)
    BY <2>2, <2>3, <2>4
  <2>6. f[m - 1] \in Int /\ f[m - 1] >= 0 /\ (m - 1 >= k => f[m - 1] >= es[k][field])
    BY <2>5
  <2>7. es[m][field] \in Int /\ es[m][field] >= 0 /\ es[k][field] \in Int
    BY <2>5 DEF Amounts
  <2>8. f[m] = f[m - 1] + es[m][field]
    BY <1>1, <2>5
  <2>9. Good(m)
    <3>1. CASE m = k
      BY <3>1, <2>6, <2>7, <2>8
    <3>2. CASE m # k
      BY <3>2, <2>3, <2>6, <2>7, <2>8
    <3>3. QED
      BY <3>1, <3>2
  <2>10. QED
    BY <2>2, <2>9
<1>3. Good(Len(es))
  BY <1>2
<1>4. QED
  BY <1>3 DEF Total, f

(* The records of the history and of its entries.                          *)
HistEntry(g, p, l, s) == [game_index |-> g, playtime_sec |-> p, launch_count |-> l, last_session_id |-> s]
HistEntries == [game_index : Games, playtime_sec : Nat, launch_count : Nat, last_session_id : Nat]
Hist(e, c, s, t, l, g, r) ==
  [entries |-> e, current_session_game |-> c, session_start_tick |-> s, system_tick |-> t,
   last_session_id |-> l, current_game |-> g, game_running |-> r]

LEMMA HistoryNumbers ==
  /\ GameCount \in Nat /\ GameCount > 0 /\ MaxSessions \in Nat /\ MaxTicks \in Nat
  /\ GAME_HISTORY_MAX_ENTRIES \in Nat /\ GAME_HISTORY_MAX_ENTRIES >= GameCount
  /\ \A g \in Games : g \in Int
BY HistoryAssumption DEF Games

(* What holds of the entries when last sessions have ended and played      *)
(* ticks belong to them.                                                   *)
HistListed(es, played, last) ==
  /\ es \in Seq(HistEntries)
  /\ \A i \in 1..Len(es) : /\ es[i].playtime_sec >= 1 /\ es[i].launch_count >= 1
                           /\ es[i].last_session_id \in 1..last
  /\ \A i, j \in 1..Len(es) : es[i].game_index = es[j].game_index => i = j
  /\ Total(es, "playtime_sec") = played
  /\ Total(es, "launch_count") = last
  /\ Len(es) = 0 \/ \E i \in 1..Len(es) : es[i].last_session_id = last

HistShape(h) ==
  h = Hist(h.entries, h.current_session_game, h.session_start_tick, h.system_tick,
           h.last_session_id, h.current_game, h.game_running)

HistKept(h) ==
  /\ HistShape(h)
  /\ h.session_start_tick \in Nat /\ h.system_tick \in Nat /\ h.last_session_id \in Nat
  /\ h.system_tick <= MaxTicks /\ h.session_start_tick <= h.system_tick
  /\ h.last_session_id <= MaxSessions
  /\ h.current_game \in Games \cup {-1} /\ h.game_running \in BOOLEAN
  /\ h.game_running => /\ h.current_game \in Games /\ h.last_session_id < MaxSessions
                       /\ HistListed(h.entries, h.session_start_tick, h.last_session_id)
  /\ ~h.game_running => HistListed(h.entries, h.system_tick, h.last_session_id)

LEMMA EntryFields ==
  ASSUME NEW e \in HistEntries
  PROVE  /\ e.game_index \in Games /\ e.playtime_sec \in Nat /\ e.launch_count \in Nat
         /\ e.last_session_id \in Nat
         /\ e = HistEntry(e.game_index, e.playtime_sec, e.launch_count, e.last_session_id)
BY DEF HistEntries, HistEntry

LEMMA EntryMade ==
  ASSUME NEW g \in Games, NEW p \in Nat, NEW l \in Nat, NEW s \in Nat,
         NEW e, e = HistEntry(g, p, l, s)
  PROVE  /\ e \in HistEntries /\ e.game_index = g /\ e.playtime_sec = p /\ e.launch_count = l
         /\ e.last_session_id = s
BY DEF HistEntries, HistEntry

LEMMA EntryAmounts ==
  ASSUME NEW es \in Seq(HistEntries)
  PROVE  /\ Len(es) \in Nat
         /\ Amounts(es, "playtime_sec") /\ Amounts(es, "launch_count")
         /\ \A n \in 1..Len(es) : /\ es[n] \in HistEntries
                                  /\ es[n]["playtime_sec"] = es[n].playtime_sec
                                  /\ es[n]["launch_count"] = es[n].launch_count
                                  /\ es[n].playtime_sec \in Nat /\ es[n].launch_count \in Nat
<1>1. ASSUME NEW n \in 1..Len(es)
      PROVE  /\ es[n] \in HistEntries
             /\ es[n]["playtime_sec"] = es[n].playtime_sec
             /\ es[n]["launch_count"] = es[n].launch_count
             /\ es[n].playtime_sec \in Nat /\ es[n].launch_count \in Nat
  BY EntryFields
<1>2. QED
  BY <1>1 DEF Amounts

(* A game played before: its entry k grows.                                *)
EntryGrown(es, k, d, s) ==
  [es EXCEPT ![k] = HistEntry(es[k].game_index, es[k].playtime_sec + d, es[k].launch_count + 1, s)]

LEMMA EntryGrows ==
  ASSUME NEW es, NEW played \in Nat, NEW last \in Nat, HistListed(es, played, last),
         NEW k \in 1..Len(es), NEW d \in Nat, d >= 1,
         NEW fs, fs = EntryGrown(es, k, d, last + 1)
  PROVE  HistListed(fs, played + d, last + 1)
<1> DEFINE e == HistEntry(es[k].game_index, es[k].playtime_sec + d, es[k].launch_count + 1, last + 1)
<1>1. es \in Seq(HistEntries) /\ Len(es) \in Nat /\ es[k] \in HistEntries
  BY EntryAmounts DEF HistListed
<1>2. /\ e \in HistEntries /\ e.game_index = es[k].game_index /\ e.playtime_sec = es[k].playtime_sec + d
      /\ e.launch_count = es[k].launch_count + 1 /\ e.last_session_id = last + 1
  <2>1. es[k].game_index \in Games /\ es[k].playtime_sec + d \in Nat /\ es[k].launch_count + 1 \in Nat
        /\ last + 1 \in Nat
    BY <1>1, EntryFields
  <2>2. QED
    BY <2>1 DEF HistEntry, HistEntries
<1> HIDE DEF e
<1>3. fs = [es EXCEPT ![k] = e]
  BY DEF e, EntryGrown
<1>4. /\ fs \in Seq(HistEntries) /\ Len(fs) = Len(es) /\ fs[k] = e
      /\ \A n \in 1..Len(es) : n # k => fs[n] = es[n]
  BY <1>1, <1>2, <1>3
<1>5. /\ Amounts(es, "playtime_sec") /\ Amounts(es, "launch_count")
      /\ \A n \in 1..Len(es) : /\ es[n] \in HistEntries /\ es[n]["playtime_sec"] = es[n].playtime_sec
                               /\ es[n]["launch_count"] = es[n].launch_count
                               /\ es[n].playtime_sec \in Nat /\ es[n].launch_count \in Nat
      /\ \A n \in 1..Len(es) : /\ fs[n] \in HistEntries /\ fs[n]["playtime_sec"] = fs[n].playtime_sec
                               /\ fs[n]["launch_count"] = fs[n].launch_count
  BY <1>1, <1>4, EntryAmounts
<1>6. Total(fs, "playtime_sec") = played + d
  <2>1. \A n \in 1..Len(es) : fs[n]["playtime_sec"] = es[n]["playtime_sec"] + Only(n, k, d)
    BY <1>2, <1>4, <1>5 DEF Only
  <2>4. Alike(es, fs, "playtime_sec", k, d)
    BY <1>1, <1>4, <1>5, <2>1 DEF Alike
  <2>2. Total(fs, "playtime_sec") = Total(es, "playtime_sec") + d
    <3>1. Len(fs) = Len(es) /\ k <= Len(es)
      BY <1>1, <1>4
    <3>2. QED
      BY <2>4, <3>1, TotalGrows
  <2>3. QED
    BY <2>2 DEF HistListed
<1>7. Total(fs, "launch_count") = last + 1
  <2>1. \A n \in 1..Len(es) : fs[n]["launch_count"] = es[n]["launch_count"] + Only(n, k, 1)
    BY <1>2, <1>4, <1>5 DEF Only
  <2>4. Alike(es, fs, "launch_count", k, 1)
    BY <1>1, <1>4, <1>5, <2>1 DEF Alike
  <2>2. Total(fs, "launch_count") = Total(es, "launch_count") + 1
    <3>1. Len(fs) = Len(es) /\ k <= Len(es)
      BY <1>1, <1>4
    <3>2. QED
      BY <2>4, <3>1, TotalGrows
  <2>3. QED
    BY <2>2 DEF HistListed
<1>8. ASSUME NEW i \in 1..Len(fs)
      PROVE  /\ fs[i].playtime_sec >= 1 /\ fs[i].launch_count >= 1
             /\ fs[i].last_session_id \in 1..last + 1 /\ fs[i].game_index = es[i].game_index
  <2>1. CASE i = k
    BY <2>1, <1>2, <1>4, <1>5
  <2>2. CASE i # k
    <3>1. fs[i] = es[i] /\ i \in 1..Len(es)
      BY <2>2, <1>4
    <3>2. es[i].playtime_sec >= 1 /\ es[i].launch_count >= 1 /\ es[i].last_session_id \in 1..last
      BY <3>1 DEF HistListed
    <3>3. QED
      BY <3>1, <3>2
  <2>3. QED
    BY <2>1, <2>2
<1>9. \A i, j \in 1..Len(fs) : fs[i].game_index = fs[j].game_index => i = j
  BY <1>4, <1>8 DEF HistListed
<1>10. k \in 1..Len(fs) /\ fs[k].last_session_id = last + 1
  BY <1>2, <1>4
<1>11. QED
  BY <1>4, <1>6, <1>7, <1>8, <1>9, <1>10 DEF HistListed

(* A game not played before: there is room for it.                         *)
LEMMA EntryFits ==
  ASSUME NEW es, NEW played, NEW last, HistListed(es, played, last), NEW g \in Games,
         \A i \in 1..Len(es) : es[i].game_index # g
  PROVE  Len(es) < GAME_HISTORY_MAX_ENTRIES
<1> DEFINE S == 1..Len(es)
           T == Games \ {g}
           f == [i \in S |-> es[i].game_index]
<1>1. es \in Seq(HistEntries) /\ Len(es) \in Nat /\ \A i \in S : es[i] \in HistEntries
  BY EntryAmounts DEF HistListed
<1>2. f \in [S -> T]
  BY <1>1, EntryFields
<1>3. \A i, j \in S : f[i] = f[j] => i = j
  BY DEF HistListed
<1>4. IsFiniteSet(Games) /\ Cardinality(Games) = GameCount
  <2>1. 0 \in Int /\ GameCount - 1 \in Int /\ ~(0 > GameCount - 1) /\ (GameCount - 1) - 0 + 1 = GameCount
    BY HistoryNumbers
  <2>2. QED
    BY <2>1, FS_Interval DEF Games
<1>5. IsFiniteSet(T) /\ Cardinality(T) = GameCount - 1
  BY <1>4, FS_RemoveElement
<1>6. IsFiniteSet(S) /\ Cardinality(S) = Len(es)
  <2> DEFINE n == Len(es)
  <2>1. n \in Nat
    BY <1>1
  <2> HIDE DEF n
  <2>2. 1 \in Int /\ n \in Int /\ (1 > n => n = 0) /\ n - 1 + 1 = n
    BY <2>1
  <2>3. IsFiniteSet(1..n) /\ Cardinality(1..n) = n
    BY <2>2, FS_Interval
  <2>4. QED
    BY <2>3 DEF n
<1> HIDE DEF f, S, T
<1>7. f \in Injection(S, T)
  BY <1>2, <1>3 DEF Injection, IsInjective
<1>8. Cardinality(S) <= Cardinality(T)
  BY <1>5, <1>7, FS_Injection
<1>9. QED
  BY <1>1, <1>5, <1>6, <1>8, HistoryNumbers

LEMMA EntryAdded ==
  ASSUME NEW es, NEW played \in Nat, NEW last \in Nat, HistListed(es, played, last), NEW g \in Games,
         \A i \in 1..Len(es) : es[i].game_index # g, NEW d \in Nat, d >= 1,
         NEW fs, fs = Append(es, HistEntry(g, d, 1, last + 1))
  PROVE  HistListed(fs, played + d, last + 1)
<1> DEFINE e == HistEntry(g, d, 1, last + 1)
           m == Len(es)
<1>1. es \in Seq(HistEntries) /\ m \in Nat
  BY EntryAmounts DEF HistListed
<1>2. /\ e \in HistEntries /\ e.game_index = g /\ e.playtime_sec = d
      /\ e.launch_count = 1 /\ e.last_session_id = last + 1
  <2>1. 1 \in Nat /\ last + 1 \in Nat
    OBVIOUS
  <2>2. QED
    BY <2>1 DEF HistEntry, HistEntries
<1> HIDE DEF e
<1>3. fs = Append(es, e)
  BY DEF e
<1>4. /\ fs \in Seq(HistEntries) /\ Len(fs) = m + 1 /\ fs[m + 1] = e
      /\ \A n \in 1..m : fs[n] = es[n]
  BY <1>1, <1>2, <1>3
<1>5. /\ Amounts(es, "playtime_sec") /\ Amounts(es, "launch_count")
      /\ \A n \in 1..m : es[n]["playtime_sec"] \in Int /\ es[n]["launch_count"] \in Int
      /\ fs[m + 1]["playtime_sec"] = d /\ fs[m + 1]["launch_count"] = 1
  <2>1. Amounts(es, "playtime_sec") /\ Amounts(es, "launch_count")
    BY <1>1, EntryAmounts
  <2>2. m + 1 \in 1..Len(fs)
    BY <1>1, <1>4
  <2>3. fs[m + 1]["playtime_sec"] = fs[m + 1].playtime_sec /\ fs[m + 1]["launch_count"] = fs[m + 1].launch_count
    BY <1>4, <2>2, EntryAmounts
  <2>4. QED
    BY <2>1, <2>3, <1>2, <1>4 DEF Amounts
<1>6. Total(fs, "playtime_sec") = played + d
  <2>1. Total(fs, "playtime_sec") = Total(es, "playtime_sec") + fs[Len(es) + 1]["playtime_sec"]
    BY <1>1, <1>4, <1>5, TotalAppended
  <2>2. QED
    BY <2>1, <1>5 DEF HistListed
<1>7. Total(fs, "launch_count") = last + 1
  <2>1. Total(fs, "launch_count") = Total(es, "launch_count") + fs[Len(es) + 1]["launch_count"]
    BY <1>1, <1>4, <1>5, TotalAppended
  <2>2. QED
    BY <2>1, <1>5 DEF HistListed
<1>8. ASSUME NEW i \in 1..Len(fs)
      PROVE  /\ fs[i].playtime_sec >= 1 /\ fs[i].launch_count >= 1
             /\ fs[i].last_session_id \in 1..last + 1
  <2>1. CASE i = m + 1
    BY <2>1, <1>2, <1>4
  <2>2. CASE i # m + 1
    <3>1. i \in 1..m
      BY <2>2, <1>1, <1>4
    <3>2. fs[i] = es[i]
      BY <3>1, <1>4
    <3>3. es[i].playtime_sec >= 1 /\ es[i].launch_count >= 1 /\ es[i].last_session_id \in 1..last
      BY <3>1 DEF HistListed
    <3>4. QED
      BY <3>2, <3>3
  <2>3. QED
    BY <2>1, <2>2
<1>9. ASSUME NEW i \in 1..Len(fs), NEW j \in 1..Len(fs), fs[i].game_index = fs[j].game_index
      PROVE  i = j
  <2>1. (i = m + 1 \/ i \in 1..m) /\ (j = m + 1 \/ j \in 1..m)
    BY <1>1, <1>4
  <2>2. CASE i \in 1..m /\ j \in 1..m
    BY <2>2, <1>4, <1>9 DEF HistListed
  <2>3. CASE i = m + 1 /\ j \in 1..m
    BY <2>3, <1>2, <1>4, <1>9
  <2>4. CASE j = m + 1 /\ i \in 1..m
    BY <2>4, <1>2, <1>4, <1>9
  <2>5. QED
    BY <2>1, <2>2, <2>3, <2>4
<1>10. m + 1 \in 1..Len(fs) /\ fs[m + 1].last_session_id = last + 1
  BY <1>1, <1>2, <1>4
<1>11. QED
  BY <1>4, <1>6, <1>7, <1>8, <1>9, <1>10 DEF HistListed

(* The record of the history, rewritten one field at a time.               *)
StartedAs(h, c2, s2) ==
  [h EXCEPT !.current_session_game = c2, !.session_start_tick = s2]

LEMMA HistStarted ==
  ASSUME NEW h, HistShape(h), NEW c2, NEW s2
  PROVE  StartedAs(h, c2, s2)
           = Hist(h.entries, c2, s2, h.system_tick, h.last_session_id, h.current_game, h.game_running)
<1> DEFINE h1 == [h EXCEPT !.current_session_game = c2]
           h2 == [h1 EXCEPT !.session_start_tick = s2]
<1>0. h2 = StartedAs(h, c2, s2)
  BY DEF StartedAs
<1>1. h1 = Hist(h.entries, c2, h.session_start_tick, h.system_tick, h.last_session_id, h.current_game, h.game_running)
  BY DEF Hist, HistShape
<1> HIDE DEF h1
<1>2. h2 = Hist(h.entries, c2, s2, h.system_tick, h.last_session_id, h.current_game, h.game_running)
  BY <1>1 DEF Hist
<1> HIDE DEF h2
<1>3. QED
  BY <1>0, <1>2

RunsAs(h, g2, r2) ==
  [h EXCEPT !.current_game = g2, !.game_running = r2]

LEMMA HistRuns ==
  ASSUME NEW h, HistShape(h), NEW g2, NEW r2
  PROVE  RunsAs(h, g2, r2)
           = Hist(h.entries, h.current_session_game, h.session_start_tick, h.system_tick, h.last_session_id, g2, r2)
<1> DEFINE h1 == [h EXCEPT !.current_game = g2]
           h2 == [h1 EXCEPT !.game_running = r2]
<1>0. h2 = RunsAs(h, g2, r2)
  BY DEF RunsAs
<1>1. h1 = Hist(h.entries, h.current_session_game, h.session_start_tick, h.system_tick, h.last_session_id, g2, h.game_running)
  BY DEF Hist, HistShape
<1> HIDE DEF h1
<1>2. h2 = Hist(h.entries, h.current_session_game, h.session_start_tick, h.system_tick, h.last_session_id, g2, r2)
  BY <1>1 DEF Hist
<1> HIDE DEF h2
<1>3. QED
  BY <1>0, <1>2

EndedAs(h, l2, c2, e2) ==
  [h EXCEPT !.last_session_id = l2, !.current_session_game = c2, !.entries = e2]

LEMMA HistEnded ==
  ASSUME NEW h, HistShape(h), NEW l2, NEW c2, NEW e2
  PROVE  EndedAs(h, l2, c2, e2)
           = Hist(e2, c2, h.session_start_tick, h.system_tick, l2, h.current_game, h.game_running)
<1> DEFINE h1 == [h EXCEPT !.last_session_id = l2]
           h2 == [h1 EXCEPT !.current_session_game = c2]
           h3 == [h2 EXCEPT !.entries = e2]
<1>0. h3 = EndedAs(h, l2, c2, e2)
  BY DEF EndedAs
<1>1. h1 = Hist(h.entries, h.current_session_game, h.session_start_tick, h.system_tick, l2, h.current_game, h.game_running)
  BY DEF Hist, HistShape
<1> HIDE DEF h1
<1>2. h2 = Hist(h.entries, c2, h.session_start_tick, h.system_tick, l2, h.current_game, h.game_running)
  BY <1>1 DEF Hist
<1> HIDE DEF h2
<1>3. h3 = Hist(e2, c2, h.session_start_tick, h.system_tick, l2, h.current_game, h.game_running)
  BY <1>2 DEF Hist
<1> HIDE DEF h3
<1>4. QED
  BY <1>0, <1>3

ReturnedAs(h, r2, g2) ==
  [h EXCEPT !.game_running = r2, !.current_game = g2]

LEMMA HistReturned ==
  ASSUME NEW h, HistShape(h), NEW r2, NEW g2
  PROVE  ReturnedAs(h, r2, g2)
           = Hist(h.entries, h.current_session_game, h.session_start_tick, h.system_tick, h.last_session_id, g2, r2)
<1> DEFINE h1 == [h EXCEPT !.game_running = r2]
           h2 == [h1 EXCEPT !.current_game = g2]
<1>0. h2 = ReturnedAs(h, r2, g2)
  BY DEF ReturnedAs
<1>1. h1 = Hist(h.entries, h.current_session_game, h.session_start_tick, h.system_tick, h.last_session_id, h.current_game, r2)
  BY DEF Hist, HistShape
<1> HIDE DEF h1
<1>2. h2 = Hist(h.entries, h.current_session_game, h.session_start_tick, h.system_tick, h.last_session_id, g2, r2)
  BY <1>1 DEF Hist
<1> HIDE DEF h2
<1>3. QED
  BY <1>0, <1>2

TickedAs(h, t2) ==
  [h EXCEPT !.system_tick = t2]

LEMMA HistTicked ==
  ASSUME NEW h, HistShape(h), NEW t2
  PROVE  TickedAs(h, t2)
           = Hist(h.entries, h.current_session_game, h.session_start_tick, t2, h.last_session_id, h.current_game, h.game_running)
BY DEF Hist, HistShape, TickedAs

LEMMA HistFields ==
  ASSUME NEW e, NEW c, NEW s, NEW t, NEW l, NEW g, NEW r, NEW h, h = Hist(e, c, s, t, l, g, r)
  PROVE  /\ h.entries = e /\ h.current_session_game = c /\ h.session_start_tick = s
         /\ h.system_tick = t /\ h.last_session_id = l /\ h.current_game = g /\ h.game_running = r
         /\ HistShape(h)
BY DEF Hist, HistShape

LEMMA LaunchKeeps ==
  ASSUME NEW g \in Games, HistKept(history), HistoryLaunch(g)
  PROVE  HistKept(history')
<1> DEFINE h == history
           n == history'
           v == StartedAs(h, g, h.system_tick)
           r == TRUE
<1>1. v = game_history_session_start(g)
  BY DEF StartedAs, game_history_session_start
<1>2. n = RunsAs(v, g, r) /\ ~h.game_running /\ h.last_session_id < MaxSessions
  BY <1>1 DEF RunsAs, HistoryLaunch
<1>3. r = TRUE /\ r \in BOOLEAN
  OBVIOUS
<1> HIDE DEF v, r, n
<1>4. v = Hist(h.entries, g, h.system_tick, h.system_tick, h.last_session_id, h.current_game, h.game_running)
  BY HistStarted DEF v, HistKept
<1>5. /\ v.entries = h.entries /\ v.current_session_game = g /\ v.session_start_tick = h.system_tick
      /\ v.system_tick = h.system_tick /\ v.last_session_id = h.last_session_id /\ HistShape(v)
  BY <1>4, HistFields
<1>6. n = Hist(v.entries, v.current_session_game, v.session_start_tick, v.system_tick, v.last_session_id, g, r)
  BY <1>2, <1>5, HistRuns
<1>7. /\ n.entries = h.entries /\ n.session_start_tick = h.system_tick /\ n.system_tick = h.system_tick
      /\ n.last_session_id = h.last_session_id /\ n.current_game = g /\ n.game_running = r /\ HistShape(n)
  BY <1>5, <1>6, HistFields
<1>8. HistListed(h.entries, h.system_tick, h.last_session_id)
  BY <1>2 DEF HistKept
<1>9. h.system_tick \in Nat /\ h.system_tick <= MaxTicks /\ h.last_session_id \in Nat /\ h.last_session_id <= MaxSessions
  BY DEF HistKept
<1>10. n.session_start_tick <= n.system_tick
  BY <1>7, <1>9
<1>11. HistKept(n)
  BY <1>2, <1>3, <1>7, <1>8, <1>9, <1>10 DEF HistKept
<1>12. QED
  BY <1>11 DEF n

LEMMA TickKeeps ==
  ASSUME HistKept(history), game_history_tick
  PROVE  HistKept(history')
<1> DEFINE h == history
           n == history'
           k == h.system_tick + 1
<1>1. n = TickedAs(h, k) /\ h.game_running /\ h.system_tick < MaxTicks
  BY DEF TickedAs, game_history_tick
<1>2. k \in Nat /\ k <= MaxTicks /\ h.session_start_tick <= k
  BY <1>1, HistoryNumbers DEF HistKept
<1> HIDE DEF n, k
<1>3. n = Hist(h.entries, h.current_session_game, h.session_start_tick, k, h.last_session_id, h.current_game, h.game_running)
  BY <1>1, HistTicked DEF HistKept
<1>4. /\ n.entries = h.entries /\ n.session_start_tick = h.session_start_tick /\ n.system_tick = k
      /\ n.last_session_id = h.last_session_id /\ n.current_game = h.current_game
      /\ n.game_running = h.game_running /\ HistShape(n)
  BY <1>3, HistFields
<1>5. HistKept(n)
  BY <1>1, <1>2, <1>4 DEF HistKept
<1>6. QED
  BY <1>5 DEF n

(* The entries after game_history_session_end.                             *)
FoundOf(es, g) == {i \in DOMAIN es : es[i].game_index = g}
EndEntries(es, g, d, id) ==
  IF FoundOf(es, g) # {} THEN EntryGrown(es, Min(FoundOf(es, g)), d, id)
  ELSE IF Len(es) >= GAME_HISTORY_MAX_ENTRIES THEN es
  ELSE Append(es, HistEntry(g, d, 1, id))

LEMMA EndListed ==
  ASSUME NEW es, NEW played \in Nat, NEW last \in Nat, HistListed(es, played, last), NEW g \in Games,
         NEW d \in Nat, d >= 1, NEW fs, fs = EndEntries(es, g, d, last + 1)
  PROVE  HistListed(fs, played + d, last + 1)
<1>1. es \in Seq(HistEntries) /\ DOMAIN es = 1..Len(es) /\ Len(es) \in Nat
  BY DEF HistListed
<1>2. CASE FoundOf(es, g) # {}
  <2> DEFINE k == Min(FoundOf(es, g))
  <2>1. FoundOf(es, g) \in SUBSET Nat
    BY <1>1 DEF FoundOf
  <2>2. k \in FoundOf(es, g)
    BY <1>2, <2>1, MinIsLeast
  <2>3. k \in 1..Len(es)
    BY <2>2, <1>1 DEF FoundOf
  <2>4. fs = EntryGrown(es, k, d, last + 1)
    BY <1>2 DEF EndEntries
  <2> HIDE DEF k
  <2>5. QED
    BY <2>3, <2>4, EntryGrows
<1>3. CASE FoundOf(es, g) = {}
  <2>1. \A i \in 1..Len(es) : es[i].game_index # g
    BY <1>1, <1>3 DEF FoundOf
  <2>2. Len(es) < GAME_HISTORY_MAX_ENTRIES
    BY <2>1, EntryFits
  <2>3. ~(Len(es) >= GAME_HISTORY_MAX_ENTRIES)
    BY <2>2, <1>1, HistoryNumbers
  <2>4. fs = Append(es, HistEntry(g, d, 1, last + 1))
    BY <1>3, <2>3 DEF EndEntries
  <2>5. QED
    BY <2>1, <2>4, EntryAdded
<1>4. QED
  BY <1>2, <1>3

EntryAs(e, p, l, s) == [e EXCEPT !.playtime_sec = p, !.launch_count = l, !.last_session_id = s]

LEMMA EntrySet ==
  ASSUME NEW e, e = HistEntry(e.game_index, e.playtime_sec, e.launch_count, e.last_session_id),
         NEW p, NEW l, NEW s
  PROVE  EntryAs(e, p, l, s) = HistEntry(e.game_index, p, l, s)
<1> DEFINE e1 == [e EXCEPT !.playtime_sec = p]
           e2 == [e1 EXCEPT !.launch_count = l]
           e3 == [e2 EXCEPT !.last_session_id = s]
<1>0. e3 = EntryAs(e, p, l, s)
  BY DEF EntryAs
<1>1. e1 = HistEntry(e.game_index, p, e.launch_count, e.last_session_id)
  BY DEF HistEntry
<1> HIDE DEF e1
<1>2. e2 = HistEntry(e.game_index, p, l, e.last_session_id)
  BY <1>1 DEF HistEntry
<1> HIDE DEF e2
<1>3. e3 = HistEntry(e.game_index, p, l, s)
  BY <1>2 DEF HistEntry
<1> HIDE DEF e3
<1>4. QED
  BY <1>0, <1>3

LEMMA EndIs ==
  ASSUME NEW g, HistKept(history), history.system_tick > history.session_start_tick
  PROVE  game_history_session_end(g)
           = EndedAs(history, history.last_session_id + 1, -1,
                     EndEntries(history.entries, g, history.system_tick - history.session_start_tick,
                                history.last_session_id + 1))
<1> DEFINE es == history.entries
           id == history.last_session_id + 1
           ticks == history.system_tick - history.session_start_tick
           elapsed == IF ticks < 1 THEN 1 ELSE ticks
           found == {i \in DOMAIN es : es[i].game_index = g}
           k == Min(found)
           e == EntryAs(es[k], es[k].playtime_sec + elapsed, es[k].launch_count + 1, id)
           grown == [es EXCEPT ![k] = e]
           added == Append(es, [game_index |-> g, playtime_sec |-> elapsed,
                                launch_count |-> 1, last_session_id |-> id])
           full == Len(es) >= GAME_HISTORY_MAX_ENTRIES
<1>1. game_history_session_end(g)
        = EndedAs(history, id, -1, IF found # {} THEN grown ELSE IF full THEN es ELSE added)
  BY DEF game_history_session_end, EndedAs, EntryAs
<1>2. elapsed = ticks
  BY DEF HistKept
<1>3. found = FoundOf(es, g)
  BY DEF FoundOf
<1>4. added = Append(es, HistEntry(g, ticks, 1, id))
  BY <1>2 DEF HistEntry
<1>5. ASSUME found # {} PROVE grown = EntryGrown(es, k, ticks, id)
  <2>1. es \in Seq(HistEntries)
    BY DEF HistKept, HistListed
  <2>2. found \in SUBSET Nat /\ found \in SUBSET (1..Len(es))
    BY <2>1
  <2> HIDE DEF found
  <2>3. k \in 1..Len(es)
    BY <1>5, <2>2, MinIsLeast
  <2> HIDE DEF k, elapsed, id
  <2>4. es[k] = HistEntry(es[k].game_index, es[k].playtime_sec, es[k].launch_count, es[k].last_session_id)
    BY <2>1, <2>3, EntryFields
  <2>5. e = HistEntry(es[k].game_index, es[k].playtime_sec + elapsed, es[k].launch_count + 1, id)
    BY <2>4, EntrySet
  <2>6. grown = [es EXCEPT ![k] = e]
    OBVIOUS
  <2> HIDE DEF e, grown
  <2>7. QED
    BY <2>5, <2>6, <1>2 DEF EntryGrown
<1> HIDE DEF elapsed, added, grown, id, ticks, es
<1>6. (IF found # {} THEN grown ELSE IF full THEN es ELSE added) = EndEntries(es, g, ticks, id)
  BY <1>3, <1>4, <1>5 DEF EndEntries
<1>7. QED
  BY <1>1, <1>6 DEF es, id, ticks

LEMMA ReturnKeeps ==
  ASSUME HistKept(history), HistoryReturn
  PROVE  HistKept(history')
<1> DEFINE h == history
           n == history'
           g == h.current_game
           d == h.system_tick - h.session_start_tick
           id == h.last_session_id + 1
           fs == EndEntries(h.entries, g, d, id)
           v == EndedAs(h, id, -1, fs)
           r == FALSE
           none == -1
<1>1. h.game_running /\ h.system_tick > h.session_start_tick
      /\ n = [game_history_session_end(g) EXCEPT !.game_running = FALSE, !.current_game = -1]
  BY DEF HistoryReturn
<1>2. v = game_history_session_end(g)
  BY <1>1, EndIs
<1>3. n = ReturnedAs(v, r, none)
  BY <1>1, <1>2 DEF ReturnedAs
<1>4. r = FALSE /\ r \in BOOLEAN /\ none = -1 /\ none \in Games \cup {-1}
  OBVIOUS
<1>5. /\ h.session_start_tick \in Nat /\ h.system_tick \in Nat /\ h.last_session_id \in Nat
      /\ h.system_tick <= MaxTicks /\ h.session_start_tick <= h.system_tick
      /\ g \in Games /\ h.last_session_id < MaxSessions
      /\ HistListed(h.entries, h.session_start_tick, h.last_session_id) /\ HistShape(h)
  BY <1>1 DEF HistKept
<1>6. d \in Nat /\ d >= 1 /\ h.session_start_tick + d = h.system_tick
      /\ id \in Nat /\ id <= MaxSessions
  BY <1>1, <1>5, HistoryNumbers
<1> DEFINE es == h.entries
           a == h.session_start_tick
           b == h.last_session_id
<1>7. HistListed(fs, h.system_tick, id)
  <2>1. fs = EndEntries(es, g, d, b + 1) /\ HistListed(es, a, b) /\ a + d = h.system_tick /\ id = b + 1
        /\ a \in Nat /\ b \in Nat
    BY <1>5, <1>6
  <2> HIDE DEF es, a, b, d, g, fs, id
  <2>2. HistListed(fs, a + d, b + 1)
    BY <2>1, <1>5, <1>6, EndListed
  <2>3. QED
    BY <2>1, <2>2
<1> HIDE DEF n, v, r, none, fs, id
<1>8. v = Hist(fs, -1, h.session_start_tick, h.system_tick, id, h.current_game, h.game_running)
  BY <1>5, HistEnded DEF v
<1>9. /\ v.entries = fs /\ v.session_start_tick = h.session_start_tick /\ v.system_tick = h.system_tick
      /\ v.last_session_id = id /\ HistShape(v)
  BY <1>8, HistFields
<1>10. n = Hist(v.entries, v.current_session_game, v.session_start_tick, v.system_tick, v.last_session_id, none, r)
  BY <1>3, <1>9, HistReturned
<1>11. /\ n.entries = fs /\ n.session_start_tick = h.session_start_tick /\ n.system_tick = h.system_tick
       /\ n.last_session_id = id /\ n.current_game = none /\ n.game_running = r /\ HistShape(n)
  BY <1>9, <1>10, HistFields
<1>12. HistKept(n)
  BY <1>4, <1>5, <1>6, <1>7, <1>11 DEF HistKept
<1>13. QED
  BY <1>12 DEF n

LEMMA HistStarts == HistKept(game_history_init)
<1> DEFINE h == game_history_init
           r == FALSE
           es == <<>>
<1>1. h = Hist(es, -1, 0, 0, 0, -1, r)
  BY Zenon DEF game_history_init, Hist
<1>2. r = FALSE /\ r \in BOOLEAN /\ -1 \in Games \cup {-1}
  OBVIOUS
<1>3. es \in Seq(HistEntries) /\ Len(es) = 0 /\ Len(es) \in Nat
  OBVIOUS
<1> HIDE DEF h, r, es
<1>4. /\ h.entries = es /\ h.session_start_tick = 0 /\ h.system_tick = 0 /\ h.last_session_id = 0
      /\ h.current_game = -1 /\ h.game_running = r /\ HistShape(h)
  BY <1>1, HistFields
<1>5. Total(es, "playtime_sec") = 0 /\ Total(es, "launch_count") = 0
  BY <1>3, SumNext DEF Total
<1>6. HistListed(es, 0, 0)
  BY <1>3, <1>5 DEF HistListed
<1>7. HistKept(h)
  BY <1>2, <1>4, <1>6, HistoryNumbers DEF HistKept
<1>8. QED
  BY <1>7 DEF h

LEMMA HistSteps == [AsmNext]_asmVars => HistoryNext \/ UNCHANGED history \/ history' = game_history_init
BY DEF AsmNext, PlayGame, DrawScreen, UseWire, UseTables, UseDisk, Reset, asmVars, games

LEMMA NextKeepsHist == HistKept(history) /\ [AsmNext]_asmVars => HistKept(history')
<1> SUFFICES ASSUME HistKept(history), [AsmNext]_asmVars PROVE HistKept(history')
  OBVIOUS
<1>1. CASE history' = game_history_init
  BY <1>1, HistStarts
<1>2. CASE UNCHANGED history
  BY <1>2
<1>3. CASE \E g \in Games : HistoryLaunch(g)
  BY <1>3, LaunchKeeps
<1>4. CASE game_history_tick
  BY <1>4, TickKeeps
<1>5. CASE HistoryReturn
  BY <1>5, ReturnKeeps
<1>6. QED
  BY <1>1, <1>2, <1>3, <1>4, <1>5, HistSteps DEF HistoryNext

(* What the listings print.                                                *)
LEMMA LastIs ==
  ASSUME NEW played, NEW last \in Nat, HistListed(history.entries, played, last), history.entries # <<>>
  PROVE  history.entries[game_history_print_last].last_session_id = last
<1> DEFINE es == history.entries
           S == {i \in DOMAIN es : \A j \in DOMAIN es : es[j].last_session_id <= es[i].last_session_id}
           k == Min(S)
<1>1. es \in Seq(HistEntries) /\ DOMAIN es = 1..Len(es) /\ Len(es) # 0
  BY DEF HistListed
<1>2. \A i \in 1..Len(es) : es[i].last_session_id \in Int /\ es[i].last_session_id <= last
  BY DEF HistListed
<1>3. PICK i \in 1..Len(es) : es[i].last_session_id = last
  BY <1>1 DEF HistListed
<1>4. i \in S /\ S \in SUBSET Nat
  BY <1>1, <1>2, <1>3
<1>5. k \in S
  BY <1>4, MinIsLeast
<1>6. k \in 1..Len(es) /\ es[i].last_session_id <= es[k].last_session_id
  BY <1>1, <1>3, <1>5
<1>7. k = game_history_print_last
  BY DEF game_history_print_last
<1> HIDE DEF k, S, es
<1>8. es[k].last_session_id = last
  BY <1>2, <1>3, <1>6
<1>9. QED
  BY <1>7, <1>8 DEF es

LEMMA HistTyped ==
  ASSUME NEW es, NEW played \in Nat, NEW last \in Nat, HistListed(es, played, last),
         played <= MaxTicks, last <= MaxSessions
  PROVE  es \in Seq([game_index : Games, playtime_sec : 1..MaxTicks,
                     launch_count : 1..MaxSessions, last_session_id : 1..MaxSessions])
<1> DEFINE T == [game_index : Games, playtime_sec : 1..MaxTicks,
                 launch_count : 1..MaxSessions, last_session_id : 1..MaxSessions]
<1>1. es \in Seq(HistEntries) /\ Len(es) \in Nat
  BY DEF HistListed
<1>2. ASSUME NEW i \in 1..Len(es) PROVE es[i] \in T
  <2>1. /\ es[i] \in HistEntries /\ Amounts(es, "playtime_sec") /\ Amounts(es, "launch_count")
        /\ \A n \in 1..Len(es) : /\ es[n]["playtime_sec"] = es[n].playtime_sec
                                 /\ es[n]["launch_count"] = es[n].launch_count
                                 /\ es[n].playtime_sec \in Nat /\ es[n].launch_count \in Nat
    BY <1>1, EntryAmounts
  <2>2. \A n \in 1..Len(es) : es[n]["playtime_sec"] >= 0 /\ es[n]["launch_count"] >= 0
    BY <2>1
  <2>3. es[i]["playtime_sec"] <= played
    BY <1>1, <2>1, <2>2, SumBounds DEF HistListed
  <2>4. es[i]["launch_count"] <= last
    BY <1>1, <2>1, <2>2, SumBounds DEF HistListed
  <2>5. es[i].playtime_sec >= 1 /\ es[i].launch_count >= 1 /\ es[i].last_session_id \in 1..last
    BY DEF HistListed
  <2>6. /\ es[i].playtime_sec \in 1..MaxTicks /\ es[i].launch_count \in 1..MaxSessions
        /\ es[i].last_session_id \in 1..MaxSessions
    BY <2>1, <2>3, <2>4, <2>5, HistoryNumbers
  <2>7. QED
    BY <2>1, <2>6 DEF HistEntries
<1> HIDE DEF T
<1>3. es \in Seq(T)
  BY <1>1, <1>2
<1>4. QED
  BY <1>3 DEF T

LEMMA HistIsAgreed == HistKept(history) => HistoryAgrees
<1> SUFFICES ASSUME HistKept(history) PROVE HistoryAgrees
  OBVIOUS
<1> DEFINE h == history
           es == history.entries
           last == h.last_session_id
<1>1. /\ h.current_game \in Games \cup {-1} /\ h.game_running \in BOOLEAN
      /\ last \in Nat /\ last <= MaxSessions /\ h.system_tick \in Nat /\ h.system_tick <= MaxTicks
      /\ h.session_start_tick \in Nat /\ h.session_start_tick <= MaxTicks
      /\ h.game_running => HistListed(es, h.session_start_tick, last)
      /\ ~h.game_running => HistListed(es, h.system_tick, last)
  BY HistoryNumbers DEF HistKept
<1>2. HistoryTypeOK
  <2>1. es \in Seq([game_index : Games, playtime_sec : 1..MaxTicks,
                    launch_count : 1..MaxSessions, last_session_id : 1..MaxSessions])
    BY <1>1, HistTyped
  <2>2. QED
    BY <1>1, <2>1 DEF HistoryTypeOK
<1>3. ASSUME ~h.game_running, es # <<>>
      PROVE  /\ game_history_print_stats.playtime = h.system_tick
             /\ game_history_print_stats.launches = last
             /\ es[game_history_print_last].last_session_id = last
  <2>1. HistListed(es, h.system_tick, last)
    BY <1>1, <1>3
  <2>2. game_history_print_stats.playtime = HistoryTotal("playtime_sec")
        /\ game_history_print_stats.launches = HistoryTotal("launch_count")
    BY DEF game_history_print_stats
  <2>3. Total(es, "playtime_sec") = h.system_tick /\ Total(es, "launch_count") = last
    BY <2>1 DEF HistListed
  <2>4. es[game_history_print_last].last_session_id = last
    BY <1>1, <1>3, <2>1, LastIs
  <2>5. QED
    BY <2>2, <2>3, <2>4, TotalIs
<1>4. ASSUME ~h.game_running
      PROVE  \A i, j \in DOMAIN es : es[i].game_index = es[j].game_index => i = j
  <2>1. HistListed(es, h.system_tick, last)
    BY <1>1, <1>4
  <2>2. DOMAIN es = 1..Len(es)
    BY <2>1 DEF HistListed
  <2>3. QED
    BY <2>1, <2>2 DEF HistListed
<1>5. QED
  BY <1>2, <1>3, <1>4 DEF HistoryAgrees

(* In every state the listings of game_history.c agree with what           *)
(* launch_game played: the totals of game_history_print_stats are the      *)
(* ticks counted and the sessions ended, a game has one entry, and the     *)
(* entry game_history_print_last shows is of the session that ended last.  *)
THEOREM HistoryAlwaysAgrees == AsmSpec => []HistoryAgrees
<1>1. AsmInit => HistKept(history)
  BY HistStarts DEF AsmInit, HistoryInit
<1> DEFINE I == HistKept(history)
<1>2. I /\ [AsmNext]_asmVars => I'
  BY NextKeepsHist DEF HistKept, HistShape, Hist, HistListed, Total, Sums, SumStep, HistEntries
<1>3. I => HistoryAgrees
  BY HistIsAgreed
<1> HIDE DEF I
<1>4. AsmInit => I
  BY <1>1 DEF I
<1>5. QED
  BY <1>2, <1>3, <1>4, PTL DEF AsmSpec
===============================================================================
