-------------------------------- MODULE Tetris --------------------------------
(***************************************************************************)
(* The tetris game of src/game.c.  The board is the set of its occupied    *)
(* cells (the colours are only drawn); row 0 is the top, and a piece       *)
(* starts two rows above it.  A lock may set tetris_quit in the middle of  *)
(* the key loop, which goes on with the keys that wait; the loop of        *)
(* tetris_run looks at the flag only after the tick.                       *)
(***************************************************************************)
EXTENDS Integers, FiniteSets, FiniteSetsExt

CONSTANTS
  TETRIS_W, TETRIS_H,
  TETRIS_DROP_MAX,   \* ticks between two drops
  TetrisLines        \* bound: past this many cleared lines only Esc is played

ASSUME TetrisAssumption ==
  /\ TETRIS_W \in Nat /\ TETRIS_W >= 4
  /\ TETRIS_H \in Nat /\ TETRIS_H >= 2      \* an I piece starts down to row 1
  /\ TETRIS_DROP_MAX \in Nat \ {0}
  /\ TetrisLines \in Nat

VARIABLE tetris

(* The four rotations of each piece; the I, Z, S and O pieces repeat.      *)
tetris_shapes ==
  LET I1 == {<<1,0>>, <<1,1>>, <<1,2>>, <<1,3>>}   I2 == {<<0,1>>, <<1,1>>, <<2,1>>, <<3,1>>}
      O1 == {<<0,0>>, <<1,0>>, <<0,1>>, <<1,1>>}
      S1 == {<<1,0>>, <<2,0>>, <<0,1>>, <<1,1>>}   S2 == {<<0,0>>, <<0,1>>, <<1,1>>, <<1,2>>}
      Z1 == {<<0,0>>, <<1,0>>, <<1,1>>, <<2,1>>}   Z2 == {<<1,0>>, <<0,1>>, <<1,1>>, <<0,2>>}
  IN  << <<I1, I2, I1, I2>>,
         <<O1, O1, O1, O1>>,
         << {<<1,0>>, <<0,1>>, <<1,1>>, <<2,1>>}, {<<0,0>>, <<0,1>>, <<1,1>>, <<0,2>>},
            {<<0,1>>, <<1,1>>, <<2,1>>, <<1,2>>}, {<<1,0>>, <<0,1>>, <<1,1>>, <<1,2>>} >>,
         <<S1, S2, S1, S2>>,
         <<Z1, Z2, Z1, Z2>>,
         << {<<0,0>>, <<0,1>>, <<1,1>>, <<2,1>>}, {<<1,0>>, <<1,1>>, <<0,2>>, <<1,2>>},
            {<<0,1>>, <<1,1>>, <<2,1>>, <<2,2>>}, {<<0,0>>, <<1,0>>, <<0,1>>, <<0,2>>} >>,
         << {<<2,0>>, <<0,1>>, <<1,1>>, <<2,1>>}, {<<0,0>>, <<1,0>>, <<0,1>>, <<0,2>>},
            {<<0,1>>, <<1,1>>, <<2,1>>, <<0,2>>}, {<<1,0>>, <<1,1>>, <<0,2>>, <<1,2>>} >> >>
TETRIS_NUM == 7

TetrisCells(t, dx, dy, rot) ==
  {<<t.px + c[1] + dx, t.py + c[2] + dy>> : c \in tetris_shapes[t.piece + 1][rot + 1]}

tetris_collide(t, dx, dy, rot) ==
  \E c \in TetrisCells(t, dx, dy, rot) :
     c[1] \notin 0..TETRIS_W - 1 \/ c[2] >= TETRIS_H \/ c \in t.board

TetrisSpawn(t, piece) ==
  [t EXCEPT !.piece = piece, !.rot = 0, !.px = TETRIS_W \div 2 - 2, !.py = -2, !.ticks = 0]

(* Rows 1..row take the row above, row 0 is emptied.                       *)
TetrisDropRow(board, row) ==
  {c \in board : c[2] > row} \cup {<<c[1], c[2] + 1>> : c \in {d \in board : d[2] < row}}

TetrisFullRows(board) ==
  {r \in 0..TETRIS_H - 1 : \A c \in 0..TETRIS_W - 1 : <<c, r>> \in board}

BadTetrisClear(board) ==    \* goes on above a removed row without looking at it again
  IF TetrisFullRows(board) = {} THEN board
  ELSE TetrisDropRow(board, Max(TetrisFullRows(board)))

(* The loop over the rows, bottom to top, that looks at a removed row      *)
(* again: as long as there is a full row, the lowest one is removed.       *)
TetrisClear(board) ==
  LET clear[b \in SUBSET ((0..TETRIS_W - 1) \X (0..TETRIS_H - 1))] ==
        IF TetrisFullRows(b) = {} THEN b
        ELSE clear[TetrisDropRow(b, Max(TetrisFullRows(b)))]
  IN  clear[board]

(* A cell above the board is lost.  t.placed counts the cells ever put on  *)
(* the board; it is not part of the program.                               *)
tetris_lock(t) ==
  LET put     == {c \in TetrisCells(t, 0, 0, t.rot) : c[2] \in 0..TETRIS_H - 1}
      board   == TetrisClear(t.board \cup put)
      cleared == Cardinality(TetrisFullRows(t.board \cup put))
      score   == (t.score + cleared * cleared * 100) % TETRIS_NUM
      next    == TetrisSpawn([t EXCEPT !.board = board, !.lines = @ + cleared, !.score = score,
                                       !.placed = @ + Cardinality(put \ t.board)], score)
  IN  [next EXCEPT !.quit = @ \/ tetris_collide(next, 0, 0, 0)]

TetrisOff ==
  TetrisSpawn([mode |-> "prompt", board |-> {}, piece |-> 0, rot |-> 0, px |-> 0, py |-> 0,
               ticks |-> 0, score |-> 0, lines |-> 0, quit |-> FALSE, placed |-> 0], 0)

TetrisInit == tetris = TetrisOff

tetris_init ==
  /\ tetris.mode = "prompt"
  /\ tetris' = [TetrisOff EXCEPT !.mode = "play"]

TetrisSide(dx) ==
  /\ tetris.mode = "play"
  /\ ~tetris_collide(tetris, dx, 0, tetris.rot)
  /\ tetris' = [tetris EXCEPT !.px = @ + dx]

TetrisTurn ==
  LET r == (tetris.rot + 1) % 4
  IN  /\ tetris.mode = "play"
      /\ ~tetris_collide(tetris, 0, 0, r)
      /\ tetris' = [tetris EXCEPT !.rot = r]

TetrisFall(t) ==
  IF tetris_collide(t, 0, 1, t.rot) THEN tetris_lock(t) ELSE [t EXCEPT !.py = @ + 1]

TetrisDown ==
  /\ tetris.mode = "play"
  /\ tetris.lines < TetrisLines
  /\ tetris' = TetrisFall(tetris)

(* The part of the loop after the keys; esc: Esc ended the key loop.       *)
TetrisTick(esc) ==
  /\ tetris.mode = "play"
  /\ tetris.lines < TetrisLines \/ esc
  /\ LET started == [tetris EXCEPT !.quit = @ \/ esc, !.ticks = @ + 1]
         t == IF started.ticks >= TETRIS_DROP_MAX
              THEN TetrisFall([started EXCEPT !.ticks = 0]) ELSE started
     IN  tetris' = [t EXCEPT !.mode = IF t.quit THEN "over" ELSE "play"]

tetris_leave ==
  /\ tetris.mode = "over"
  /\ tetris' = TetrisOff

TetrisNext ==
  \/ tetris_init \/ tetris_leave
  \/ \E dx \in {-1, 1} : TetrisSide(dx)
  \/ TetrisTurn \/ TetrisDown
  \/ \E esc \in BOOLEAN : TetrisTick(esc)

(* The types, part of the invariant below.                                 *)
TetrisTypeOK ==
  /\ tetris.mode \in {"prompt", "play", "over"}
  /\ tetris.board \subseteq (0..TETRIS_W - 1) \X (0..TETRIS_H - 1)
  /\ tetris.piece \in 0..TETRIS_NUM - 1 /\ tetris.rot \in 0..3
  /\ tetris.ticks \in 0..TETRIS_DROP_MAX - 1
-------------------------------------------------------------------------------
(* A falling piece stays between the walls, above the floor and off the    *)
(* locked cells until a spawn is blocked; no complete row survives a lock, *)
(* whichever rows one piece completes; and cells leave the board only as   *)
(* whole cleared lines: what was placed is on the board or was counted in  *)
(* tetris_lines.                                                           *)
TetrisSound ==
  /\ TetrisTypeOK
  /\ \A c \in TetrisCells(tetris, 0, 0, tetris.rot) :
        c[1] \in 0..TETRIS_W - 1 /\ c[2] < TETRIS_H
  /\ tetris.quit \/ TetrisCells(tetris, 0, 0, tetris.rot) \cap tetris.board = {}
  /\ TetrisFullRows(tetris.board) = {}
  /\ Cardinality(tetris.board) + TETRIS_W * tetris.lines = tetris.placed
===============================================================================
