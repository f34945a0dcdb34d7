----------------------------- MODULE GameHistory ------------------------------
(***************************************************************************)
(* launch_game of src/game.c around a game, and the record that            *)
(* src/game_history.c keeps of it.  A game is its ticks: every run         *)
(* function calls game_history_tick once per pass and returns after at     *)
(* least one pass.  entries is the used part of the array, and a name is   *)
(* the game's index.                                                       *)
(***************************************************************************)
EXTENDS Integers, Sequences, FiniteSetsExt

CONSTANTS
  GameCount,                  \* entries of games[]
  GAME_HISTORY_MAX_ENTRIES,
  MaxSessions, MaxTicks       \* bounds: games launched, ticks played

ASSUME HistoryAssumption ==
  /\ GameCount \in Nat \ {0}
  /\ GAME_HISTORY_MAX_ENTRIES \in Nat /\ GAME_HISTORY_MAX_ENTRIES >= GameCount
  /\ MaxSessions \in Nat /\ MaxTicks \in Nat

VARIABLE history

Games == 0..GameCount - 1

game_history_init ==
  [entries |-> <<>>, current_session_game |-> -1, session_start_tick |-> 0,
   system_tick |-> 0, last_session_id |-> 0, current_game |-> -1, game_running |-> FALSE]

HistoryInit == history = game_history_init

BadHistoryStart(g) ==         \* forgets where the session starts
  [history EXCEPT !.current_session_game = g]

game_history_session_start(g) ==
  [history EXCEPT !.current_session_game = g, !.session_start_tick = history.system_tick]

(* launch_game up to the call of run_func; an index out of range is        *)
(* refused before anything changes.                                        *)
HistoryLaunch(g) ==
  /\ ~history.game_running /\ history.last_session_id < MaxSessions
  /\ g \in Games
  /\ history' = [game_history_session_start(g) EXCEPT !.current_game = g, !.game_running = TRUE]

game_history_tick ==
  /\ history.game_running /\ history.system_tick < MaxTicks
  /\ history' = [history EXCEPT !.system_tick = @ + 1]

game_history_session_end(g) ==
  LET id      == history.last_session_id + 1
      ticks   == history.system_tick - history.session_start_tick
      elapsed == IF ticks < 1 THEN 1 ELSE ticks
      found   == {i \in DOMAIN history.entries : history.entries[i].game_index = g}
      old     == history.entries
      again(e) == [e EXCEPT !.playtime_sec = @ + elapsed, !.launch_count = @ + 1, !.last_session_id = id]
  IN  [history EXCEPT
         !.last_session_id = id,
         !.current_session_game = -1,
         !.entries =
           IF found # {}
           THEN [old EXCEPT ![Min(found)] = again(@)]
           ELSE IF Len(old) >= GAME_HISTORY_MAX_ENTRIES THEN old
           ELSE Append(old, [game_index |-> g, playtime_sec |-> elapsed,
                             launch_count |-> 1, last_session_id |-> id])]

(* run_func returns, after one tick at least; the rest of launch_game.     *)
HistoryReturn ==
  /\ history.game_running
  /\ history.system_tick > history.session_start_tick
  /\ history' = [game_history_session_end(history.current_game)
                   EXCEPT !.game_running = FALSE, !.current_game = -1]

HistoryNext == (\E g \in Games : HistoryLaunch(g)) \/ game_history_tick \/ HistoryReturn

(* What the three listings print.                                          *)
HistoryTotal(field) ==
  LET total[n \in 0..Len(history.entries)] ==
        IF n = 0 THEN 0 ELSE total[n - 1] + history.entries[n][field]
  IN  total[Len(history.entries)]

game_history_print_stats ==
  [playtime |-> HistoryTotal("playtime_sec"),
   launches |-> HistoryTotal("launch_count"),
   most     |-> Min({i \in DOMAIN history.entries :
                       \A j \in DOMAIN history.entries :
                          history.entries[j].playtime_sec <= history.entries[i].playtime_sec})]

game_history_print_last ==
  Min({i \in DOMAIN history.entries :
         \A j \in DOMAIN history.entries :
            history.entries[j].last_session_id <= history.entries[i].last_session_id})

(* The types, part of the invariant below.                                 *)
HistoryTypeOK ==
  /\ history.current_game \in Games \cup {-1}
  /\ history.game_running \in BOOLEAN
  /\ history.entries \in Seq([game_index : Games, playtime_sec : 1..MaxTicks,
                              launch_count : 1..MaxSessions, last_session_id : 1..MaxSessions])
-------------------------------------------------------------------------------
(* The listings agree with what was played: at the prompt the playtimes    *)
(* add up to every tick the machine counted and the launches to every      *)
(* session, each game has one line, and games last prints a line of the    *)
(* session that ended last.                                                *)
HistoryAgrees ==
  HistoryTypeOK /\ (history.game_running \/
    /\ \A i, j \in DOMAIN history.entries :
          history.entries[i].game_index = history.entries[j].game_index => i = j
    /\ history.entries # <<>> =>
         /\ game_history_print_stats.playtime = history.system_tick
         /\ game_history_print_stats.launches = history.last_session_id
         /\ history.entries[game_history_print_last].last_session_id
              = history.last_session_id)
===============================================================================
