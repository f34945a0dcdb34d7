---------------------------------- MODULE AsmOS ----------------------------------
(***************************************************************************)
(* The console as start_shell runs it: one command at a time, each to its  *)
(* end, over components that share no state with each other.  A behaviour  *)
(* therefore follows one component, chosen at the start, and the machine   *)
(* may be reset at any time: all of RAM starts again, the disk stays.      *)
(***************************************************************************)
EXTENDS Snake, Pong, Tetris, Invaders, Racing, GameHistory, Graphics, TextConsole,
        Datagrams, Streaming, Profiles, SaveManager, Shell

VARIABLE focus    \* the component this behaviour follows

games  == <<snake, pong, tetris, si, race, history>>
screen == <<demo, line, con>>
wire   == <<rx, net, pipe, frames>>
tables == <<pads, shell>>
asmVars == <<games, screen, wire, tables, saveVars, focus>>

AsmInit ==
  /\ SnakeInit /\ PongInit /\ TetrisInit /\ SiInit /\ RaceInit /\ HistoryInit
  /\ DemoInit /\ LineInit /\ ConsoleInit
  /\ NetInit /\ PipeInit /\ FramesInit
  /\ PadsInit /\ ShellInit /\ SavesInit
  /\ focus \in {"snake", "pong", "tetris", "invaders", "racing", "history", "demo", "line",
                "console", "net", "pipe", "frames", "shell", "saves", "pads"}
  /\ pads.kind = "compat" \/ focus = "pads"

PlayGame ==
  /\ \/ focus = "snake"    /\ SnakeNext   /\ UNCHANGED <<pong, tetris, si, race, history>>
     \/ focus = "pong"     /\ PongNext    /\ UNCHANGED <<snake, tetris, si, race, history>>
     \/ focus = "tetris"   /\ TetrisNext  /\ UNCHANGED <<snake, pong, si, race, history>>
     \/ focus = "invaders" /\ SiNext      /\ UNCHANGED <<snake, pong, tetris, race, history>>
     \/ focus = "racing"   /\ RaceNext    /\ UNCHANGED <<snake, pong, tetris, si, history>>
     \/ focus = "history"  /\ HistoryNext /\ UNCHANGED <<snake, pong, tetris, si, race>>
  /\ UNCHANGED <<screen, wire, tables, saveVars, focus>>

DrawScreen ==
  /\ \/ focus = "demo"    /\ DemoNext    /\ UNCHANGED <<line, con>>
     \/ focus = "line"    /\ LineNext    /\ UNCHANGED <<demo, con>>
     \/ focus = "console" /\ ConsoleNext /\ UNCHANGED <<demo, line>>
  /\ UNCHANGED <<games, wire, tables, saveVars, focus>>

UseWire ==
  /\ \/ focus = "net"    /\ NetNext    /\ UNCHANGED <<pipe, frames>>
     \/ focus = "pipe"   /\ PipeNext   /\ UNCHANGED <<rx, net, frames>>
     \/ focus = "frames" /\ FramesNext /\ UNCHANGED <<rx, net, pipe>>
  /\ UNCHANGED <<games, screen, tables, saveVars, focus>>

UseTables ==
  /\ \/ focus = "pads"  /\ PadsNext    /\ UNCHANGED shell
     \/ focus = "shell" /\ start_shell /\ UNCHANGED pads
  /\ UNCHANGED <<games, screen, wire, saveVars, focus>>

UseDisk == focus = "saves" /\ SavesNext /\ UNCHANGED <<games, screen, wire, tables, focus>>

(* kernel_main again: the initialisations of all that lives in RAM.        *)
Reset ==
  /\ snake' = SnakeOff /\ pong' = PongOff /\ tetris' = TetrisOff /\ si' = SiOff /\ race' = RaceOff
  /\ history' = game_history_init
  /\ demo' = init_graphics_demo /\ line' = NoLine /\ con' = clear_screen
  /\ rx' = RingNew /\ net' = NetStart /\ pipe' = PipeClosed /\ frames' = FramesOff
  /\ pads' = PadsStart(pads.kind) /\ shell' = ShellStart
  /\ SavesPowerCycle
  /\ UNCHANGED focus

AsmNext == PlayGame \/ DrawScreen \/ UseWire \/ UseTables \/ UseDisk \/ Reset

(* Each pass of a game's loop reaches its tick, each pass of a client's or *)
(* ping's loop its receive, and stream_wait polls: the loops do not block. *)
AsmFairness ==
  /\ WF_si(InvadersRun /\ \E esc \in BOOLEAN : space_invaders_tick(esc))
  /\ WF_<<rx, net>>(NetRuns /\ NetJob)
  /\ WF_pipe(RequestsPending /\ stream_poll)

AsmSpec == AsmInit /\ [][AsmNext]_asmVars /\ AsmFairness
-------------------------------------------------------------------------------
(* What graphics.c draws: no box of the demo is lost to the wrap of its    *)
(* coordinates, and draw_line keeps to its line and ends on its end point. *)
GraphicsSound == BoxComesBack /\ LineTracks

(* What the console of kernel.c and the line input show: the screen is the *)
(* tail of what was written, and the echo of a line is what will be read.  *)
ConsoleShows == ScreenIsTail /\ EchoInStep

(* streaming.c stays inside the buffers it was given and hands all of them *)
(* over, and sends frames without a gap.                                   *)
StreamSound == BuffersCovered /\ FramesWhole

(* Three waits end by themselves: a game of invaders, however it is played *)
(* or left alone; a network command, also without an answer and with the   *)
(* network down; and stream_wait for the queued requests of a pipeline.    *)
(* Nothing is claimed of stream_read_sync and stream_write_sync, which for *)
(* a length above 0 never return, nor of the other games, which end when   *)
(* the player loses or leaves.                                             *)
Waiting == InvadersRun \/ NetRuns \/ RequestsPending
WaitsEnd == Waiting ~> ~Waiting

(* The ring behind net_udp_recv implements BoundedQueue between restarts   *)
(* of the network: over any interleaving of local sends, receives that     *)
(* push and pop at once and shutdowns, nothing overtakes, nothing is read  *)
(* twice, a full ring drops the newcomer and nothing else.                 *)
RingIsQueue == RxQueue!Init /\ [][RxQueue!Next \/ net_init \/ Reset]_(RingQueue(rx))

(* The datagram layer: the ring is a queue, and whenever no command runs   *)
(* every stream of the pool is free again.                                 *)
NetSound == RingIsQueue /\ []StreamsReturned
===============================================================================
