# asmOS in TLA+

A verification project for asmOS, the console operating layer in this
repository: TLA+ models of its components, TLC runs that check them on small
instances, and TLAPS proofs for every value of the constants. Paths below are
relative to the repository root.

## 1. The system

asmOS is a freestanding, single-threaded C kernel with an x86 (QEMU, NASM) and a
PS2 (EE) platform layer. There is no preemption: concurrency comes from
cooperative tasks, from the peer console on the network, from the disk, which may
fail or lose power between any two sectors, and from the main loop that drives
every subsystem's tick and polls the same receive path from several places.

| Component | State | Operations | Correct when |
|---|---|---|---|
| Kernel heap, `src/memory_manager.c` | block list over one pool | malloc, calloc, realloc, free (+ merge) | blocks tile the pool, belong to one caller each, and free memory comes back whole |
| Scheduler, `src/scheduler.c`, `boot/arch_x86/context.asm` | task table of stack pointers, current_task | add_task, run_scheduler, task_yield, task_current | each task resumes where it stopped, in round robin order |
| Transport, `src/transport.c` | session, tick counter, retry counter, rx/tx buffers | init, shutdown, send, send_batch, receive, tick, request_reconnect | dead peers are noticed, live ones kept, only whole sent payloads handed up, lost sessions come back |
| Budgets and swap, `src/memory_budget.c` | KB per region, 32 swap slots | set_limit, alloc, free, slot alloc/evict/restore/free, RLE codec | each region is charged what its holders need, limits hold |
| Storage, `platform/x86/hal_storage.c`, `src/storage.c`, `src/memory_card.c` | FAT and root caches, disk; device table; mounted slot | init, list, read, write, delete, validate, repair; copy, export, clone, mount | what was written reads back, also after failures and power loss; files do not disturb each other |
| Saves and pause, `src/save_manager.c`, `src/pause_engine.c` | last backup, whitelist, compatibility table | backup, restore, clone, rollback; snapshot save/restore | a reported backup is kept through failures and power loss, until something else is written |
| Party, `src/party.c` | room, members, host flag | create, invite, join, leave, chat, poll | a room has one host; members agree on it |
| Datagrams, `src/net/udp.c`, `src/net/icmp.c`, `platform/x86/hal_net.c` | receive ring of 8, stream pool of 2 | send, recv, ping, connect, stream send/recv/close | FIFO, no datagram invented, pool slots returned |
| Clients, controllers, `src/net_clients.c`, `src/network_controller.c` | controller state | FTP/telnet/IRC dialogues, poll | streams are closed on every path |
| Streaming, `src/streaming.c` | request queue, frame counter, quality | open, async/sync read and write, poll, wait; start, stop, capture | transfers stay inside the caller's buffer and cover it, queued requests come to an end; frames are cut into all their chunks |
| Registry, `src/subsys/registry.c`; kernel, `src/kernel.c` | subsystem table; console cursor | init_all, tick_all; console output, ksscanf | every tick in order; cursor on screen |
| Quantum, `src/quantum/*` | observer, phase, entangled pairs | init, tick, measure | phase and budget bookkeeping |
| Shell and line input, `src/shell.c`, `boot/arch_x86/syscalls_x86.asm` | command line, history | read_line, parse, dispatch | editing keeps buffer and screen in step |
| Games, `src/game.c` | five game worlds | step, input, draw | no piece leaves the board, what is hit, cleared or scored is accounted for |
| Bluetooth, remapping, `src/bluetooth.c`, `src/controller_remap.c` | device table, profiles | scan, pair, connect; map | table bounds, a mapping is a function |
| Game history, `src/game_history.c`, `launch_game` | one entry per game, current session | session start, tick, end; listings | the totals are what was played |
| Music, LED, dashboard, hardware status, `src/music.c`, `src/led_control.c`, `src/dashboard.c`, `src/hw_status.c` | playlist, colours | play, stop, set | not modelled, see 7 |
| Video, `src/graphics.c`, `boot/arch_x86/vga_text.asm` | demo objects, text screen, cursor | lines, rectangles, demo loop, putchar | what is drawn is on the screen and where it was meant |
| Boot chain, `boot/*.asm`; device drivers | - | load, switch mode, I/O | not modelled, see 7 |

**Interactions.** The scheduler, swap slots and streams allocate from the heap.
Saves, pause, memory card and streams go through `plat_fs_*` to the FAT layer.
Party, streaming and the quantum phase sync send through the transport, and
compete for its receive path; the transport uses `plat_net_send/recv`, as the
datagram layer does. `subsys_tick_all` drives net, party and quantum ticks; the
shell's loop calls it between command lines.

**Hard behaviours** are listed with their lines under `hazards` in
`PROJECT.json`: long call sequences on the heap, frames read before they are
saved in a switch, cut and damaged frames, a wrapping tick counter, retries,
failing sector transfers and power loss inside a directory flush, charges of
slots whose allocation fails late, a receive that pushes and pops in one call,
keys handled in a burst before a tick, words that wrap at an edge of the screen,
names cut to the field they are stored in, loops that wait for an answer.

## 2. Modules

| Module | Models | State and actions |
|---|---|---|
| `MemoryManager` | the heap | `blk` is the list of headers (address -> size, free, next), `live` the pointers callers hold, `walk` the cursor of `merge_free_blocks`. `Malloc`, `Calloc`, `Free`, `FreeIgnored`, `Realloc`, and `MergeStep` for one iteration of the merge loop, which must finish before anything else runs. `realloc(NULL, n)` is `Malloc(n)`. |
| `HeapContract` | what the heap promises | pointer -> bytes it owns; acquire, release, shrink, move. |
| `Scheduler` | the x86 scheduler | `esp` maps a slot to the frame its stack pointer names: whose context it is, the registers it holds, and whether that stack has been reused since. Resuming a reused frame leaves the processor `LOST`. |
| `RoundRobin` | what the scheduler promises | tasks join a ring, a yield passes the turn on. |
| `Transport` | one console's session | the C statics, with ghost clocks `silent` and `down`. Frames come from a peer that runs the same code, through a wire that loses, repeats, reorders, cuts and damages them: type, length and payload may be any, because the checksum covers the payload only. |
| `MemoryBudget` | budgets and swap slots | `used`, `limit`, `slot`. Handles are not checked, as in the code: any slot can be evicted, restored or freed, in use or not. Ghosts `charge` (who holds what), `stranded` (KB of slots freed while evicted) and `revived` (a stale handle has put memory behind a free slot). |
| `FatStorage` | FAT12 files and copies | `data`, `dir` on disk, `root` the cache. An operation is one step whose outcome says how many sectors reached the disk; `PowerCycle` drops the caches. |
| `Party` | the rooms of consoles on one network | room fields per console, `wire` the frames in each adapter, `prompt` the consoles between tick and command; ghost `deaf` (missed a ROOM_INFO since its last create). One action per command, `Tick` for the poll of `subsys_tick_all`, `Ping` for the other reader of the adapter. |
| `Snake`, `Pong`, `Tetris`, `Invaders`, `Racing` | the games of `src/game.c` | the statics of each game in one record; its init, one action per key of the key loop, the tick, and the key that leaves. Several keys may come before a tick; an Esc in all but snake still plays the tick of its pass, as in the code. |
| `GameHistory` | `launch_game` and `src/game_history.c` | entries, the running session, the tick counter; launch, tick, return; the listings as operators. |
| `Graphics` | the demo loop, `draw_rectangle` with `set_pixel`, `draw_line` | the boxes with wrapping unsigned coordinates; a line being drawn, one pixel per step. |
| `TextConsole` | `kprint_char` and its twins, `vga_putchar`, `sys_read_line`, the scancode tables | screen, cursor, the line that is read; ghost `text`, what was written. |
| `UdpRing`, `BoundedQueue` | the receive ring of `src/net/udp.c`, and what it promises | slots, head, tail; a bounded queue that drops the newcomer. |
| `Datagrams` | `src/net/udp.c`, `src/net/icmp.c`, `src/net_clients.c`, `src/network_controller.c`, `net_ping` | `rx` the ring, `net` the flags, open streams and the command that runs. One action per pass of a loop or step of a client's dialogue; every receive may find any datagram or none. |
| `Streaming` | `src/streaming.c` | `pipe` the request queue. A transfer takes a piece of the buffer and no offset: it moves any number of the piece's bytes, from the start of the file, and nobody looks at how many. Ghosts `want` (the length asked for), `asked` (bytes of the buffer handed to a transfer), `moved` (pairs of buffer byte and file byte). `frames` is the capture of a frame, one chunk per step, each of which may fail to be sent. |
| `Profiles` | the tables of `src/bluetooth.c`, `src/controller_remap.c`, `src/pause_engine.c` | one table of names and settings, of one of four kinds; create, save, load, apply, set, pair, unpair. |
| `SaveManager` | `src/save_manager.c`, snapshots of `src/pause_engine.c` | `FatStorage` and `backup_name`, which a power failure clears; ghosts `kept` (the backup last reported written, until it is deleted) and `intact` (no write has been tried since) outlive it. Backup, restore, rollback, clone, snapshots, delete, power failure. |
| `Shell` | `src/shell.c`, `ksscanf`, the tick of `src/quantum/observer.c` | a line is a sequence of words, of which `Numeral` gives a value to those that start as a number; a handler is the calls it makes. |
| `AsmOS` | the machine | the modules from `Snake` to `Shell` in this table. They share no variables: a command runs to its end before the next prompt, and none of these components reads another's state. So each behaviour follows one of them (`focus`), and `Reset`, possible at any time, restarts everything that lives in RAM and keeps the disk. |
| `MC...` | definitions for TLC | constant values a `.cfg` cannot write. |
| `MemoryManagerProofs`, `SchedulerProofs`, `PartyProofs`, `TransportProofs`, `MemoryBudgetProofs`, `FatStorageProofs`, `GameProofs`, `ConsoleProofs` | theorems | see 5. `GameProofs` (the games and their history) and `ConsoleProofs` (everything else) are about what `AsmOS` composes. |

Operators named `Bad...` are plausible slips of the operator below them. They are
not part of any specification; `PROJECT.json` pairs each with the property it
breaks, which shows that the property depends on that code.

Abstractions: addresses are offsets into the pool; a header is 12 bytes (32 bit
build); registers saved by `pusha` are one value; the CRC is injective, and
covers no header; a payload is two halves, so that a frame can be cut, and lengths
count halves; a file is a sequence of sectors; a file
name is its first three characters and the rest, because that is all
`fat_normalize` distinguishes: its loop over the base name starts where it should
end, and the extension gets the name's first three characters. A datagram is one
of the three kinds its readers tell apart; a name in a table is a sequence of
parts of which the field keeps the first; a board, a set of aliens or a screen is
the set or function of its cells; scores that are only printed are kept modulo a
bound.

## 3. Runs

| Run | Result | What it shows |
|---|---|---|
| `heap` | pass | Tiling, ownership, no short grant without overflow, an emptied heap is whole, merging coalesces and terminates, the contract is implemented. |
| `scheduler` | pass | No task is lost, round robin is implemented, every task runs again. |
| `scheduler_first_yield` | violation | A yield from outside a task overwrites task 0's frame; `task_current` is not what `include/scheduler.h:17` says. |
| `transport` | pass | Dead peers noticed in time, live ones not dropped early, only payloads the peer sent, whole, handed up, also out of frames with a damaged header. |
| `transport_reconnect` | violation | A session that went down never makes its first reconnect attempt. |
| `budget` | pass | Every region is charged the KB its holders need, counted without the code's rounding, and no charge passes a limit, under any order of calls with any handles. Three exceptions are part of the statement: what slots freed while evicted leave behind, sizes whose rounding wraps (charged 0), and the swap region after a stale handle has restored a free slot. |
| `storage` | pass | The last file written reads back across failures and power loss; the cache differs from the disk only after a failure; names stay unique while nothing fails. |
| `storage_clone` | violation | `mc_clone` cuts its own source to 512 bytes. |
| `party` | pass | Two hosts at once only while an announcement is on its way or was missed; a host's roster is exact. |
| `party_join` | violation | A host that polls a JOIN counts nobody. |
| `console` | pass | Everything `AsmOS` composes, see below. |
| `shell_games` | violation | The subcommands of `games` never reach their listing: `ksscanf` knows no field widths. |

`console` explores every component of `AsmOS` exhaustively for its bounds, with a
reset at any point. Its properties, by component:

| Property | Says |
|---|---|
| `SnakeWhole` | the body is connected and never on one cell twice, no snake bites its neck, food is off the body |
| `PongInPlay` | ball and paddles stay on the screen, and a ball never turns inside or behind a paddle |
| `TetrisSound` | the piece is inside the well and off the locked cells, no full row survives, every placed cell is on the board or in a cleared line |
| `InvadersHeld` | the fleet stays between the edges whichever columns are gone, score and victory match the kills, how far past the line an overlooked row can be |
| `RaceFair` | no spawn is dropped, distances stay, there is always a lane to survive in |
| `HistoryAgrees` | playtimes add up to the ticks, launches to the sessions, the last game is the last |
| `GraphicsSound` | no box is lost to the wrap of its coordinates; a line ends on its end and is never more than half a pixel off |
| `ConsoleShows` | the screen is the tail of what was written; the echo is what will be read, unless a backspace came at the left edge |
| `StreamSound` | no piece of a request reaches outside the caller's buffer, and one that is done had every byte handed to a transfer; what moved is the start of the file, chunk after chunk, whatever the offset; the chunks of a frame are the frame |
| `ShellSound` | no handler passes on a slot, colour, game or text outside its range; coherence does not wrap, the region is not overcharged |
| `BackupRestorable` | the name of a backup reported written leads to a file until it is deleted, and to the backup byte for byte until something else is written, across failed transfers, failed backups, deletes of other files and power failures |
| `TablesKeep` | the first profile of a name is what a load brings back, also when names are cut; a pairing is listed once per pair |
| `NetSound` | the ring refines `BoundedQueue`; every stream is free when no command runs |
| `WaitsEnd` | a game of invaders, however it is played, a network command without an answer and the wait for queued requests end. Not claimed: the synchronous reads and writes, which do not end, and the other games, which end when the player loses or leaves |

### Bounds

- `heap`: 64 bytes hold at most four blocks, enough for a used block between free
  ones and a merge of three; sizes 0, 1, 8, 20, 44, 126 hit the exact fit, the
  split boundary and the rest too small to split; `size_t` has 7 bits, so that
  126 wraps in `ALIGN` and 20 * 8 in `calloc`. A wrapped `calloc` or moving
  `realloc` that would run `memset`/`memcpy` past the pool is left out (`Exact`).
- `scheduler`: four slots and two register values; a register value is enough to
  tell a task's own registers from another's.
- `transport`: intervals of 2 ticks, 3 missed heartbeats and 3 attempts, a tick
  counter that wraps at 6; `Watch` caps the ghost clocks just above the largest
  bound a property mentions. `transport_reconnect` uses 64 ticks so that the
  wrap plays no part.
- `budget`: 2 bytes per KB, 4 bit words, sizes 0, 1, 3 and 15 (whose rounding
  wraps), two slots, one charge by other code, limits 0 (none) and 3; `MaxUsed`
  bounds a region's KB, here 5, below the wrap of `used_kb`, which 2^32 KB would
  need.
- `storage`: a directory of three sectors with one entry each, KERNEL.BIN in the
  first, three further names (one too many), files of at most two sectors.

- `party`: three interchangeable consoles (symmetry), adapters of two frames,
  rooms of two members, four party commands: enough for two creators and a third
  that hears both, for a full roster and for a host that creates again. A frame
  reaches any set of the other consoles, which covers loss on the wire and a full
  adapter. INVITE, LEAVE and CHAT are one kind of frame, as no receiver reacts to
  them; acknowledgements and ping requests are rejected on receipt and left out.
- `console`: each component has an instance of its own.
  Snake on 6 x 5 cells with a body of up to 6, long enough to enclose its head;
  `SnakeScores` is a common multiple of the inner sides because the score selects
  the next food cell. Pong on 24 x 22 with paddles of 6 and a key step of 4. Tetris on
  4 x 4 with up to two cleared lines, so that one lock can clear two: every kind of
  piece is spawned, but the well fills after a few, so games are short; long ones are
  left to the proof.
  Invaders with 2 x 2 aliens, so that either column or row can be gone first.
  Racing, and the screen of the demo, have the real sizes; the demo runs 2000
  frames with words of 16 bits, the line drawer all lines in a square of side 4.
  History has 3 games, 4 sessions and 7 ticks. The console is 2 x 2 with 5
  characters, enough to wrap, scroll and rub out across a row; the line buffer has
  4 bytes. The ring has 3 slots and a ping 2 tries. The pipeline has 2 entries,
  chunks of 2 bytes and requests of 0, 2 and 5 bytes, and a transfer moves any number
  of its bytes; a frame is 10 bytes in chunks of 3,
  so the last one is short. Tables have 3 slots and keep one part of a name, and two
  of the three names share it. The disk has 3 directory sectors of one entry; the
  two slots' names share theirs. Coherence runs from 12 to 14 and the application
  region takes two charges.
- `shell_games`: the lines of `MCShell`, every command and subcommand with and
  without arguments; numbers inside and outside their ranges and words that are none, with
  the values `ksscanf` reads from them as `Numeral`.

### Fairness

`MergeStep` is weakly fair because the loop runs to its end before `free`
returns. `TaskYield` is weakly fair because tasks are cooperative: the guarantee
that every task runs is conditional on each of them yielding, which is what the
scheduler asks of them. `AsmSpec` is weakly fair in three loops that do not block:
the tick of invaders, which each pass of `space_invaders_run` reaches whether or not
a key waits; the steps of a network command, whose receives return at once when
nothing arrived; and `stream_poll`, which `stream_wait` calls in a loop. No other
specification assumes fairness; no property of theirs needs it.

## 4. Findings

1. `src/scheduler.c:53`: the first `task_yield` outside a task stores the
   caller's stack pointer in task 0's slot, so that task 0 is never entered and
   `task_current` is wrong whenever the caller runs.
2. `src/transport.c:166`: while `reconnect_attempts` is 0, each tick moves the
   reconnect deadline on. The session stays down.
3. `src/memory_card.c:70`: the clone of a save longer than 512 bytes truncates
   the save itself, because `fat_normalize` (`platform/x86/hal_storage.c:22`)
   gives `SLOT0.SAV` and `SLOT1.SAV` one directory entry.
4. `src/party.c:120`: the host wants 16 bytes of address in a JOIN, `party_join`
   sends 7. Nobody who joins is ever counted.
5. `src/kernel.c:397`: `ksscanf` has no field widths, so a `%31s` scans nothing.
   `games`, `music`, `controller`, `saves`, `superpose`, `ftp`, `telnet` and `irc`
   print their usage whatever follows them.

Met while modelling, recorded as hazards: a single task that yields resumes its
own stale frame; acknowledgements carry a checksum their receiver rejects; the
charge of a slot freed while evicted is never returned, and a stale handle can restore
a freed slot, whose next free then gives back a charge that is somebody else's; a size
whose rounding up to KB wraps is charged 0; the checksum of a frame leaves its type and
length unprotected; all files share the
clusters of KERNEL.BIN, so a rollback after any later write returns what was written
later, and a backup that fails takes the place of the earlier one in `backup_name`; a backspace at the left edge of a wrapped line drops a
character that stays on the screen; a chunk of a pipeline's request is
read or written without its offset and without a look at the result, so that every
chunk is the start of the file and the request is done with error 0, where
`include/streaming.h:22-26,37` has an offset, an error and a chunked read; the
synchronous reads and writes, `async + wait` in `include/streaming.h:49`, never return;
a pipeline takes eight requests in its life; the bottom line of
invaders is held against one alien of the fleet; the charges of `observe` are never
given back; `net_shutdown` keeps the datagrams that wait. The scancode table gives
the bare space bar (0x39) no character and shifts the row z to m by one key.

## 5. Proofs

`MemoryManagerProofs` proves, for every pool size, word size and set of requests
that satisfies `PoolAssumption` (the pool is a multiple of the alignment and
addressable with room to spare):

- `HeapSafe`: `Spec => []HeapInv`. `HeapInv` is the conjunction of `TypeOK`,
  `Tiling`, `Aligned`, `Ownership`, `ShortOnlyOnWrap`, `MergedBehind` and
  `EmptyHeapIsWhole`. `Tiling` alone is not inductive: without alignment a split
  could leave a rest that no header fits, and without `Ownership` a free could
  name an address that is no header. `MergedBehind` (blocks the cursor has
  passed are coalesced) is what carries `EmptyHeapIsWhole` and `MergeCoalesces`
  through the merge loop.
- `HeapTyped`, `HeapTiled`, `HeapOwned`, `HeapGrantsEnough`, `HeapRestored`: its
  conjuncts, as the run `heap` checks them.
- `FreeCoalesces`: the action property `MergeCoalesces`.

The proof has lemmas on the operators (`AlignFacts`, `MarkKeepsShape`,
`SplitKeepsShape`, `TakeFacts`), one lemma per action, and combines them.

The module also proves `HeapImplementsContract`, `Spec =>
HeapContractHolds`, from `HeapInv`: under the invariant malloc and calloc are
`Acquire`, free is `Release`, realloc is `Shrink` or `Move`, and a step of the
merge loop leaves the holdings as they are. The argument rests on
`PointersApart`: pointers into a list that tiles the pool own disjoint bytes.

`SchedulerProofs` proves, for any number of slots and registers, and under the
two assumptions the violation run and the single-task hazard show to be needed
(only tasks yield; at least two tasks when one does):

- `TasksSurviveSwitches`: `Spec => []NoTaskLost`, from `SwitchInv`: the running
  context is the one `current_task` names, it is registered, and unused slots
  have computed nothing. `SchedulerTyped` is part of it.
- `SchedulerIsRoundRobin`: `Scheduler` implements `RoundRobin`.

`PartyProofs` proves, for any set of consoles, adapter size and number of
commands, `PartyTyped`, `RosterSafe` (`HostRosterExact`) and `RoomsConverge`
(`NoSplitRoom`). Both invariants are inductive together with `TypeOK`;
`RoomsConverge` follows the announcements: a create reaches or deafens every
other host (`CreateSplit`), a poll that takes one ends the host's own role
(`PollSplit`), and a ping that takes one marks the console (`PingSplit`).

`TransportProofs` proves, for every interval, number of attempts and width of the
tick counter, `SessionTyped`, `DeadPeersNoticed`, `LivePeersKept` and
`PayloadsWhole`. The bound on how long a silent peer is believed is not inductive:
`HeartClock` adds what the counters and the wrapped difference of ticks mean in terms
of the true silence, `silent`, and that the difference cannot have wrapped before the
session is given up (lemma `ModStep`: below the width, one tick more is one more).
The one assumption that matters is `HEARTBEAT_TICKS + MAX_MISSED < TickSize`.
For `PayloadsWhole`, `AcceptedWasSent` shows that the checksum alone ties the first
`len` bytes of `rx_buf` to a payload that was sent, whatever the header says: a damaged
length fails the check, a damaged type does not, and nothing is claimed of it.

`MemoryBudgetProofs` proves, for every number of slots, sizes and limits,
`BudgetTyped`, `BudgetBalanced` (`ChargesAccounted`) and the action property
`LimitsKept`. `ChargesAccounted` counts the KB that holders need one by one (`HeldKb`:
the k-th is needed when the k - 1 before it are too small); that the code's rounding
charges as many, except to sizes for which it wraps, is lemma `KbCounts`. An allocation
adds a disjoint set to what is held and a release removes one (`HeldAdd`,
`HeldRemove`). `BudgetInv` adds that the charges are finitely many, that no region is
past `MaxUsed`, so that `used_kb` has not wrapped, and that until a stale restore a
free slot has no memory (`FreeSlotsOwnNothing`), without which a second free of the
same slot would give back another holder's charge.

`FatStorageProofs` proves, for every number of sectors, entries, clusters and names,
`FatTyped`, `WritesReadBack` (`LatestReadsBack`), `CacheMatchesDisk` (`CacheOnDisk`)
and `OneEntryPerName` (`NamesUnique`). In `FatInv` the entry of the file written last
is tied to the cluster chain and the data it reads; the chain itself is the recursive
function `Chain`, and `ChainIsKernelChain` shows what it is. `Min` chooses the first
free entry; `MinIsLeast` gives the least element from the well-foundedness of the
naturals, because the library's induction rules cannot be applied.
New assumptions, all true of the disk layout: the last cluster is below the end mark,
no name normalises to the free mark or to KERNEL.BIN's entry, a sector that was not
read is no sector's contents.

`ConsoleProofs` and `GameProofs` prove the following of `AsmSpec`, each from an invariant about one
component and the fact that a step of the machine is a step of that component, a reset
or none:

`ConsoleProofs`:

- `BackupsAreKept` (`BackupRestorable`), from `FatInv` and `SavesKept`: the kept backup
  is named on the disk and in the cache (losing power between the two is why one of
  them is not enough), and while nothing was written since, disk and cache agree on the
  entries of its name (`Alike`) and the file they lead to is the backup. Steps that touch the
  directory alone keep the file (`QuietKeepsFile`, `DeleteKeepsFile`); steps that store
  keep the name (`StoreKeepsName`).
- `StreamsWhole` (`StreamSound`): the buffer pointer of a request is always at the start
  of a chunk, `at + left` is the length asked for, and what was handed to transfers is
  what lies before the pointer, also when the last piece is moved again
  (`AdvanceAccounted`). `FramesInv`: the
  chunks sent are the intervals up to the current one. `ChunksCover` is
  the rounding: `n` chunks of `P` bytes cover the frame and `n - 1` do not.
- `NetIsSound` (`NetSound`): `PushIsArrival` and `PopIsRead` show that `ring_push` and
  a pop are the steps of `BoundedQueue` under the mapping that unrolls the ring, for
  every number of slots; a receive that pushes and pops is a step of its own there.
  The streams come back because each script's position tells whether it holds one.
- `GraphicsAreSound` (`GraphicsSound`): after `p` steps along the long and `q` along
  the short axis, `err = long / 2 - p * short + q * long`, and it is in `0..long - 1`
  (`OnLine`). The half-pixel bound and the end on the last pixel follow. A box is on
  the screen, or past an edge with a speed that brings it back (`Bounces`).
- `TablesAlwaysKeep` (`TablesKeep`): the ghost record of a name agrees with the first
  row of that name (`FirstsKept`); removing a row is a bijection on the others'
  indices (`RemoveListed`).
- `ShellIsSound` (`ShellSound`): one lemma per handler; each makes at most one call
  besides an initialisation, and each guarded argument is in its range (`CallFit`),
  whatever integers the numerals stand for.
- `ConsoleAlwaysShows` (`ConsoleShows`): what is on the screen is the tail of the rows
  of the text, and the cursor is at the end of the last row. The rows are a recursive
  function of the text (`RowsExist`); one character more is one step more of it
  (`RowsGrow`), which is what a put, a scroll and a backspace are compared with.

`GameProofs`:

- `PongStaysInPlay` (`PongInPlay`): the parts of `pong_tick` in their order; what each
  leaves for the next. Behind a paddle's edge the ball only flies outward (`PongWay`).
- `InvadersAreHeld` (`InvadersHeld`): each living alien is between the edges and the
  march turns before the next step; score and victory follow the set of aliens.
- `SnakeStaysWhole` (`SnakeWhole`): in play the head is one step of `dir` ahead of the
  neck, which is what makes a refused turn back enough (`NoTurnBack`).
- `RaceStaysFair` (`RaceFair`): the obstacles are as old as their place in the table
  says: the newest is as far down as the ticks since the last spawn take it, and each
  one before it a spawn's distance further (`RaceKept`). So the ones that leave are a
  prefix, the table is never full, and at most `RACE_LANES - 1` obstacles, all in
  different lanes, are beside the car at a time.
- `TetrisStaysSound` (`TetrisSound`): `ClearOf` says what the row loop leaves: no full
  row, and `TETRIS_W` cells less for each one it found. One pass removes the lowest
  full row (`DropRow`, by a bijection of the cells that stay) and leaves one full row
  less (`FullDropped`, by one of the full rows).
- `HistoryAlwaysAgrees` (`HistoryAgrees`): the playtimes add up to the tick at which
  the running session started, or to all ticks at the prompt; adding to one entry, or
  appending one, adds that much to the total (`TotalGrows`, `TotalAppended`). Each game
  has one entry, so a game without one finds room (`EntryFits`).

What a recursive function computes is shown here without an induction rule: were a
fact false of some length, cell count or row, it would be false of a least one
(`MinIsLeast`), and the step before it contradicts that. `RowsExist`, `ClearsExist` and
`SumsExist` show first, in the same way, that the recursions have a solution.

Assumptions on the sizes, true of the code's values: pong's serve lies between paddles
and walls and the computer's step is no longer than the key's; the fleet of invaders
starts above the player; the five boxes of the demo start on the screen; the images of
a backup and of a snapshot are files; the words of a line are not empty (`next_word`
skips blanks); an obstacle of the race fits in a lane beside the car, four of them
reach past the screen (4 * 60 > 225) and two spawns are further apart than car and
obstacle are long (2 * 60 > 60); the well has two rows at least, which an I piece
reaches when it starts; the table of the history is no shorter than `games[]`.

**Only model-checked.** Liveness (`MergeTerminates`, `EveryTaskRuns`,
`WaitsEnd`): fairness and `ENABLED` are out of the prover's reach. Every other
property of a passing run is stated by a theorem.

## 6. What could follow

Models worth adding: the phase and entanglement of `src/quantum`, once something
reads them; the main loop's two calls of `transport_tick` per pass over `Transport`
itself.

## 7. Not modelled

- Device access: the ATA driver, timers, speaker, port I/O, the NE2000 registers,
  video modes and palette. `FatStorage` takes a sector transfer, `Datagrams` a frame
  on the wire, as a step that may fail or bring nothing.
- Drawing without state: circles, fonts, what the games paint. Formatting:
  `kprintf`, status lines, the debug console.
- Music, LEDs, dashboard and hardware status only print or set a device register;
  the playlist cannot be reached on x86, because `music` hears no argument
  (finding 5).
- Of `src/quantum`, profiles, entanglement, eigenmode and phase: nothing else
  reads what they keep.
- `transport_send_batch` and the swap codec have no caller. Other functions
  without one are modelled as the interface they are: `network_controller.c`,
  `net_shutdown`, the stream pipeline, the capture of frames, `controller_map_set`,
  the pause compatibility table.
- In `Shell`, a word that begins with the digit a width is compared with.
- `src/fat12.c` and `src/block_dev.c` belong to an alternate loader that is not
  linked; the PS2 layer forwards to the SDK, and its scheduler to nested calls; the
  boot chain runs once, and the image it finds is `FatStorage`'s initial state.

`PROJECT.json` lists every part with its status.
