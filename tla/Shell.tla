---------------------------------- MODULE Shell ----------------------------------
(***************************************************************************)
(* The shell of shell.c on x86: one line per pass of start_shell, cut into *)
(* words, handed to one handler, which calls the other components.  A      *)
(* handler is modelled by the calls it makes; what it prints is left out.  *)
(* The pass itself ticks the subsystems of registry.c, of which the model  *)
(* keeps the quantum state that `observe' works against.  Words fit their  *)
(* buffers and stand one blank apart.                                      *)
(***************************************************************************)
EXTENDS Integers, Sequences

CONSTANTS
  Lines,                            \* lines a user may type: sequences of words
  Numeral,                          \* words that start as a number -> their value
  COHERENCE_START, COHERENCE_MAX,   \* 200 and 255
  APP_BUDGET                        \* the application region in units of 256 KB

ASSUME ShellAssumption ==
  /\ {COHERENCE_START, COHERENCE_MAX, APP_BUDGET} \subseteq Nat
  /\ 10 < COHERENCE_START /\ COHERENCE_START <= COHERENCE_MAX
  /\ \A w \in DOMAIN Numeral : Numeral[w] \in Int
  /\ \A words \in Lines : words \in Seq(STRING) /\ \A i \in 1..Len(words) : words[i] # ""

VARIABLE shell    \* last line, the calls it made, and the state of quantum/observer.c

Nothing == <<>>                      \* only prints: a usage text, a status, a list
Call(name, arg) == <<<<name, arg>>>>
Do(name) == <<<<name, "">>>>
Word(words, i) == IF i <= Len(words) THEN words[i] ELSE ""     \* next_word

(* ksscanf for formats of %s alone.  A conversion with a width is none it  *)
(* knows: the first digit is passed over and the next compared with the    *)
(* input, which ends the scan.  What is not scanned stays empty.           *)
ksscanf(words, format) ==
  [i \in DOMAIN format |->
     IF \A j \in 1..i : format[j] = "%s" THEN Word(words, i) ELSE ""]

(* ksscanf with "%d": nothing is stored for an empty word, 0 for one that  *)
(* starts neither with a digit nor with a sign and a digit.                *)
scan_d(word, default) ==
  IF word = "" THEN default ELSE IF word \in DOMAIN Numeral THEN Numeral[word] ELSE 0

Byte(v) == IF v < 0 THEN 0 ELSE IF v > 255 THEN 255 ELSE v
-------------------------------------------------------------------------------
(* The handlers: what each one calls for the words behind the command.     *)

BadMcSlot(word) == scan_d(word, 0) <= 2     \* 0 is not a slot

(* The slots the user names are 1 and 2.                                   *)
McSlot(word) == scan_d(word, 0) \in 1..2

cmd_mc(a) ==
  LET sub == Word(a, 1) IN
  CASE sub = "list" -> Do("fat12_list_files")
    [] sub = "mount" /\ McSlot(Word(a, 2)) -> Call("mc_mount", scan_d(Word(a, 2), 0) - 1)
    [] sub = "export" /\ Word(a, 2) # "" -> Call("mc_export", Word(a, 2))
    [] sub = "clone" /\ McSlot(Word(a, 2)) /\ McSlot(Word(a, 3)) ->
         Call("mc_clone", scan_d(Word(a, 2), 0) - 1)
    [] sub = "repair" -> Do("mc_repair")
    [] OTHER -> Nothing

(* "%u" is no conversion of ksscanf: the period of a pulse stays 0.        *)
cmd_led(a) ==
  LET sub == Word(a, 1) IN
  CASE sub = "set" /\ Word(a, 2) # "" -> Call("led_set", Word(a, 2))
    [] sub = "pulse" -> Call("led_pulse", 0)
    [] sub = "rgb" -> Call("led_rgb", Byte(scan_d(Word(a, 2), 0)))
    [] OTHER -> Nothing

cmd_party(a) ==
  LET sub == Word(a, 1) IN
  IF sub = "" THEN Nothing
  ELSE Do("party_init") \o
       CASE sub = "create" -> Call("party_create", Word(a, 2))
         [] sub = "invite" /\ Word(a, 2) # "" -> Call("party_invite", Word(a, 2))
         [] sub = "join" -> Call("party_join", Word(a, 2))
         [] sub = "leave" -> Do("party_leave")
         [] sub = "chat" /\ Word(a, 2) # "" -> Call("party_chat", Word(a, 2))
         [] OTHER -> Nothing

cmd_stream(a) ==
  LET sub == Word(a, 1) IN
  IF sub = "" THEN Nothing
  ELSE Do("streaming_init") \o
       CASE sub = "start" /\ Word(a, 2) # "" -> Call("streaming_start", Word(a, 2))
         [] sub = "stop" -> Do("streaming_stop")
         [] sub = "quality" -> Call("streaming_set_quality", scan_d(Word(a, 2), 1))
         [] OTHER -> Nothing

cmd_bt(a) ==
  LET sub == Word(a, 1) IN
  IF sub = "" THEN Nothing
  ELSE Do("bt_init") \o
       CASE sub = "scan" -> Do("bt_scan")
         [] sub = "pair" -> Call("bt_pair", IF Word(a, 2) = "" THEN "00:11:22:33:44:55" ELSE Word(a, 2))
         [] sub = "unpair" /\ Word(a, 2) # "" -> Call("bt_unpair", Word(a, 2))
         [] OTHER -> Nothing

cmd_ctrlprofile(a) ==
  LET sub == Word(a, 1) IN
  IF sub = "" THEN Nothing
  ELSE Do("bt_init") \o
       CASE sub = "create" /\ Word(a, 2) # "" -> Call("bt_controller_profile_create", Word(a, 2))
         [] sub = "load" /\ Word(a, 2) # "" -> Call("bt_controller_profile_load", Word(a, 2))
         [] OTHER -> Nothing

cmd_games(a) ==
  LET sub == ksscanf(a, <<"%31s">>)[1] IN
  CASE sub = "history" -> Do("game_history_print_history")
    [] sub = "stats" -> Do("game_history_print_stats")
    [] sub = "last" -> Do("game_history_print_last")
    [] OTHER -> Nothing

cmd_music(a) ==
  LET in == ksscanf(a, <<"%31s", "%63s", "%63s">>) IN
  CASE in[1] = "play" -> Call("music_play", in[2])
    [] in[1] = "background" /\ in[2] \in {"on", "off"} -> Call("music_background", in[2])
    [] in[1] = "playlist" /\ in[2] = "add" /\ in[3] # "" -> Call("music_add_to_playlist", in[3])
    [] in[1] = "playlist" /\ in[2] = "clear" -> Do("music_playlist_clear")
    [] OTHER -> Nothing

cmd_controller(a) ==
  LET in == ksscanf(a, <<"%31s", "%23s", "%23s">>) IN
  CASE in[1] = "profile" /\ in[2] = "save" /\ in[3] # "" -> Call("controller_profile_save", in[3])
    [] in[1] = "profile" /\ in[2] \in {"load", "apply"} /\ in[3] # "" ->
         Call("controller_profile_load", in[3])
    [] in[1] = "sensitivity" /\ in[2] # "" -> Call("controller_set_sensitivity", scan_d(in[2], 128))
    [] in[1] = "deadzone" /\ in[2] # "" -> Call("controller_set_deadzone", scan_d(in[2], 32))
    [] in[1] = "turbo" /\ in[2] # "" -> Call("controller_set_turbo", in[2])
    [] OTHER -> Nothing

cmd_saves(a) ==
  LET in == ksscanf(a, <<"%31s", "%31s", "%31s">>) IN
  CASE in[1] = "list" -> Do("save_manager_list")
    [] in[1] = "backup" ->
         Call("save_manager_backup", IF in[3] # "" THEN in[3] ELSE IF in[2] # "" THEN in[2] ELSE "backup")
    [] in[1] = "restore" -> Call("save_manager_restore", IF in[3] # "" THEN in[3] ELSE "backup")
    [] in[1] = "clone" /\ in[2] # "" /\ in[3] # "" -> Call("save_manager_clone", scan_d(in[2], 0))
    [] in[1] = "rollback" /\ in[2] # "" /\ in[3] # "" -> Call("save_manager_rollback", scan_d(in[3], 0))
    [] OTHER -> Nothing

cmd_superpose(a) ==
  LET in == ksscanf(a, <<"%23s", "%23s">>) IN
  IF in[1] = "" \/ in[2] = "" THEN Nothing ELSE Call("quantum_superpose", in[1])

(* cmd_ftp, cmd_telnet and cmd_irc *)
cmd_client(client, a) ==
  LET host == ksscanf(a, <<"%63s">>)[1] IN
  IF host = "" THEN Nothing ELSE Call(client, host)

cmd_observe(a) == IF a = <<>> THEN Nothing ELSE Call("quantum_observe", a[1])
cmd_collapse(a) == IF a = <<>> THEN Nothing ELSE Call("quantum_collapse", a[1])
cmd_ping(a) == IF a = <<>> THEN Nothing ELSE Call("plat_net_ping", a[1])
cmd_entangle(a) == Call("quantum_entangle_input", scan_d(Word(a, 1), 0))
cmd_game(a) ==
  IF scan_d(Word(a, 1), -1) >= 1 THEN Call("launch_game", scan_d(Word(a, 1), -1) - 1) ELSE Nothing
cmd_network == Do("plat_net_init") \o Do("net_init")
cmd_demo == Do("init_graphics_demo") \o Do("run_graphics_demo")
-------------------------------------------------------------------------------
(* commands[]: the handlers that call something; the others only print.    *)
Handler(cmd, a) ==
  CASE cmd = "ls" -> Do("fat12_list_files")
    [] cmd = "mc" -> cmd_mc(a) [] cmd = "led" -> cmd_led(a) [] cmd = "party" -> cmd_party(a)
    [] cmd = "stream" -> cmd_stream(a) [] cmd = "bt" -> cmd_bt(a)
    [] cmd = "ctrlmap" -> Do("bt_init") [] cmd = "ctrlprofile" -> cmd_ctrlprofile(a)
    [] cmd = "games" -> cmd_games(a) [] cmd = "music" -> cmd_music(a)
    [] cmd = "controller" -> cmd_controller(a) [] cmd = "saves" -> cmd_saves(a)
    [] cmd = "superpose" -> cmd_superpose(a) [] cmd \in {"ftp", "telnet", "irc"} -> cmd_client(cmd, a)
    [] cmd = "observe" -> cmd_observe(a) [] cmd = "collapse" -> cmd_collapse(a)
    [] cmd = "ping" -> cmd_ping(a) [] cmd = "entangle" -> cmd_entangle(a)
    [] cmd = "game" -> cmd_game(a) [] cmd = "network" -> cmd_network [] cmd = "demo" -> cmd_demo
    [] cmd = "sound" -> Do("sys_sound_init") [] cmd = "graphics" -> Do("sys_graphics_init")
    [] cmd = "timer" -> Do("sys_timer_init") [] cmd = "clear" -> Do("clear_screen")
    [] OTHER -> Nothing

(* quantum_init, called by subsys_init_all.                                *)
ShellStart == [line |-> <<>>, calls |-> Nothing, coherence |-> COHERENCE_START, charged |-> 0]
ShellInit == shell = ShellStart

(* quantum_tick, called by subsys_tick_all before each prompt.             *)
quantum_tick(c) == IF c < COHERENCE_MAX THEN c + 1 ELSE c

BadObserved(c) == IF c > 3 THEN c - 5 ELSE c    \* the guard lets it go below 0

(* What quantum_observe takes off.                                         *)
Observed(c) == IF c > 10 THEN c - 5 ELSE c

(* A line as its command and what follows; an empty line has neither.      *)
parse_cmd_args(line) ==
  IF line = <<>> THEN [cmd |-> "", args |-> <<>>] ELSE [cmd |-> Head(line), args |-> Tail(line)]

(* quantum_observe charges the application region and never gives it back; *)
(* a charge that is refused is not noticed.                                *)
Pass(line) ==
  /\ parse_cmd_args(line).cmd \notin {"exit", "reboot"}
  /\ LET in == parse_cmd_args(line)
         calls == Handler(in.cmd, in.args)
         ticked == quantum_tick(shell.coherence)
         observes == \E i \in DOMAIN calls : calls[i][1] = "quantum_observe" IN
     shell' = [line |-> line, calls |-> calls,
               coherence |-> IF observes THEN Observed(ticked) ELSE ticked,
               charged |-> IF observes /\ shell.charged < APP_BUDGET THEN shell.charged + 1
                           ELSE shell.charged]

(* exit and reboot both end in system_reboot, which starts from nothing.   *)
Leave(line) == parse_cmd_args(line).cmd \in {"exit", "reboot"} /\ shell' = ShellStart

start_shell ==
  \E line \in Lines : Leave(line) \/ Pass(line)

ShellSpec == ShellInit /\ [][start_shell]_shell
-------------------------------------------------------------------------------
(* Calls that take a name, an address or a text, and are not made without. *)
WithText == {"mc_export", "led_set", "party_invite", "party_chat", "streaming_start",
             "bt_pair", "bt_unpair", "bt_controller_profile_create",
             "bt_controller_profile_load", "quantum_observe", "quantum_collapse",
             "plat_net_ping", "save_manager_backup", "save_manager_restore"}

(* Whatever is typed, no handler passes on a card slot other than the two, *)
(* a colour outside a byte, a negative game, or an empty text where one is *)
(* needed; and however often `observe' is typed between ticks, coherence   *)
(* never runs below 6, where the unsigned byte would wrap to full, and the *)
(* application region is never charged past its budget.                    *)
ShellSound ==
  /\ \A i \in DOMAIN shell.calls :
       LET name == shell.calls[i][1]
           arg == shell.calls[i][2] IN
       /\ name \in {"mc_mount", "mc_clone"} => arg \in 0..1
       /\ name = "led_rgb" => arg \in 0..255
       /\ name = "launch_game" => arg >= 0
       /\ name \in WithText => arg # ""
  /\ shell.coherence \in 6..COHERENCE_MAX
  /\ shell.charged <= APP_BUDGET

(* "Game history (history|stats|last)": the three subcommands of `games'   *)
(* that the command table names make the history print.                    *)
SubcommandHeard ==
  /\ shell.line = <<"games", "history">> => shell.calls = Do("game_history_print_history")
  /\ shell.line = <<"games", "stats">> => shell.calls = Do("game_history_print_stats")
  /\ shell.line = <<"games", "last">> => shell.calls = Do("game_history_print_last")
===============================================================================
