------------------------------- MODULE MCShell -------------------------------
(* Lines for the shell: every command, every subcommand with and without    *)
(* its arguments, numbers inside, outside and on the edges of their ranges. *)
EXTENDS Shell

Subs == {
  <<"mc", {"list", "mount", "export", "clone", "repair", "eject"}>>,
  <<"led", {"set", "pulse", "rgb", "dim"}>>,
  <<"party", {"create", "invite", "list", "join", "leave", "chat"}>>,
  <<"stream", {"start", "stop", "status", "quality"}>>,
  <<"bt", {"scan", "pair", "unpair", "list"}>>,
  <<"ctrlprofile", {"create", "load", "list"}>>,
  <<"games", {"history", "stats", "last"}>>,
  <<"music", {"play", "background", "playlist"}>>,
  <<"controller", {"profile", "sensitivity", "deadzone", "turbo"}>>,
  <<"saves", {"list", "backup", "restore", "clone", "rollback"}>> }

MCNumeral == [w \in {"1", "2", "3", "999", "-5", "0"} |->
                CASE w = "1" -> 1 [] w = "2" -> 2 [] w = "3" -> 3 [] w = "999" -> 999
                  [] w = "-5" -> -5 [] w = "0" -> 0]
Numbers == DOMAIN MCNumeral
Plain == {"ls", "clear", "ctrlmap", "network", "demo", "sound", "graphics", "timer",
          "exit", "reboot", "frobnicate"}
OneWord == {"observe", "collapse", "superpose", "ftp", "telnet", "irc", "ping", "entangle", "game"}

MCLines ==
  {<<>>} \cup {<<c>> : c \in Plain \cup OneWord}
    \cup {<<c, "x">> : c \in OneWord} \cup {<<c, w>> : c \in {"entangle", "game"}, w \in Numbers}
    \cup UNION {{<<s[1]>>} \cup {<<s[1], sub>> : sub \in s[2]}
                  \cup {<<s[1], sub, w>> : sub \in s[2], w \in {"x"}} : s \in Subs}
    \cup {<<"mc", sub, w, v>> : sub \in {"mount", "clone"}, w \in Numbers, v \in {"1", "999"}}
    \cup {<<"led", "rgb", w>> : w \in Numbers}
    \cup {<<"stream", "quality", w>> : w \in Numbers}
    \cup {<<"controller", "profile", "save", "x">>, <<"music", "playlist", "add", "x">>}
===============================================================================
