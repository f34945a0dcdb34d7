-------------------------------- MODULE Party ---------------------------------
(***************************************************************************)
(* The party rooms of src/party.c, on consoles that share one broadcast    *)
(* network.  Each console runs the shell's loop: tick every subsystem,     *)
(* which polls the party once, then run the command the user typed.  A     *)
(* frame sent by one console reaches any set of the others that have room  *)
(* in their receive buffer.  Frames that no party code reacts to (INVITE,  *)
(* LEAVE and CHAT) are one kind, NOTICE; the acknowledgements of transport *)
(* are left out, as their receivers reject them.                           *)
(***************************************************************************)
EXTENDS Integers, Sequences

CONSTANTS
  Console,       \* the consoles of the network
  Name,          \* room names a user types
  NoName,        \* the empty room name
  MEMBER_MAX,    \* PARTY_MEMBER_MAX
  NicSlots,      \* frames the network adapter holds
  MaxCommands    \* bound on the party commands typed

IP_STR_MAX == 16   \* PARTY_IP_STR_MAX
JoinLen == 7       \* the length party_join gives for "0.0.0.0"

ASSUME PartyAssumption ==
  /\ MEMBER_MAX \in Nat \ {0} /\ NicSlots \in Nat /\ MaxCommands \in Nat
  /\ NoName \notin Name

VARIABLES
  up,        \* consoles with party_initialized
  host,      \* consoles with room.is_host
  in_room,   \* consoles with room.in_room
  count,     \* room.member_count
  active,    \* the entries of room.members that are marked active
  name,      \* room.name
  wire,      \* frames that wait in each console's network adapter
  prompt,    \* consoles that have ticked and wait for a command
  typed,     \* party commands typed so far
  deaf       \* ghost: consoles that missed a ROOM_INFO since their last create

room == <<host, in_room, count, active, name>>
vars == <<up, host, in_room, count, active, name, wire, prompt, typed, deaf>>

Frame == [type : {"ROOM_INFO"}, name : Name \cup {NoName}, count : 1..MEMBER_MAX]
           \cup [type : {"JOIN"}, len : {JoinLen}]
           \cup [type : {"NOTICE"}]

RoomInfo(n, k) == [type |-> "ROOM_INFO", name |-> n, count |-> k]
Join == [type |-> "JOIN", len |-> JoinLen]
Notice == [type |-> "NOTICE"]
-------------------------------------------------------------------------------
(* clear_room at boot; party_init repeats it before the first command.     *)
Init ==
  /\ up = {} /\ host = {} /\ in_room = {}
  /\ count = [c \in Console |-> 0]
  /\ active = [c \in Console |-> {}]
  /\ name = [c \in Console |-> NoName]
  /\ wire = [c \in Console |-> <<>>]
  /\ prompt = {} /\ typed = 0 /\ deaf = {}

(* Consoles other than c whose adapter has room for one more frame.        *)
Reachable(c) == {d \in Console \ {c} : Len(wire[d]) < NicSlots}

(* send_party_msg: the frame reaches the consoles in heard.                *)
Broadcast(f, heard) ==
  wire' = [d \in Console |-> IF d \in heard THEN Append(wire[d], f) ELSE wire[d]]

(* A party command: the shell calls party_init first, so no operation ever *)
(* meets its !party_initialized return.                                    *)
Command(c) ==
  /\ c \in prompt /\ typed < MaxCommands
  /\ prompt' = prompt \ {c} /\ typed' = typed + 1
  /\ up' = up \cup {c}

BadPartyCreate(c, n) ==   \* keeps the members of the previous room
  /\ Command(c)
  /\ host' = host \cup {c} /\ in_room' = in_room \cup {c}
  /\ count' = [count EXCEPT ![c] = 1]
  /\ active' = [active EXCEPT ![c] = @ \cup {0}]
  /\ name' = [name EXCEPT ![c] = n]
  /\ \E heard \in SUBSET Reachable(c) :
       Broadcast(RoomInfo(n, 1), heard) /\ deaf' = (deaf \cup (Console \ heard)) \ {c}

(* party_create: host of a new room of one, announced to everybody.        *)
PartyCreate(c, n) ==
  /\ Command(c)
  /\ host' = host \cup {c} /\ in_room' = in_room \cup {c}
  /\ count' = [count EXCEPT ![c] = 1]
  /\ active' = [active EXCEPT ![c] = {0}]
  /\ name' = [name EXCEPT ![c] = n]
  /\ \E heard \in SUBSET Reachable(c) :
       /\ Broadcast(RoomInfo(n, 1), heard)
       /\ deaf' = (deaf \cup (Console \ heard)) \ {c}

(* The next entry of room.members is filled in.                            *)
AddMember(c) ==
  /\ count' = [count EXCEPT ![c] = @ + 1]
  /\ active' = [active EXCEPT ![c] = @ \cup {count[c]}]

BadMayInvite(c) == c \in in_room \cap host   \* does not ask for a free entry

(* The early returns of party_invite.                                      *)
MayInvite(c) == c \in in_room \cap host /\ count[c] < MEMBER_MAX

PartyInvite(c) ==
  /\ Command(c)
  /\ \/ /\ MayInvite(c)
        /\ AddMember(c)
        /\ \E heard \in SUBSET Reachable(c) : Broadcast(Notice, heard)
     \/ /\ ~MayInvite(c)
        /\ UNCHANGED <<count, active, wire>>
  /\ UNCHANGED <<host, in_room, name, deaf>>

(* party_join: a room of one that is not hosted here, and a JOIN frame.    *)
PartyJoin(c) ==
  /\ Command(c)
  /\ host' = host \ {c} /\ in_room' = in_room \cup {c}
  /\ count' = [count EXCEPT ![c] = 1]
  /\ active' = [active EXCEPT ![c] = {0}]
  /\ name' = [name EXCEPT ![c] = NoName]
  /\ \E heard \in SUBSET Reachable(c) : Broadcast(Join, heard)
  /\ UNCHANGED deaf

PartyLeave(c) ==
  /\ Command(c)
  /\ \E heard \in SUBSET Reachable(c) : Broadcast(Notice, heard)
  /\ host' = host \ {c} /\ in_room' = in_room \ {c}
  /\ count' = [count EXCEPT ![c] = 0]
  /\ active' = [active EXCEPT ![c] = {}]
  /\ name' = [name EXCEPT ![c] = NoName]
  /\ UNCHANGED deaf

PartyChat(c) ==
  /\ Command(c)
  /\ IF c \in in_room
       THEN \E heard \in SUBSET Reachable(c) : Broadcast(Notice, heard)
       ELSE UNCHANGED wire
  /\ UNCHANGED <<room, deaf>>

BadHandleRoomInfo(c, f) ==   \* a host stays host of the room it hears of
  /\ name' = [name EXCEPT ![c] = f.name]
  /\ count' = [count EXCEPT ![c] = f.count]
  /\ in_room' = in_room \cup {c}
  /\ UNCHANGED <<host, active>>

(* handle_room_info: whoever hears of a room is in it and is not its host; *)
(* the members of the room it was in stay marked.                          *)
HandleRoomInfo(c, f) ==
  /\ name' = [name EXCEPT ![c] = f.name]
  /\ count' = [count EXCEPT ![c] = f.count]
  /\ host' = host \ {c} /\ in_room' = in_room \cup {c}
  /\ UNCHANGED active

(* The JOIN case of party_handle_received.                                 *)
HandleJoin(c, f) ==
  /\ IF c \in host /\ f.len >= IP_STR_MAX /\ count[c] < MEMBER_MAX
       THEN AddMember(c)
       ELSE UNCHANGED <<count, active>>
  /\ UNCHANGED <<host, in_room, name>>

(* party_poll: one frame is taken from the adapter and handled.            *)
PartyPoll(c) ==
  \/ /\ wire[c] = <<>>
     /\ UNCHANGED <<room, wire>>
  \/ /\ wire[c] # <<>>
     /\ wire' = [wire EXCEPT ![c] = Tail(@)]
     /\ LET f == Head(wire[c]) IN
        \/ f.type = "ROOM_INFO" /\ HandleRoomInfo(c, f)
        \/ f.type = "JOIN" /\ HandleJoin(c, f)
        \/ f.type = "NOTICE" /\ UNCHANGED room

PartyList(c) == Command(c) /\ PartyPoll(c) /\ UNCHANGED deaf

(* subsys_tick_all, at the head of the shell's loop.                       *)
Tick(c) ==
  /\ c \notin prompt
  /\ prompt' = prompt \cup {c}
  /\ IF c \in up THEN PartyPoll(c) ELSE UNCHANGED <<room, wire>>
  /\ UNCHANGED <<up, typed, deaf>>

Announces(f) == f.type = "ROOM_INFO"
Hears(c) == \E i \in 1..Len(wire[c]) : Announces(wire[c][i])

(* ping reads the same adapter as the party, and throws away what is not   *)
(* its reply; any other command leaves the party alone.                    *)
Ping(c) ==
  /\ c \in prompt /\ prompt' = prompt \ {c}
  /\ \E k \in 1..Len(wire[c]) :
       /\ wire' = [wire EXCEPT ![c] = SubSeq(@, k + 1, Len(@))]
       /\ deaf' = IF \E i \in 1..k : Announces(wire[c][i]) THEN deaf \cup {c} ELSE deaf
  /\ UNCHANGED <<up, typed, room>>

OtherCommand(c) ==
  /\ c \in prompt /\ prompt' = prompt \ {c}
  /\ UNCHANGED <<up, typed, room, wire, deaf>>

Next ==
  \E c \in Console :
    \/ Tick(c) \/ Ping(c) \/ OtherCommand(c)
    \/ \E n \in Name \cup {NoName} : PartyCreate(c, n)
    \/ PartyInvite(c) \/ PartyJoin(c) \/ PartyLeave(c)
    \/ PartyChat(c) \/ PartyList(c)

Spec == Init /\ [][Next]_vars
-------------------------------------------------------------------------------
TypeOK ==
  /\ up \subseteq Console /\ host \subseteq Console /\ in_room \subseteq Console
  /\ count \in [Console -> 0..MEMBER_MAX]
  /\ active \in [Console -> SUBSET (0..(MEMBER_MAX - 1))]
  /\ name \in [Console -> Name \cup {NoName}]
  /\ wire \in [Console -> Seq(Frame)]
  /\ prompt \subseteq Console /\ deaf \subseteq Console
  /\ typed \in Nat

(* Two consoles take themselves for the host only while one of them has    *)
(* yet to handle a ROOM_INFO or has missed one since its last create: the  *)
(* consoles that hear everything end up with at most one host.             *)
NoSplitRoom ==
  \A c, d \in host : c # d => \E e \in {c, d} : e \in deaf \/ Hears(e)

(* The roster of a host has no gap and no left-over of an earlier room,    *)
(* whatever rooms it was in: entries 0 to member_count - 1 are active.     *)
HostRosterExact ==
  \A c \in host : c \in in_room /\ count[c] > 0 /\ active[c] = 0..(count[c] - 1)

(* party.h says that party_join joins a room: a host with a free entry     *)
(* that polls a JOIN counts one member more.                               *)
PollsJoin(c) == Tick(c) /\ c \in up /\ wire[c] # <<>> /\ Head(wire[c]) = Join
JoinsAreCounted ==
  [][\A c \in host : PollsJoin(c) /\ count[c] < MEMBER_MAX
                       => count'[c] = count[c] + 1]_vars
===============================================================================
