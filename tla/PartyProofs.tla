----------------------------- MODULE PartyProofs ------------------------------
(***************************************************************************)
(* Rooms stay consistent for any number of consoles, any adapter size and  *)
(* any commands.                                                           *)
(***************************************************************************)
EXTENDS Party, TLAPS

(* Taking the first k elements of a sequence moves the others forward.     *)
LEMMA DropFacts ==
  ASSUME NEW S, NEW s \in Seq(S), NEW k \in 1..Len(s)
  PROVE  /\ SubSeq(s, k + 1, Len(s)) \in Seq(S)
         /\ Len(SubSeq(s, k + 1, Len(s))) = Len(s) - k
         /\ \A j \in 1..(Len(s) - k) : SubSeq(s, k + 1, Len(s))[j] = s[j + k]
  OBVIOUS

LEMMA TailFacts ==
  ASSUME NEW S, NEW s \in Seq(S), s # <<>>
  PROVE  /\ Tail(s) \in Seq(S) /\ Len(s) > 0 /\ Len(Tail(s)) = Len(s) - 1
         /\ \A j \in 1..(Len(s) - 1) : Tail(s)[j] = s[j + 1]
  OBVIOUS

(* The frames the commands send are frames.                                *)
LEMMA TypeFrames ==
  ASSUME NEW n \in Name \cup {NoName}
  PROVE  RoomInfo(n, 1) \in Frame /\ Join \in Frame /\ Notice \in Frame
  BY PartyAssumption DEF RoomInfo, Join, Notice, Frame

(* A broadcast appends one frame at the consoles that hear it.             *)
LEMMA BroadcastFacts ==
  ASSUME TypeOK, NEW f \in Frame, NEW heard \in SUBSET Console, Broadcast(f, heard)
  PROVE  /\ wire' \in [Console -> Seq(Frame)]
         /\ \A c \in Console : Hears(c) => Hears(c)'
         /\ \A c \in heard : Announces(f) => Hears(c)'
<1>1. \A c \in Console : wire[c] \in Seq(Frame) /\ Append(wire[c], f) \in Seq(Frame)
  BY DEF TypeOK
<1>2. wire' \in [Console -> Seq(Frame)]
  BY <1>1 DEF Broadcast
<1>3. ASSUME NEW c \in Console, NEW i \in 1..Len(wire[c]), Announces(wire[c][i])
      PROVE  Hears(c)'
  <2>1. i \in 1..Len(wire'[c]) /\ wire'[c][i] = wire[c][i]
    BY <1>1, <1>3 DEF Broadcast
  <2>2. QED
    BY <1>3, <2>1 DEF Hears, Announces
<1>4. ASSUME NEW c \in heard, Announces(f) PROVE Hears(c)'
  <2>1. /\ Len(wire[c]) + 1 \in 1..Len(wire'[c])
        /\ wire'[c][Len(wire[c]) + 1] = f
    BY <1>1 DEF Broadcast
  <2>2. QED
    BY <1>4, <2>1 DEF Hears, Announces
<1>5. QED
  BY <1>2, <1>3, <1>4 DEF Hears

(* Frames that are not an announcement can be taken without a trace.       *)
LEMMA PollKeepsAnnouncement ==
  ASSUME TypeOK, NEW c \in Console, wire[c] # <<>>, ~Announces(Head(wire[c])),
         wire' = [wire EXCEPT ![c] = Tail(@)]
  PROVE  \A d \in Console : Hears(d) => Hears(d)'
<1>1. wire[c] \in Seq(Frame) /\ wire'[c] = Tail(wire[c])
  BY DEF TypeOK
<1>2. ASSUME NEW i \in 1..Len(wire[c]), Announces(wire[c][i]) PROVE Hears(c)'
  <2>1. i # 1
    <3>1. Head(wire[c]) = wire[c][1]
      BY <1>1
    <3>2. QED
      BY <1>2, <3>1
  <2>2. i - 1 \in 1..Len(wire'[c]) /\ wire'[c][i - 1] = wire[c][i]
    <3>1. /\ Len(Tail(wire[c])) = Len(wire[c]) - 1 /\ Len(wire[c]) \in Nat
          /\ \A j \in 1..(Len(wire[c]) - 1) : Tail(wire[c])[j] = wire[c][j + 1]
      BY <1>1, TailFacts
    <3>2. i - 1 \in 1..(Len(wire[c]) - 1) /\ (i - 1) + 1 = i
      BY <2>1, <3>1
    <3>3. QED
      BY <1>1, <3>1, <3>2
  <2>3. QED
    BY <1>2, <2>2 DEF Hears, Announces
<1>3. ASSUME NEW d \in Console, d # c, Hears(d) PROVE Hears(d)'
  BY <1>3 DEF Hears, Announces, TypeOK
<1>4. QED
  BY <1>2, <1>3 DEF Hears

LEMMA InitTyped == Init => TypeOK
  BY PartyAssumption DEF Init, TypeOK

(* Filling in the next entry keeps the roster inside its array.            *)
LEMMA AddMemberTyped ==
  ASSUME TypeOK, NEW c \in Console, count[c] < MEMBER_MAX, AddMember(c)
  PROVE  /\ count' \in [Console -> 0..MEMBER_MAX]
         /\ active' \in [Console -> SUBSET (0..(MEMBER_MAX - 1))]
  BY PartyAssumption DEF TypeOK, AddMember

LEMMA PollTyped ==
  ASSUME TypeOK, NEW c \in Console, PartyPoll(c)
  PROVE  /\ host' \subseteq Console /\ in_room' \subseteq Console
         /\ count' \in [Console -> 0..MEMBER_MAX]
         /\ active' \in [Console -> SUBSET (0..(MEMBER_MAX - 1))]
         /\ name' \in [Console -> Name \cup {NoName}]
         /\ wire' \in [Console -> Seq(Frame)]
<1>1. CASE UNCHANGED <<room, wire>>
  BY <1>1 DEF TypeOK, room
<1>2. CASE wire[c] # <<>> /\ wire' = [wire EXCEPT ![c] = Tail(@)]
  <2> DEFINE f == Head(wire[c])
  <2>1. wire[c] \in Seq(Frame) /\ Tail(wire[c]) \in Seq(Frame) /\ f \in Frame
    BY <1>2 DEF TypeOK
  <2>2. wire' \in [Console -> Seq(Frame)]
    BY <1>2, <2>1 DEF TypeOK
  <2> HIDE DEF f
  <2>3. CASE f.type = "ROOM_INFO" /\ HandleRoomInfo(c, f)
    <3>1. f.name \in Name \cup {NoName} /\ f.count \in 0..MEMBER_MAX
      BY <2>1, <2>3, PartyAssumption DEF Frame
    <3>2. QED
      BY <2>2, <2>3, <3>1 DEF TypeOK, HandleRoomInfo
  <2>4. CASE HandleJoin(c, f)
    BY <2>2, <2>4, AddMemberTyped DEF TypeOK, HandleJoin
  <2>5. CASE UNCHANGED room
    BY <2>2, <2>5 DEF TypeOK, room
  <2>6. QED
    BY <1>2, <2>3, <2>4, <2>5 DEF PartyPoll, f
<1>3. QED
  BY <1>1, <1>2 DEF PartyPoll

LEMMA NextTyped == TypeOK /\ [Next]_vars => TypeOK'
<1> SUFFICES ASSUME TypeOK, [Next]_vars PROVE TypeOK'
  OBVIOUS
<1>1. ASSUME NEW c \in Console, Command(c)
      PROVE  up' \subseteq Console /\ prompt' \subseteq Console /\ typed' \in Nat
  BY <1>1 DEF Command, TypeOK
<1>2. ASSUME NEW c \in Console, NEW f \in Frame,
             \E heard \in SUBSET Reachable(c) : Broadcast(f, heard)
      PROVE  wire' \in [Console -> Seq(Frame)]
  BY <1>2, BroadcastFacts DEF Reachable
<1>3. ASSUME NEW c \in Console, Tick(c) PROVE TypeOK'
  BY <1>3, PollTyped DEF Tick, TypeOK, room
<1>4. ASSUME NEW c \in Console, Ping(c) PROVE TypeOK'
  <2>1. wire' \in [Console -> Seq(Frame)]
    <3>1. PICK k \in 1..Len(wire[c]) :
                 wire' = [wire EXCEPT ![c] = SubSeq(@, k + 1, Len(@))]
      BY <1>4 DEF Ping
    <3>2. wire[c] \in Seq(Frame) /\ SubSeq(wire[c], k + 1, Len(wire[c])) \in Seq(Frame)
      BY DEF TypeOK
    <3>3. QED
      BY <3>1, <3>2 DEF TypeOK
  <2>2. deaf' \subseteq Console
    BY <1>4 DEF Ping, TypeOK
  <2>3. QED
    BY <1>4, <2>1, <2>2 DEF Ping, TypeOK, room
<1>5. ASSUME NEW c \in Console, OtherCommand(c) PROVE TypeOK'
  BY <1>5 DEF OtherCommand, TypeOK, room
<1>6. ASSUME NEW c \in Console, NEW n \in Name \cup {NoName}, PartyCreate(c, n)
      PROVE  TypeOK'
  <2>1. wire' \in [Console -> Seq(Frame)] /\ deaf' \subseteq Console
    BY <1>2, <1>6, TypeFrames DEF PartyCreate, TypeOK
  <2>2. /\ count' \in [Console -> 0..MEMBER_MAX]
        /\ active' \in [Console -> SUBSET (0..(MEMBER_MAX - 1))]
        /\ name' \in [Console -> Name \cup {NoName}]
    BY <1>6, PartyAssumption DEF PartyCreate, TypeOK
  <2>3. QED
    BY <1>1, <1>6, <2>1, <2>2 DEF PartyCreate, TypeOK
<1>7. ASSUME NEW c \in Console, PartyInvite(c) PROVE TypeOK'
  <2>1. CASE MayInvite(c) /\ AddMember(c)
             /\ \E heard \in SUBSET Reachable(c) : Broadcast(Notice, heard)
    BY <1>1, <1>2, <1>7, <2>1, TypeFrames, AddMemberTyped
       DEF PartyInvite, MayInvite, TypeOK
  <2>2. CASE UNCHANGED <<count, active, wire>>
    BY <1>1, <1>7, <2>2 DEF PartyInvite, TypeOK
  <2>3. QED
    BY <1>7, <2>1, <2>2 DEF PartyInvite
<1>8. ASSUME NEW c \in Console, PartyJoin(c) PROVE TypeOK'
  BY <1>1, <1>2, <1>8, TypeFrames, PartyAssumption DEF PartyJoin, TypeOK
<1>9. ASSUME NEW c \in Console, PartyLeave(c) PROVE TypeOK'
  BY <1>1, <1>2, <1>9, TypeFrames, PartyAssumption DEF PartyLeave, TypeOK
<1>10. ASSUME NEW c \in Console, PartyChat(c) PROVE TypeOK'
  BY <1>1, <1>2, <1>10, TypeFrames DEF PartyChat, TypeOK, room
<1>11. ASSUME NEW c \in Console, PartyList(c) PROVE TypeOK'
  BY <1>1, <1>11, PollTyped DEF PartyList, TypeOK
<1>12. CASE UNCHANGED vars
  BY <1>12 DEF vars, TypeOK
<1>13. QED
  BY <1>3, <1>4, <1>5, <1>6, <1>7, <1>8, <1>9, <1>10, <1>11, <1>12 DEF Next

(* Type correctness: the roster never leaves its array.                    *)
THEOREM PartyTyped == Spec => []TypeOK
<1>1. QED
  BY InitTyped, NextTyped, PTL DEF Spec
-------------------------------------------------------------------------------
LEMMA InitRoster == Init => HostRosterExact
  BY DEF Init, HostRosterExact

(* A host that fills in its next entry still has a roster without gaps.    *)
LEMMA AddMemberRoster ==
  ASSUME TypeOK, HostRosterExact, NEW c \in Console, AddMember(c), c \in host,
         UNCHANGED <<host, in_room>>
  PROVE  HostRosterExact'
<1>1. ASSUME NEW d \in host
      PROVE  d \in in_room /\ count'[d] > 0 /\ active'[d] = 0..(count'[d] - 1)
  <2>1. /\ d \in Console /\ d \in in_room /\ count[d] > 0 /\ count[d] \in Nat
        /\ active[d] = 0..(count[d] - 1)
    BY PartyAssumption DEF TypeOK, HostRosterExact
  <2>2. CASE d = c
    <3>1. count'[d] = count[d] + 1 /\ active'[d] = active[d] \cup {count[d]}
      BY <2>1, <2>2 DEF AddMember, TypeOK
    <3>2. (0..(count[d] - 1)) \cup {count[d]} = 0..((count[d] + 1) - 1)
      BY <2>1
    <3>3. QED
      BY <2>1, <3>1, <3>2
  <2>3. CASE d # c
    BY <2>1, <2>3 DEF AddMember, TypeOK
  <2>4. QED
    BY <2>2, <2>3
<1>2. QED
  BY <1>1 DEF HostRosterExact

LEMMA PollRoster ==
  ASSUME TypeOK, HostRosterExact, NEW c \in Console, PartyPoll(c)
  PROVE  HostRosterExact'
<1> DEFINE f == Head(wire[c])
<1> HIDE DEF f
<1>1. CASE UNCHANGED room
  BY <1>1 DEF HostRosterExact, room
<1>2. CASE HandleRoomInfo(c, f)
  BY <1>2 DEF HandleRoomInfo, HostRosterExact, TypeOK
<1>3. CASE HandleJoin(c, f)
  <2>1. CASE UNCHANGED <<count, active>>
    BY <1>3, <2>1 DEF HandleJoin, HostRosterExact
  <2>2. QED
    BY <1>3, <2>1, AddMemberRoster DEF HandleJoin
<1>4. QED
  BY <1>1, <1>2, <1>3 DEF PartyPoll, f, room

LEMMA NextRoster == TypeOK /\ HostRosterExact /\ [Next]_vars => HostRosterExact'
<1> SUFFICES ASSUME TypeOK, HostRosterExact, [Next]_vars PROVE HostRosterExact'
  OBVIOUS
<1>1. ASSUME UNCHANGED room PROVE HostRosterExact'
  BY <1>1 DEF HostRosterExact, room
<1>2. ASSUME NEW c \in Console, Tick(c) PROVE HostRosterExact'
  BY <1>1, <1>2, PollRoster DEF Tick
<1>3. ASSUME NEW c \in Console, NEW n, PartyCreate(c, n) PROVE HostRosterExact'
  <2>1. 0..(1 - 1) = {0}
    OBVIOUS
  <2>2. /\ host' = host \cup {c} /\ in_room' = in_room \cup {c}
        /\ count'[c] = 1 /\ active'[c] = 0..(count'[c] - 1)
        /\ \A d \in host \ {c} : count'[d] = count[d] /\ active'[d] = active[d]
    BY <1>3, <2>1 DEF PartyCreate, TypeOK
  <2>3. ASSUME NEW d \in host'
        PROVE  d \in in_room' /\ count'[d] > 0 /\ active'[d] = 0..(count'[d] - 1)
    <3>1. CASE d = c
      <4>1. d \in in_room' /\ count'[d] = 1 /\ active'[d] = 0..(count'[d] - 1)
        BY <2>2, <3>1, Zenon
      <4>2. QED
        BY <4>1
    <3>2. CASE d # c
      BY <2>2, <3>2 DEF HostRosterExact
    <3>3. QED
      BY <3>1, <3>2
  <2>4. QED
    BY <2>3 DEF HostRosterExact
<1>4. ASSUME NEW c \in Console, PartyInvite(c) PROVE HostRosterExact'
  <2>1. CASE MayInvite(c) /\ AddMember(c)
    BY <1>4, <2>1, AddMemberRoster DEF PartyInvite, MayInvite
  <2>2. CASE UNCHANGED <<count, active>>
    BY <1>4, <2>2 DEF PartyInvite, HostRosterExact
  <2>3. QED
    BY <1>4, <2>1, <2>2 DEF PartyInvite
<1>5. ASSUME NEW c \in Console, PartyJoin(c) PROVE HostRosterExact'
  BY <1>5 DEF PartyJoin, HostRosterExact, TypeOK
<1>6. ASSUME NEW c \in Console, PartyLeave(c) PROVE HostRosterExact'
  BY <1>6 DEF PartyLeave, HostRosterExact, TypeOK
<1>7. ASSUME NEW c \in Console, PartyList(c) PROVE HostRosterExact'
  BY <1>7, PollRoster DEF PartyList
<1>8. ASSUME NEW c \in Console, Ping(c) \/ OtherCommand(c) \/ PartyChat(c)
      PROVE  HostRosterExact'
  BY <1>1, <1>8 DEF Ping, OtherCommand, PartyChat
<1>9. CASE UNCHANGED vars
  BY <1>1, <1>9 DEF vars, room
<1>10. QED
  BY <1>2, <1>3, <1>4, <1>5, <1>6, <1>7, <1>8, <1>9 DEF Next

(* A host's roster is exact, whatever rooms it created, joined or left.    *)
THEOREM RosterSafe == Spec => []HostRosterExact
<1>1. QED
  BY InitRoster, NextRoster, PartyTyped, PTL DEF Spec
-------------------------------------------------------------------------------
(* Knows(c): c missed an announcement or will hear one.                    *)
Knows(c) == c \in deaf \/ Hears(c)

LEMMA InitSplit == Init => NoSplitRoom
  BY DEF Init, NoSplitRoom

(* A step that makes no host, and after which the hosts that knew of       *)
(* another room still do, splits no room.                                  *)
LEMMA SplitKept ==
  ASSUME NoSplitRoom, host' \subseteq host,
         \A d \in host' : Knows(d) => Knows(d)'
  PROVE  NoSplitRoom'
  BY DEF NoSplitRoom, Knows

(* party_poll: a host that handles an announcement is no host any more, no *)
(* other frame is an announcement.                                         *)
LEMMA PollSplit ==
  ASSUME TypeOK, NoSplitRoom, NEW c \in Console, PartyPoll(c), UNCHANGED deaf
  PROVE  NoSplitRoom'
<1> DEFINE f == Head(wire[c])
<1>1. CASE UNCHANGED <<room, wire>>
  BY <1>1, SplitKept DEF room, Knows, Hears
<1>2. CASE /\ wire[c] # <<>> /\ wire' = [wire EXCEPT ![c] = Tail(@)]
           /\ f.type = "ROOM_INFO" /\ HandleRoomInfo(c, f)
  <2>1. host' = host \ {c}
    BY <1>2 DEF HandleRoomInfo
  <2>2. \A d \in host' : wire'[d] = wire[d]
    BY <1>2, <2>1 DEF TypeOK
  <2>3. \A d \in host' : Knows(d) => Knows(d)'
    BY <2>2 DEF Knows, Hears, Announces
  <2>4. QED
    BY <2>1, <2>3, SplitKept
<1>3. CASE /\ wire[c] # <<>> /\ wire' = [wire EXCEPT ![c] = Tail(@)]
           /\ f.type # "ROOM_INFO" /\ UNCHANGED host
  <2>1. ~Announces(Head(wire[c]))
    BY <1>3 DEF Announces
  <2>2. \A d \in Console : Hears(d) => Hears(d)'
    BY <1>3, <2>1, PollKeepsAnnouncement
  <2>3. QED
    BY <1>3, <2>2, SplitKept DEF TypeOK, Knows
<1>4. QED
  BY <1>1, <1>2, <1>3 DEF PartyPoll, HandleJoin, room

(* ping: an announcement that it throws away leaves its mark in deaf.      *)
LEMMA PingSplit ==
  ASSUME TypeOK, NoSplitRoom, NEW c \in Console, Ping(c)
  PROVE  NoSplitRoom'
<1>1. PICK k \in 1..Len(wire[c]) :
        /\ wire' = [wire EXCEPT ![c] = SubSeq(@, k + 1, Len(@))]
        /\ deaf' = IF \E i \in 1..k : Announces(wire[c][i]) THEN deaf \cup {c} ELSE deaf
  BY DEF Ping
<1>2. wire[c] \in Seq(Frame) /\ wire'[c] = SubSeq(wire[c], k + 1, Len(wire[c]))
  BY <1>1 DEF TypeOK
<1>3. ASSUME NEW i \in 1..Len(wire[c]), Announces(wire[c][i]) PROVE Knows(c)'
  <2>1. CASE i <= k
    BY <1>1, <1>3, <2>1 DEF Knows
  <2>2. CASE i > k
    <3>1. Len(wire[c]) \in Nat /\ k \in Nat
      BY <1>2
    <3>2. i - k \in 1..(Len(wire[c]) - k) /\ (i - k) + k = i
      BY <2>2, <3>1
    <3>3. i - k \in 1..Len(wire'[c]) /\ wire'[c][i - k] = wire[c][i]
      BY <1>2, <3>2, DropFacts
    <3>4. QED
      BY <1>3, <3>3 DEF Knows, Hears, Announces
  <2>3. QED
    BY <1>2, <2>1, <2>2
<1>4. ASSUME NEW d \in host, d # c PROVE Knows(d) => Knows(d)'
  <2>1. wire'[d] = wire[d]
    BY <1>1, <1>4 DEF TypeOK
  <2>2. QED
    BY <1>1, <2>1 DEF Knows, Hears, Announces
<1>5. Knows(c) => Knows(c)'
  BY <1>1, <1>3 DEF Knows, Hears
<1>6. QED
  BY <1>4, <1>5, SplitKept DEF Ping, room

(* party_create: every other host hears of the new room, or misses it.     *)
LEMMA CreateSplit ==
  ASSUME TypeOK, NoSplitRoom, NEW c \in Console, NEW n \in Name \cup {NoName},
         PartyCreate(c, n)
  PROVE  NoSplitRoom'
<1>1. PICK heard \in SUBSET Reachable(c) :
        /\ Broadcast(RoomInfo(n, 1), heard)
        /\ deaf' = (deaf \cup (Console \ heard)) \ {c}
  BY DEF PartyCreate
<1>2. /\ \A d \in Console : Hears(d) => Hears(d)'
      /\ \A d \in heard : Hears(d)'
  <2>1. heard \in SUBSET Console /\ RoomInfo(n, 1) \in Frame
    BY <1>1, TypeFrames DEF Reachable
  <2>2. Announces(RoomInfo(n, 1))
    BY DEF Announces, RoomInfo
  <2>3. QED
    BY <1>1, <2>1, <2>2, BroadcastFacts
<1>3. ASSUME NEW d \in host', d # c PROVE Knows(d)'
  BY <1>1, <1>2, <1>3 DEF Knows, PartyCreate, TypeOK
<1>4. QED
  BY <1>3 DEF NoSplitRoom, Knows

LEMMA NextSplit == TypeOK /\ NoSplitRoom /\ [Next]_vars => NoSplitRoom'
<1> SUFFICES ASSUME TypeOK, NoSplitRoom, [Next]_vars PROVE NoSplitRoom'
  OBVIOUS
<1>1. ASSUME UNCHANGED <<host, wire, deaf>> PROVE NoSplitRoom'
  BY <1>1 DEF NoSplitRoom, Hears, Announces
<1>2. ASSUME NEW c \in Console, NEW f \in Frame, host' \subseteq host, UNCHANGED deaf,
             \E heard \in SUBSET Reachable(c) : Broadcast(f, heard)
      PROVE  NoSplitRoom'
  <2>1. \A d \in Console : Hears(d) => Hears(d)'
    BY <1>2, BroadcastFacts DEF Reachable
  <2>2. QED
    BY <1>2, <2>1, SplitKept DEF Knows, TypeOK
<1>3. ASSUME NEW c \in Console, Tick(c) PROVE NoSplitRoom'
  BY <1>1, <1>3, PollSplit DEF Tick, room
<1>4. ASSUME NEW c \in Console, PartyList(c) PROVE NoSplitRoom'
  BY <1>4, PollSplit DEF PartyList
<1>5. ASSUME NEW c \in Console, PartyInvite(c) PROVE NoSplitRoom'
  BY <1>1, <1>2, <1>5, TypeFrames DEF PartyInvite
<1>6. ASSUME NEW c \in Console, PartyJoin(c) \/ PartyLeave(c) PROVE NoSplitRoom'
  BY <1>2, <1>6, TypeFrames DEF PartyJoin, PartyLeave
<1>7. ASSUME NEW c \in Console, PartyChat(c) PROVE NoSplitRoom'
  BY <1>1, <1>2, <1>7, TypeFrames DEF PartyChat, room
<1>8. ASSUME NEW c \in Console, OtherCommand(c) PROVE NoSplitRoom'
  BY <1>1, <1>8 DEF OtherCommand, room
<1>9. CASE UNCHANGED vars
  BY <1>1, <1>9 DEF vars
<1>10. QED
  BY <1>3, <1>4, <1>5, <1>6, <1>7, <1>8, <1>9, PingSplit, CreateSplit DEF Next

(* Two hosts at once always means an announcement on its way or missed,    *)
(* for any number of consoles.                                             *)
THEOREM RoomsConverge == Spec => []NoSplitRoom
<1>1. QED
  BY InitSplit, NextSplit, PartyTyped, PTL DEF Spec
===============================================================================
