--------------------------- MODULE TransportProofs ----------------------------
(***************************************************************************)
(* The session of src/transport.c keeps its promises about silence and     *)
(* payloads for every choice of intervals, limits and counter width that   *)
(* TransportAssumption allows.                                             *)
(***************************************************************************)
EXTENDS Transport, TLAPS

(* The distance of two readings of the wrapping tick counter.              *)
LEMMA ModNear ==
  ASSUME NEW n \in Nat \ {0}, NEW d \in Int, -n <= d, d < n
  PROVE  d % n = IF d < 0 THEN d + n ELSE d
<1>1. CASE d >= 0
  BY <1>1
<1>2. CASE d < 0
  <2>1. d = (-1) * n + (d + n) /\ d + n \in 0..(n - 1)
    BY <1>2
  <2>2. QED
    BY <1>2, <2>1
<1>3. QED
  BY <1>1, <1>2

LEMMA ModStep ==
  ASSUME NEW n \in Nat \ {0}, NEW t \in 0..(n - 1), NEW l \in 0..(n - 1),
         ((t - l) % n) + 1 < n
  PROVE  /\ (t + 1) % n \in 0..(n - 1)
         /\ (((t + 1) % n) - l) % n = ((t - l) % n) + 1
<1>1. (t - l) % n = IF t - l < 0 THEN t - l + n ELSE t - l
  <2>1. t - l \in Int /\ -n <= t - l /\ t - l < n
    OBVIOUS
  <2>2. QED
    BY <2>1, ModNear
<1>2. CASE t + 1 < n
  <2>1. (t + 1) % n = t + 1
    BY <1>2
  <2>2. t + 1 - l \in Int /\ -n <= t + 1 - l /\ t + 1 - l < n
    BY <1>1, <1>2
  <2>3. (t + 1 - l) % n = IF t + 1 - l < 0 THEN t + 1 - l + n ELSE t + 1 - l
    BY <2>2, ModNear
  <2>4. QED
    BY <1>1, <1>2, <2>1, <2>3
<1>3. CASE t + 1 = n
  <2>1. (t + 1) % n = 0
    BY <1>3
  <2>2. 0 - l \in Int /\ -n <= 0 - l /\ 0 - l < n
    OBVIOUS
  <2>3. (0 - l) % n = IF 0 - l < 0 THEN 0 - l + n ELSE 0 - l
    BY <2>2, ModNear
  <2>4. QED
    BY <1>1, <1>3, <2>1, <2>3
<1>4. QED
  BY <1>2, <1>3
-------------------------------------------------------------------------------
(* What a connected session knows: `silent' is the distance of ticks from  *)
(* last_heartbeat_ticks, which has not wrapped, and heartbeat_missed is    *)
(* what is left of it beyond the interval.  A session that is shut down is *)
(* not connected.                                                          *)
HeartClock ==
  connected =>
    /\ initialized
    /\ silent < HEARTBEAT_TICKS + MAX_MISSED - 1
    /\ (ticks - last) % TickSize = silent
    /\ missed = IF silent < HEARTBEAT_TICKS THEN 0 ELSE silent - HEARTBEAT_TICKS + 1

SessionInv == TypeOK /\ HeartClock

(* The assumptions and the types as facts the steps below cite.            *)
LEMMA Numbers ==
  /\ HEARTBEAT_TICKS \in Nat /\ HEARTBEAT_TICKS >= 1
  /\ RECONNECT_TICKS \in Nat /\ RECONNECT_TICKS >= 1
  /\ MAX_MISSED \in Nat /\ MAX_MISSED >= 1
  /\ MAX_ATTEMPTS \in Nat /\ MAX_ATTEMPTS >= 1
  /\ BackoffAfter \in Nat
  /\ TickSize \in Nat \ {0} /\ HEARTBEAT_TICKS + MAX_MISSED < TickSize
  /\ Watch \in Nat /\ HEARTBEAT_TICKS + MAX_MISSED < Watch
BY TransportAssumption

LEMMA LaterTick ==
  ASSUME ticks \in Tick, NEW k \in Nat
  PROVE  Later(k) \in Tick
<1>1. TickSize \in Nat \ {0} /\ ticks \in Nat
  BY Numbers DEF Tick
<1>2. ticks + k \in Nat
  BY <1>1
<1>3. QED
  BY <1>1, <1>2 DEF Later, Tick

LEMMA AgeRange ==
  ASSUME NEW c \in 0..Watch
  PROVE  Age(c) \in 0..Watch /\ (c < Watch => Age(c) = c + 1)
BY Numbers DEF Age

(* No distance at all after a wrap to the same reading.                    *)
LEMMA ModZero ==
  ASSUME NEW t \in Tick
  PROVE  (t - t) % TickSize = 0
BY Numbers DEF Tick

LEMMA SessionStarts == Init => SessionInv
<1> SUFFICES ASSUME Init PROVE SessionInv
  OBVIOUS
<1>1. TypeOK
  <2>1. initialized \in BOOLEAN /\ connected \in BOOLEAN /\ rx \in Payload
    BY DEF Init
  <2>2. ticks = 0 /\ last = 0 /\ next = 0 /\ missed = 0 /\ attempts = 0 /\ silent = 0 /\ down = 0
    BY DEF Init
  <2>3. QED
    BY <2>1, <2>2, Numbers DEF TypeOK, Tick
<1>2. HeartClock
  BY DEF Init, HeartClock
<1>3. QED
  BY <1>1, <1>2 DEF SessionInv

LEMMA InitKeepsSession == SessionInv /\ TransportInit => SessionInv'
<1> SUFFICES ASSUME SessionInv, TransportInit PROVE SessionInv'
  OBVIOUS
<1>1. CASE UNCHANGED vars
  BY <1>1 DEF SessionInv, TypeOK, HeartClock, vars
<1>2. CASE ~initialized /\ initialized'
  <2>1. /\ initialized' \in BOOLEAN /\ connected' \in BOOLEAN
        /\ UNCHANGED <<next, attempts, rx>>
    BY <1>2 DEF TransportInit, vars
  <2>2. silent' = 0 /\ missed' = 0 /\ ticks' = 0 /\ last' = 0 /\ down' = 0
    BY <1>2 DEF TransportInit, vars
  <2>3. 0 \in Tick
    BY Numbers DEF Tick
  <2>4. (ticks' - last') % TickSize = 0
    BY <2>2, <2>3, ModZero
  <2>5. HeartClock'
    BY <1>2, <2>2, <2>4, Numbers DEF HeartClock
  <2>6. TypeOK'
    BY <2>1, <2>2, <2>3, Numbers DEF SessionInv, TypeOK
  <2>7. QED
    BY <2>5, <2>6 DEF SessionInv
<1>3. QED
  BY <1>1, <1>2 DEF TransportInit

LEMMA ReceiveKeepsSession ==
  ASSUME SessionInv, NEW f \in PeerFrames \cup Damaged, NEW cut \in BOOLEAN,
         NEW fits \in BOOLEAN, TransportReceive(f, cut, fits)
  PROVE  SessionInv'
<1>1. f.data = Nothing \/ f.data \in Payload
  BY DEF PeerFrames, Damaged, Sent
<1>2. Copied(f, cut) \in Payload
  BY <1>1 DEF Copied, SessionInv, TypeOK, Payload
<1>3. /\ rx' = Copied(f, cut)
      /\ UNCHANGED <<initialized, ticks, connected, next, attempts, down>>
  BY DEF TransportReceive, retry, session
<1>4. CASE UNCHANGED <<session, out, silent>>
  BY <1>2, <1>3, <1>4 DEF SessionInv, TypeOK, HeartClock, session
<1>5. CASE last' = ticks /\ missed' = 0 /\ silent' = 0
  <2>1. TypeOK'
    BY <1>2, <1>3, <1>5, Numbers DEF SessionInv, TypeOK
  <2>2. (ticks' - last') % TickSize = 0
    BY <1>3, <1>5, ModZero DEF SessionInv, TypeOK
  <2>3. HeartClock'
    BY <1>3, <1>5, <2>2, Numbers DEF SessionInv, HeartClock
  <2>4. QED
    BY <2>1, <2>3 DEF SessionInv
<1>6. QED
  BY <1>4, <1>5 DEF TransportReceive

(* The ghost clock and the tick counter advance together.                  *)
LEMMA ConnectedTick ==
  ASSUME SessionInv, TransportTick, connected
  PROVE  /\ ticks' = Later(1) /\ ticks' \in Tick /\ last' = last
         /\ silent' = silent + 1
         /\ (ticks' - last') % TickSize = silent'
<1>1. /\ silent \in Nat /\ silent < HEARTBEAT_TICKS + MAX_MISSED - 1
      /\ (ticks - last) % TickSize = silent
      /\ ticks \in Tick /\ last \in Tick /\ silent \in 0..Watch
  BY DEF SessionInv, HeartClock, TypeOK
<1>2. ticks' = Later(1) /\ last' = last /\ silent' = Age(silent)
  BY DEF TransportTick
<1>3. silent' = silent + 1
  BY <1>1, <1>2, AgeRange, Numbers
<1>4. ((ticks - last) % TickSize) + 1 < TickSize
  BY <1>1, Numbers
<1>5. /\ (ticks + 1) % TickSize \in Tick
      /\ (((ticks + 1) % TickSize) - last) % TickSize = ((ticks - last) % TickSize) + 1
  BY <1>1, <1>4, ModStep, Numbers DEF Tick
<1>6. QED
  BY <1>1, <1>2, <1>3, <1>5 DEF Later

LEMMA TickKeepsSession == SessionInv /\ TransportTick => SessionInv'
<1> SUFFICES ASSUME SessionInv, TransportTick PROVE SessionInv'
  OBVIOUS
<1>1. /\ initialized' = initialized /\ initialized /\ rx' = rx
      /\ ticks' = Later(1) /\ Later(1) \in Tick
      /\ initialized \in BOOLEAN /\ rx \in Payload
      /\ missed \in 0..MAX_MISSED /\ attempts \in 0..MAX_ATTEMPTS
      /\ last \in Tick /\ next \in Tick /\ silent \in 0..Watch /\ down \in 0..Watch
  BY LaterTick DEF TransportTick, SessionInv, TypeOK
<1>2. CASE connected
  <2>1. /\ silent' = silent + 1 /\ (ticks' - last') % TickSize = silent'
        /\ last' = last /\ next' = next /\ attempts' = attempts /\ down' = down
        /\ (Later(1) - last) % TickSize = silent'
    BY <1>1, <1>2, ConnectedTick DEF TransportTick, retry
  <2>2. /\ silent \in Nat /\ silent < HEARTBEAT_TICKS + MAX_MISSED - 1
        /\ missed = IF silent < HEARTBEAT_TICKS THEN 0 ELSE silent - HEARTBEAT_TICKS + 1
    BY <1>1, <1>2 DEF SessionInv, HeartClock
  <2>3. silent' \in 0..Watch
    BY <2>1, <2>2, Numbers
  <2>4. CASE HeartbeatTick(Later(1))
    <3>1. /\ silent' >= HEARTBEAT_TICKS /\ missed' = missed + 1
          /\ connected' = (missed + 1 < MAX_MISSED)
      BY <2>1, <2>4 DEF HeartbeatTick
    <3>2. missed' = silent' - HEARTBEAT_TICKS + 1 /\ missed' \in 0..MAX_MISSED
      BY <2>1, <2>2, <3>1, Numbers
    <3>3. connected' \in BOOLEAN
      BY <3>1
    <3>4. TypeOK'
      BY <1>1, <2>1, <2>3, <3>2, <3>3 DEF TypeOK
    <3>5. connected' => missed' < MAX_MISSED
      BY <3>1
    <3>6. HeartClock'
      BY <1>1, <2>1, <2>2, <3>1, <3>2, <3>5, Numbers DEF HeartClock
    <3>7. QED
      BY <3>4, <3>6 DEF SessionInv
  <2>5. CASE QuietTick(Later(1))
    <3>1. silent' < HEARTBEAT_TICKS /\ missed' = missed /\ connected' = connected
      BY <2>1, <2>5 DEF QuietTick
    <3>2. TypeOK'
      BY <1>1, <2>1, <2>3, <3>1 DEF SessionInv, TypeOK
    <3>3. HeartClock'
      BY <1>1, <2>1, <2>2, <3>1, Numbers DEF HeartClock
    <3>4. QED
      BY <3>2, <3>3 DEF SessionInv
  <2>6. QED
    BY <1>2, <2>4, <2>5 DEF TransportTick
<1>3. CASE ~connected
  <2> DEFINE due == IF attempts = 0 THEN Later(1 + RECONNECT_TICKS) ELSE next
             wait == RECONNECT_TICKS * (IF attempts + 1 > BackoffAfter THEN 2 ELSE 1)
  <2>1. ReconnectTick(Later(1))
    BY <1>3 DEF TransportTick
  <2>2. due \in Tick
    <3>1. 1 + RECONNECT_TICKS \in Nat
      BY Numbers
    <3>2. QED
      BY <1>1, <3>1, LaterTick DEF SessionInv, TypeOK
  <2>3. CASE /\ attempts < MAX_ATTEMPTS /\ attempts' = attempts + 1
             /\ connected' = TRUE /\ missed' = 0 /\ last' = Later(1)
             /\ next' = Later(1 + wait)
             /\ silent' = 0 /\ down' = 0
    <3>1. 1 + wait \in Nat
      BY Numbers
    <3>2. next' \in Tick
      BY <2>3, <3>1, LaterTick DEF SessionInv, TypeOK
    <3>3. TypeOK'
      BY <1>1, <2>3, <3>2, Numbers DEF TypeOK
    <3>4. (ticks' - last') % TickSize = 0
      BY <1>1, <2>3, ModZero
    <3>5. HeartClock'
      BY <1>1, <2>3, <3>4, Numbers DEF HeartClock
    <3>6. QED
      BY <3>3, <3>5 DEF SessionInv
  <2>4. CASE /\ next' = due /\ silent' = Age(silent) /\ down' = Age(down)
             /\ UNCHANGED <<session, attempts>>
    <3>1. Age(silent) \in 0..Watch /\ Age(down) \in 0..Watch
      BY <1>1, AgeRange
    <3>2. TypeOK'
      BY <1>1, <2>2, <2>4, <3>1 DEF SessionInv, TypeOK, session
    <3>3. HeartClock'
      BY <1>3, <2>4 DEF HeartClock, session
    <3>4. QED
      BY <3>2, <3>3 DEF SessionInv
  <2>5. QED
    BY <2>1, <2>3, <2>4 DEF ReconnectTick
<1>4. QED
  BY <1>2, <1>3

LEMMA NextKeepsSession == SessionInv /\ [Next]_vars => SessionInv'
<1> SUFFICES ASSUME SessionInv, [Next]_vars PROVE SessionInv'
  OBVIOUS
<1>1. CASE TransportInit
  BY <1>1, InitKeepsSession
<1>2. CASE TransportShutdown
  BY <1>2 DEF TransportShutdown, SessionInv, TypeOK, HeartClock
<1>3. CASE TransportTick
  BY <1>3, TickKeepsSession
<1>4. CASE TransportRequestReconnect
  <2>1. /\ connected' = FALSE /\ connected' \in BOOLEAN /\ missed' = MAX_MISSED
        /\ UNCHANGED <<initialized, ticks, last, next, attempts, rx, silent, down>>
    BY <1>4 DEF TransportRequestReconnect, retry
  <2>2. TypeOK'
    BY <2>1, Numbers DEF SessionInv, TypeOK
  <2>3. HeartClock'
    BY <2>1 DEF HeartClock
  <2>4. QED
    BY <2>2, <2>3 DEF SessionInv
<1>5. CASE ReceiveNothing \/ UNCHANGED vars
  BY <1>5 DEF ReceiveNothing, vars, SessionInv, TypeOK, HeartClock
<1>6. ASSUME NEW f \in PeerFrames \cup Damaged, NEW cut \in BOOLEAN, NEW fits \in BOOLEAN,
             TransportReceive(f, cut, fits)
      PROVE  SessionInv'
  BY <1>6, ReceiveKeepsSession
<1>7. QED
  BY <1>1, <1>2, <1>3, <1>4, <1>5, <1>6 DEF Next

(* The invariant of the session, for every interval, limit and width of    *)
(* the tick counter of transport.c.                                        *)
THEOREM SessionSafe == Spec => []SessionInv
<1>1. QED
  BY SessionStarts, NextKeepsSession, PTL DEF Spec

(* Missed heartbeats and reconnect attempts stay in their limits, and the  *)
(* tick statics of transport_tick in their words.                          *)
THEOREM SessionTyped == Spec => []TypeOK
<1>1. SessionInv => TypeOK
  BY DEF SessionInv
<1>2. QED
  BY <1>1, SessionSafe, PTL

(* transport_tick notices a dead peer within the interval and the grace,   *)
(* over any wrap of the tick counter.                                      *)
THEOREM DeadPeersNoticed == Spec => []DeadPeerNoticed
<1>1. SessionInv => DeadPeerNoticed
  BY DEF SessionInv, HeartClock, DeadPeerNoticed
<1>2. QED
  BY <1>1, SessionSafe, PTL

(* transport_tick never drops a session earlier than that.                 *)
THEOREM LivePeersKept == Spec => NoEarlyDrop
<1>1. ASSUME SessionInv, TransportTick, connected, ~connected'
      PROVE  silent' >= HEARTBEAT_TICKS + MAX_MISSED - 1
  <2>1. silent' = silent + 1
    BY <1>1, ConnectedTick
  <2>2. HeartbeatTick(Later(1))
    BY <1>1 DEF TransportTick, QuietTick
  <2>3. ~(missed + 1 < MAX_MISSED)
    BY <1>1, <2>2 DEF HeartbeatTick
  <2>4. /\ silent \in Nat /\ missed \in Nat
        /\ missed = IF silent < HEARTBEAT_TICKS THEN 0 ELSE silent - HEARTBEAT_TICKS + 1
    BY <1>1 DEF SessionInv, HeartClock, TypeOK
  <2>5. silent' >= HEARTBEAT_TICKS
    <3>1. (Later(1) - last) % TickSize >= HEARTBEAT_TICKS
      BY <2>2 DEF HeartbeatTick
    <3>2. (Later(1) - last) % TickSize = silent'
      BY <1>1, ConnectedTick
    <3>3. QED
      BY <3>1, <3>2
  <2>6. QED
    BY <2>1, <2>3, <2>4, <2>5, Numbers
<1>2. SessionInv /\ [Next]_vars =>
        [TransportTick /\ connected /\ ~connected' =>
           silent' >= HEARTBEAT_TICKS + MAX_MISSED - 1]_vars
  BY <1>1
<1>3. QED
  BY <1>2, SessionSafe, PTL DEF Spec, NoEarlyDrop

(* A checksum that agrees is that of a frame which was sent, and with it   *)
(* the bytes are: transport_receive hands up nothing a cut or damaged      *)
(* frame left in rx_buf, whatever length the header gives.                 *)
LEMMA AcceptedWasSent ==
  ASSUME NEW f \in PeerFrames \cup Damaged, NEW buf, NEW fits \in BOOLEAN,
         Accepts(f, buf, fits)
  PROVE  \E g \in PeerFrames : SubSeq(buf, 1, f.len) = g.data
<1> DEFINE bytes == SubSeq(buf, 1, f.len)
<1>1. PICK g \in PeerFrames : f.crc = g.crc
  BY DEF Damaged
<1>2. Crc(bytes) = g.crc
  BY <1>1 DEF Accepts
<1> HIDE DEF bytes
<1>3. ASSUME NEW p \in Sent, g = [type |-> "DATA", len |-> 2, data |-> p, crc |-> Crc(p)]
      PROVE  bytes = g.data
  <2>1. g.data = p /\ g.crc = Crc(p)
    BY <1>3
  <2>2. QED
    BY <1>2, <2>1 DEF Crc
<1>4. ASSUME g = [type |-> "HEARTBEAT", len |-> 0, data |-> Nothing, crc |-> Crc(Nothing)]
      PROVE  bytes = g.data
  <2>1. g.data = Nothing /\ g.crc = Crc(Nothing)
    BY <1>4
  <2>2. QED
    BY <1>2, <2>1 DEF Crc
<1>5. ASSUME g = [type |-> "ACK", len |-> 0, data |-> Nothing, crc |-> ZeroCrc]
      PROVE  bytes = g.data
  <2>1. g.crc = ZeroCrc
    BY <1>5
  <2>2. QED
    BY <1>2, <2>1 DEF Crc, ZeroCrc
<1>6. \E h \in PeerFrames : bytes = h.data
  <2>1. \/ \E p \in Sent : g = [type |-> "DATA", len |-> 2, data |-> p, crc |-> Crc(p)]
        \/ g = [type |-> "HEARTBEAT", len |-> 0, data |-> Nothing, crc |-> Crc(Nothing)]
        \/ g = [type |-> "ACK", len |-> 0, data |-> Nothing, crc |-> ZeroCrc]
    BY DEF PeerFrames
  <2>2. bytes = g.data
    BY <1>3, <1>4, <1>5, <2>1
  <2>3. QED
    BY <2>2
<1>7. QED
  BY <1>6 DEF bytes

(* transport_receive hands up only whole payloads that the peer sent, also *)
(* out of frames whose header is damaged; the type it hands up with them   *)
(* is not protected and nothing is claimed of it.                          *)
THEOREM PayloadsWhole == Spec => OnlySentPayloads
<1>1. ASSUME [Next]_vars, out' # out
      PROVE  \E f \in PeerFrames : out'.data = f.data
  <2>1. PICK f \in PeerFrames \cup Damaged, cut \in BOOLEAN, fits \in BOOLEAN :
               TransportReceive(f, cut, fits)
    BY <1>1 DEF Next, vars, TransportInit, TransportShutdown, TransportTick,
                TransportRequestReconnect, ReceiveNothing
  <2> DEFINE bytes == SubSeq(Copied(f, cut), 1, f.len)
  <2>2. Accepts(f, Copied(f, cut), fits) /\ out' = [type |-> f.type, data |-> bytes]
    BY <1>1, <2>1 DEF TransportReceive
  <2>3. \E g \in PeerFrames : bytes = g.data
    BY <2>2, AcceptedWasSent
  <2> HIDE DEF bytes
  <2>4. QED
    BY <2>2, <2>3
<1>2. [Next]_vars => [out' # out => \E f \in PeerFrames : out'.data = f.data]_vars
  BY <1>1
<1>3. QED
  BY <1>2, PTL DEF Spec, OnlySentPayloads
===============================================================================
