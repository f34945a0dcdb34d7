------------------------------ MODULE Transport -------------------------------
(***************************************************************************)
(* The session layer of src/transport.c at one console.  Its peer runs the *)
(* same code, so the frames that can arrive are the ones transport_send    *)
(* and the acknowledgement of transport_receive build; the wire may lose,  *)
(* repeat, reorder, cut short or damage them, header and payload.  Lengths *)
(* are counted in halves of a payload.  Sequence numbers are left out: no  *)
(* code reads the ones that arrive.                                        *)
(***************************************************************************)
EXTENDS Integers, Sequences

CONSTANTS
  HEARTBEAT_TICKS, RECONNECT_TICKS,       \* transport.c
  MAX_MISSED, MAX_ATTEMPTS,
  BackoffAfter,                           \* attempts before the delay doubles
  TickSize,                               \* 2^32 for the tick counter
  Bytes,                                  \* the two halves of a payload
  Watch                                   \* bound of the ghost clocks

ASSUME TransportAssumption ==
  /\ {HEARTBEAT_TICKS, RECONNECT_TICKS, MAX_MISSED, MAX_ATTEMPTS, BackoffAfter}
       \subseteq Nat \ {0}
  /\ TickSize \in Nat
  /\ HEARTBEAT_TICKS + MAX_MISSED < TickSize
  /\ 2 * RECONNECT_TICKS < TickSize
  /\ Watch \in Nat /\ Watch > 2 * RECONNECT_TICKS
  /\ Watch > HEARTBEAT_TICKS + MAX_MISSED

VARIABLES
  initialized, ticks,
  connected, missed, last,   \* session: connected, heartbeat_missed, last_heartbeat_ticks
  next, attempts,            \* next_reconnect_tick, reconnect_attempts
  rx,                        \* the payload bytes left in rx_buf
  out,                       \* what transport_receive last handed up
  silent,                    \* ghost: ticks since a frame was accepted or a connect
  down                       \* ghost: ticks spent disconnected, 0 while connected

session == <<connected, missed, last>>
retry == <<next, attempts>>
vars == <<initialized, ticks, connected, missed, last, next, attempts, rx, out, silent, down>>

Payload == Bytes \X Bytes
Sent == {p \in Payload : p[1] = p[2]}   \* whole payloads: two matching halves
Nothing == <<>>

(* crc16_simple, taken as injective; no byte at all gives 0xFFFF, not 0.   *)
Crc(data) == <<"crc", data>>
ZeroCrc == <<"zero", Nothing>>

(* The frames the peer builds: transport_send fills in the checksum, the   *)
(* acknowledgement leaves the field at 0.                                  *)
PeerFrames ==
  {[type |-> "DATA", len |-> 2, data |-> p, crc |-> Crc(p)] : p \in Sent}
    \cup {[type |-> "HEARTBEAT", len |-> 0, data |-> Nothing, crc |-> Crc(Nothing)],
          [type |-> "ACK", len |-> 0, data |-> Nothing, crc |-> ZeroCrc]}
-------------------------------------------------------------------------------
Later(n) == (ticks + n) % TickSize
Age(clock) == IF clock < Watch THEN clock + 1 ELSE clock

Init ==
  /\ initialized = FALSE /\ ticks = 0
  /\ connected = FALSE /\ missed = 0 /\ last = 0
  /\ next = 0 /\ attempts = 0
  /\ rx \in Payload /\ out = Nothing
  /\ silent = 0 /\ down = 0

(* transport_init: the statics of transport_tick are not reset.            *)
TransportInit ==
  /\ \/ initialized /\ UNCHANGED vars
     \/ /\ ~initialized
        /\ initialized' = TRUE /\ ticks' = 0
        /\ connected' = TRUE /\ missed' = 0 /\ last' = 0
        /\ silent' = 0 /\ down' = 0
        /\ UNCHANGED <<next, attempts, rx, out>>

TransportShutdown ==
  /\ initialized' = FALSE /\ connected' = FALSE
  /\ UNCHANGED <<ticks, missed, last, next, attempts, rx, out, silent, down>>

(* What lies in rx_buf after a frame, or its first half, has been copied.  *)
Copied(f, cut) ==
  IF f.data = Nothing THEN rx
  ELSE IF cut THEN <<f.data[1], rx[2]>> ELSE f.data

BadAccepts(f, buf, fits) == fits   \* trusts the frame without its checksum

(* The checks of transport_receive: the caller's buffer is large enough    *)
(* and the checksum over h->len bytes of rx_buf is the frame's.  The       *)
(* checksum does not cover the header.                                     *)
Accepts(f, buf, fits) == fits /\ Crc(SubSeq(buf, 1, f.len)) = f.crc

(* transport_receive; the acknowledgement of DATA leaves no state behind.  *)
TransportReceive(f, cut, fits) ==
  /\ initialized
  /\ LET buf == Copied(f, cut) IN
     /\ rx' = buf
     /\ \/ /\ ~Accepts(f, buf, fits)
           /\ UNCHANGED <<session, out, silent>>
        \/ /\ Accepts(f, buf, fits)
           /\ last' = ticks /\ missed' = 0 /\ silent' = 0
           /\ out' = [type |-> f.type, data |-> SubSeq(buf, 1, f.len)]
           /\ UNCHANGED connected
  /\ UNCHANGED <<initialized, ticks, retry, down>>

(* Fewer than a header's worth of bytes came, or none.                     *)
ReceiveNothing == initialized /\ UNCHANGED vars

BadHeartbeatTick(now) ==   \* counts an idle tick only once per interval
  /\ (now - last) % TickSize >= HEARTBEAT_TICKS
  /\ missed' = missed + IF (now - last) % TickSize = HEARTBEAT_TICKS THEN 1 ELSE 0
  /\ connected' = (missed' < MAX_MISSED)

BadImpatientTick(now) ==   \* gives up on the first silent interval
  /\ (now - last) % TickSize >= HEARTBEAT_TICKS
  /\ missed' = missed + 1
  /\ connected' = FALSE

(* The connected half of transport_tick, when the interval has passed.     *)
HeartbeatTick(now) ==
  /\ (now - last) % TickSize >= HEARTBEAT_TICKS
  /\ missed' = missed + 1
  /\ connected' = (missed + 1 < MAX_MISSED)

QuietTick(now) == (now - last) % TickSize < HEARTBEAT_TICKS /\ UNCHANGED <<connected, missed>>

BadReconnectTick(now) ==   \* one attempt too many
  /\ attempts <= MAX_ATTEMPTS
  /\ attempts' = attempts + 1
  /\ connected' = TRUE /\ missed' = 0 /\ last' = now
  /\ next' = Later(1 + RECONNECT_TICKS)
  /\ silent' = 0 /\ down' = 0

(* The disconnected half; with no attempt made yet the deadline is moved   *)
(* to RECONNECT_TICKS from now on every tick.                              *)
ReconnectTick(now) ==
  LET due == IF attempts = 0 THEN Later(1 + RECONNECT_TICKS) ELSE next IN
  \/ /\ now >= due /\ attempts < MAX_ATTEMPTS
     /\ attempts' = attempts + 1
     /\ connected' = TRUE /\ missed' = 0 /\ last' = now
     /\ next' = Later(1 + RECONNECT_TICKS * (IF attempts + 1 > BackoffAfter THEN 2 ELSE 1))
     /\ silent' = 0 /\ down' = 0
  \/ /\ ~(now >= due /\ attempts < MAX_ATTEMPTS)
     /\ next' = due
     /\ silent' = Age(silent) /\ down' = Age(down)
     /\ UNCHANGED <<session, attempts>>

(* transport_tick, called from the shell's loop                            *)
TransportTick ==
  /\ initialized
  /\ ticks' = Later(1)
  /\ \/ /\ connected
        /\ HeartbeatTick(Later(1)) \/ QuietTick(Later(1))
        /\ silent' = Age(silent)
        /\ UNCHANGED <<last, retry, down>>
     \/ ~connected /\ ReconnectTick(Later(1))
  /\ UNCHANGED <<initialized, rx, out>>

TransportRequestReconnect ==
  /\ connected' = FALSE /\ missed' = MAX_MISSED
  /\ UNCHANGED <<initialized, ticks, last, retry, rx, out, silent, down>>

(* A damaged frame: type, length and payload are any, the checksum is the  *)
(* one of a frame that was sent.  Cut short or too long for its reader, it *)
(* does what another one of them does.                                     *)
Damaged == [type : {f.type : f \in PeerFrames}, len : 0..2, data : Payload \cup {Nothing},
            crc : {f.crc : f \in PeerFrames}]

Next ==
  \/ TransportInit \/ TransportShutdown \/ TransportTick
  \/ TransportRequestReconnect \/ ReceiveNothing
  \/ \E f \in PeerFrames, cut, fits \in BOOLEAN : TransportReceive(f, cut, fits)
  \/ \E f \in Damaged : TransportReceive(f, FALSE, TRUE)

Spec == Init /\ [][Next]_vars
-------------------------------------------------------------------------------
Tick == 0..(TickSize - 1)

(* The counters of a session keep to their bounds: no more heartbeats are  *)
(* missed and no more attempts made than the limits of transport.c allow.  *)
TypeOK ==
  /\ initialized \in BOOLEAN /\ connected \in BOOLEAN
  /\ ticks \in Tick /\ last \in Tick /\ next \in Tick
  /\ missed \in 0..MAX_MISSED /\ attempts \in 0..MAX_ATTEMPTS
  /\ rx \in Payload
  /\ silent \in 0..Watch /\ down \in 0..Watch

(* A dead peer is noticed: a session that calls itself connected has heard *)
(* from the peer, or connected, within the heartbeat interval and the      *)
(* grace of MAX_MISSED ticks.                                              *)
DeadPeerNoticed ==
  initialized /\ connected => silent < HEARTBEAT_TICKS + MAX_MISSED - 1

(* No tick drops a session whose peer was heard from less than that ago.   *)
NoEarlyDrop ==
  [][TransportTick /\ connected /\ ~connected' =>
       silent' >= HEARTBEAT_TICKS + MAX_MISSED - 1]_vars

(* Whatever is lost, cut, damaged or left over in rx_buf, the payload that *)
(* is handed up is one the peer sent, whole, also when the length field is *)
(* damaged.  Its type may not be the one it was sent with: the checksum    *)
(* does not cover it.                                                      *)
OnlySentPayloads ==
  [][out' # out => \E f \in PeerFrames : out'.data = f.data]_vars

(* A session with attempts left comes back after at most two reconnect     *)
(* intervals.                                                              *)
ReconnectsInTime ==
  initialized /\ ~connected /\ attempts < MAX_ATTEMPTS => down <= 2 * RECONNECT_TICKS
===============================================================================
