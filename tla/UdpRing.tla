------------------------------- MODULE UdpRing --------------------------------
(***************************************************************************)
(* The ring of received datagrams of src/net/udp.c.  A ring is a record    *)
(* [slot, head, tail] for rx_ring, rx_head and rx_tail; one slot is always *)
(* kept empty.  A slot keeps its datagram after it was read.               *)
(***************************************************************************)
EXTENDS Integers, Sequences

CONSTANTS
  RX_SLOTS,
  Datagram,      \* what can be received
  NoDatagram     \* what a slot holds before it was used

ASSUME RingAssumption == RX_SLOTS \in Nat /\ RX_SLOTS >= 2

RxSlots == 0..RX_SLOTS - 1
Ring == [slot : [RxSlots -> Datagram \cup {NoDatagram}], head : RxSlots, tail : RxSlots]

RingNew == [slot |-> [i \in RxSlots |-> NoDatagram], head |-> 0, tail |-> 0]

RingNext(i) == (i + 1) % RX_SLOTS

BadRingPush(r, d) ==      \* the test for a full ring is forgotten
  [slot |-> [r.slot EXCEPT ![r.tail] = d], head |-> r.head, tail |-> RingNext(r.tail)]

ring_push(r, d) ==
  IF RingNext(r.tail) = r.head THEN r
  ELSE [slot |-> [r.slot EXCEPT ![r.tail] = d], head |-> r.head, tail |-> RingNext(r.tail)]

RingEmpty(r) == r.head = r.tail
RingFirst(r) == r.slot[r.head]
RingPop(r) == [slot |-> r.slot, head |-> RingNext(r.head), tail |-> r.tail]
RingClear(r) == [slot |-> r.slot, head |-> 0, tail |-> 0]

(* The datagrams that wait, oldest first.                                  *)
RingLen(r) == IF r.tail >= r.head THEN r.tail - r.head ELSE r.tail + RX_SLOTS - r.head
RingAt(r, i) == IF r.head + i - 1 < RX_SLOTS THEN r.slot[r.head + i - 1]
                ELSE r.slot[r.head + i - 1 - RX_SLOTS]
RingQueue(r) == [i \in 1..RingLen(r) |-> RingAt(r, i)]
===============================================================================
