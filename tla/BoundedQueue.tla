----------------------------- MODULE BoundedQueue -----------------------------
(***************************************************************************)
(* What the receive ring of src/net/udp.c promises: a queue of at most     *)
(* Capacity datagrams in the order of their arrival, that drops what comes *)
(* when it is full.                                                        *)
(***************************************************************************)
EXTENDS Naturals, Sequences

CONSTANTS Datagram, Capacity

VARIABLE queue

Arrived(q, d) == IF Len(q) < Capacity THEN Append(q, d) ELSE q

Init == queue = <<>>

Arrive(d) == queue' = Arrived(queue, d)

(* A read takes the oldest, after the one that has just arrived is in.     *)
Read == queue # <<>> /\ queue' = Tail(queue)
ArriveAndRead(d) == queue' = Tail(Arrived(queue, d))

Next == Read \/ (\E d \in Datagram : Arrive(d) \/ ArriveAndRead(d))

Spec == Init /\ [][Next]_queue
===============================================================================
