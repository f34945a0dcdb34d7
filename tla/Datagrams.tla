------------------------------- MODULE Datagrams ------------------------------
(***************************************************************************)
(* The datagram layer of src/net/udp.c over platform/x86/hal_net.c, and    *)
(* the commands that use it: ping (with src/net/icmp.c), the ftp, telnet   *)
(* and irc clients of src/net_clients.c and the pad poll of                *)
(* src/network_controller.c.  A datagram is one of                         *)
(*   "P"     four bytes or more that start with P                          *)
(*   "pad"   a controller packet with the magic number                     *)
(*   "text"  anything else                                                 *)
(* and a receive finds one of them on the wire, or nothing that net_udp_   *)
(* recv takes.  The wire keeps nothing that was not asked for.             *)
(***************************************************************************)
EXTENDS UdpRing

CONSTANT PING_TRIES     \* 1000 in net_ping

ASSUME DatagramsAssumption ==
  Datagram = {"P", "pad", "text"} /\ PING_TRIES \in Nat \ {0}

VARIABLES
  rx,      \* the receive ring
  net      \* net_up, open streams, the command that runs, running and last_* of the pad

(* What a client does on its stream, in order; a string is sent, "<" reads.*)
Script == [ftp    |-> <<"<", "text", "<", "P", "<">>,      \* USER ..., PASS ...
           telnet |-> <<"text", "<">>,
           irc    |-> <<"text", "text", "text">>]           \* NICK, USER, JOIN
NoJob == [cmd |-> "none", at |-> 0, local |-> FALSE]
STREAMS == 2

(* kernel_main calls net_init before it starts the shell.                  *)
NetStart == [up |-> TRUE, streams |-> 0, job |-> NoJob, polling |-> FALSE, pad |-> FALSE]
NetInit == rx = RingNew /\ net = NetStart

net_init == /\ net.job = NoJob
            /\ rx' = RingClear(rx)
            /\ net' = [net EXCEPT !.up = TRUE]

(* The datagrams that wait are kept.                                       *)
net_shutdown == /\ net.job = NoJob /\ net.up
                /\ net' = [net EXCEPT !.up = FALSE]
                /\ UNCHANGED rx

(* The ring after a send: what is sent to this machine's own address or to *)
(* 127.0.0.1 is received as well as sent.                                  *)
net_udp_send(d, local) == IF net.up /\ local THEN ring_push(rx, d) ELSE rx

Wire == Datagram \cup {NoDatagram}
RingHeard(w) == IF w = NoDatagram THEN rx ELSE ring_push(rx, w)

(* The rings and results of a receive that finds w on the wire.            *)
net_udp_recv(w) ==
  LET r == RingHeard(w)
  IN  IF ~net.up THEN [ring |-> rx, got |-> NoDatagram]
      ELSE IF RingEmpty(r) THEN [ring |-> r, got |-> NoDatagram]
      ELSE [ring |-> RingPop(r), got |-> RingFirst(r)]

(* plat_net_ping: the ICMP echo first, whose loop takes frames off the     *)
(* wire for itself; any reply ends the command.                            *)
plat_net_ping(local) ==
  /\ net.job = NoJob
  /\ net' = [net EXCEPT !.job = [cmd |-> "icmp", at |-> 0, local |-> local]]
  /\ UNCHANGED rx

net_icmp_ping(reply) ==
  /\ net.job.cmd = "icmp"
  /\ IF reply
     THEN net' = [net EXCEPT !.job = NoJob] /\ UNCHANGED rx
     ELSE /\ net' = [net EXCEPT !.job = [@ EXCEPT !.cmd = "ping", !.at = PING_TRIES]]
          /\ rx' = net_udp_send("P", net.job.local)

BadNetPing(w) ==      \* the tries are not counted
  /\ net.job.cmd = "ping"
  /\ LET heard == net_udp_recv(w)
     IN  /\ rx' = heard.ring
         /\ net' = [net EXCEPT !.job = IF heard.got = "P" THEN NoJob ELSE @]

(* One pass of the loop of net_ping: whatever starts with P is an answer.  *)
net_ping(w) ==
  /\ net.job.cmd = "ping"
  /\ LET heard == net_udp_recv(w)
         last  == net.job.at = 1
     IN  /\ rx' = heard.ring
         /\ net' = [net EXCEPT !.job = IF heard.got = "P" \/ last THEN NoJob
                                       ELSE [@ EXCEPT !.at = net.job.at - 1]]

(* A client starts when one of the pool's streams is free.                 *)
net_connect(cmd, local) ==
  /\ net.job = NoJob
  /\ net.streams < STREAMS
  /\ net' = [net EXCEPT !.streams = @ + 1, !.job = [cmd |-> cmd, at |-> 1, local |-> local]]
  /\ UNCHANGED rx

ClientStep(w) ==
  /\ net.job.cmd \in DOMAIN Script
  /\ LET script == Script[net.job.cmd]
         now    == script[net.job.at]
     IN  /\ rx' = IF now = "<" THEN net_udp_recv(w).ring ELSE net_udp_send(now, net.job.local)
         /\ net' = IF net.job.at = Len(script)
                   THEN [net EXCEPT !.job = NoJob, !.streams = @ - 1]
                   ELSE [net EXCEPT !.job.at = @ + 1]

network_controller_start == /\ net.job = NoJob
                            /\ net' = [net EXCEPT !.polling = TRUE]
                            /\ UNCHANGED rx

network_controller_stop == /\ net.job = NoJob
                           /\ net' = [net EXCEPT !.polling = FALSE]
                           /\ UNCHANGED rx

(* The head of the ring is taken, and lost when it is no controller        *)
(* packet.  The state of the pad stays when nothing comes.                 *)
network_controller_poll(w) ==
  /\ net.job = NoJob /\ net.polling
  /\ LET heard == net_udp_recv(w)
     IN  /\ rx' = heard.ring
         /\ net' = [net EXCEPT !.pad = @ \/ heard.got = "pad"]

NetJob == (\E reply \in BOOLEAN : net_icmp_ping(reply)) \/ (\E w \in Wire : net_ping(w) \/ ClientStep(w))

NetNext ==
  \/ net_init \/ net_shutdown
  \/ \E local \in BOOLEAN : plat_net_ping(local) \/ \E cmd \in DOMAIN Script : net_connect(cmd, local)
  \/ NetJob
  \/ network_controller_start \/ network_controller_stop
  \/ \E w \in Wire : network_controller_poll(w)
-------------------------------------------------------------------------------
(* What the ring stands for: the datagrams that wait, oldest first.        *)
RxQueue == INSTANCE BoundedQueue WITH queue <- RingQueue(rx), Capacity <- RX_SLOTS - 1

(* A network command has not given the prompt back.                        *)
NetRuns == net.job # NoJob

(* At the prompt no stream of the pool is taken: a client never fails      *)
(* because an earlier one kept its stream.                                 *)
StreamsReturned == net.job = NoJob => net.streams = 0
===============================================================================
