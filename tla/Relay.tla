------------------------------- MODULE Relay --------------------------------
(***************************************************************************)
(* nc (src/src/cmd/nc.c): two of them, a client and a server, connected by *)
(* TCP or exchanging one datagram each way.  Bytes are counted: what       *)
(* matters is how many of each standard input reach the other side, and    *)
(* TCP keeps them in order.  Sockets are external: a queue of bounded size *)
(* per direction, an end mark, and a reset when a side goes away with      *)
(* unread bytes; datagrams may be lost.                                    *)
(***************************************************************************)
EXTENDS Integers

CONSTANTS
  Lengths,    \* lengths of standard input
  Buffer,     \* what one read takes (1024 bytes for TCP, 4096 for UDP)
  Queue       \* bytes a socket holds before write blocks

RelayConstants ==
  Lengths \subseteq Nat /\ Buffer \in Nat \ {0} /\ Queue \in Nat \ {0}

VARIABLES
  udp,        \* -u
  side,       \* what each nc knows and what waits in its socket
  stdin,      \* the length of each standard input
  flight,     \* UDP: size of the datagram on its way to a side, 0 if none
  broken      \* a nc was killed or a call failed, or a datagram was lost

vars == <<udp, side, stdin, flight, broken>>

Sides == {"client", "server"}
Peer(s) == IF s = "client" THEN "server" ELSE "client"
Lesser(a, b) == IF a < b THEN a ELSE b

Init ==
  /\ udp \in BOOLEAN
  /\ stdin \in [Sides -> Lengths]
  /\ side = [s \in Sides |-> [pc |-> "start", left |-> stdin[s], stdin_open |-> TRUE, chunk |-> 0,
                              revents |-> FALSE, got |-> 0, q |-> 0, fin |-> FALSE, reset |-> FALSE]]
  /\ flight = [s \in Sides |-> 0] /\ broken = FALSE

(* A side goes; its socket is closed.  Bytes it has not read reset the     *)
(* connection.                                                             *)
Gone(sd, s, pc) ==
  [sd EXCEPT ![s].pc = pc,
             ![Peer(s)].fin = TRUE,
             ![Peer(s)].reset = @ \/ sd[s].q > 0,
             ![Peer(s)].q = IF sd[s].q > 0 THEN 0 ELSE @]

Leave(s, pc) == side' = Gone(side, s, pc)
Fails(s) == Leave(s, "failed") /\ broken' = TRUE /\ UNCHANGED <<udp, stdin, flight>>

-----------------------------------------------------------------------------
(* tcp_client and tcp_server up to the relay *)

tcp_server ==
  /\ ~udp /\ side["server"].pc = "start"
  /\ \/ side' = [side EXCEPT !["server"].pc = "accept"] /\ UNCHANGED broken
     \/ side' = [side EXCEPT !["server"].pc = "failed"] /\ broken' = TRUE
  /\ UNCHANGED <<udp, stdin, flight>>

(* connect is refused unless the server listens; it accepts only one.      *)
tcp_client ==
  /\ ~udp /\ side["client"].pc = "start"
  /\ \/ /\ side["server"].pc = "accept"
        /\ side' = [s \in Sides |-> [side[s] EXCEPT !.pc = "poll"]] /\ UNCHANGED broken
     \/ side' = [side EXCEPT !["client"].pc = "failed"] /\ broken' = TRUE
  /\ UNCHANGED <<udp, stdin, flight>>

-----------------------------------------------------------------------------
(* tcp_relay *)

Readable(s) == side[s].q > 0 \/ side[s].fin \/ side[s].reset

(* poll returns when standard input or the socket is ready; both are then  *)
(* served, standard input first.                                           *)
Poll(s) ==
  /\ side[s].pc = "poll"
  /\ \E ready \in BOOLEAN :
       /\ ready => side[s].stdin_open
       /\ ready \/ Readable(s)
       /\ side' = [side EXCEPT ![s].pc = IF ready THEN "stdin" ELSE "socket",
                               ![s].revents = Readable(s)]
  /\ UNCHANGED <<udp, stdin, flight, broken>>

ReadStdin(s) ==
  /\ side[s].pc = "stdin" /\ side[s].left > 0
  /\ \E n \in 1 .. Lesser(Buffer, side[s].left) :
       side' = [side EXCEPT ![s].pc = "write", ![s].left = @ - n, ![s].chunk = n]
  /\ UNCHANGED <<udp, stdin, flight, broken>>

(* mutant: the socket is closed for both directions *)
MutStdinEnds(s) ==
  /\ side[s].pc = "stdin" /\ side[s].left = 0
  /\ Leave(s, "done")
  /\ UNCHANGED <<udp, stdin, flight, broken>>

StdinEnds(s) ==
  /\ side[s].pc = "stdin" /\ side[s].left = 0
  /\ side' = [side EXCEPT ![s].pc = "socket", ![s].stdin_open = FALSE, ![Peer(s)].fin = TRUE]
  /\ UNCHANGED <<udp, stdin, flight, broken>>

(* write_all on the socket: a part at a time, and it blocks while the peer *)
(* does not read.  A peer that is gone ends the relay (EPIPE, ECONNRESET). *)
WriteSocket(s) ==
  /\ side[s].pc = "write"
  /\ LET there == side[Peer(s)].pc \in {"poll", "stdin", "write", "socket"}
     IN \/ /\ there /\ side[Peer(s)].q < Queue
           /\ \E n \in 1 .. Lesser(side[s].chunk, Queue - side[Peer(s)].q) :
                side' = [side EXCEPT ![Peer(s)].q = @ + n, ![s].chunk = @ - n,
                                     ![s].pc = IF side[s].chunk = n THEN "socket" ELSE "write"]
        \/ ~there /\ Leave(s, "done")
  /\ UNCHANGED <<udp, stdin, flight, broken>>

ReadSocket(s) ==
  /\ side[s].pc = "socket"
  /\ \/ /\ ~side[s].revents
        /\ side' = [side EXCEPT ![s].pc = "poll"]
     \/ /\ side[s].revents /\ ~side[s].reset /\ side[s].q > 0
        /\ \E n \in 1 .. Lesser(Buffer, side[s].q) :
             side' = [side EXCEPT ![s].pc = "poll", ![s].q = @ - n, ![s].got = @ + n]
     \/ /\ side[s].revents /\ (side[s].reset \/ side[s].q = 0)
        /\ Leave(s, "done")
  /\ UNCHANGED <<udp, stdin, flight, broken>>

-----------------------------------------------------------------------------
(* udp_client and udp_server: one datagram each way *)

UdpStart(s) ==  \* socket, and bind for the server
  /\ udp /\ side[s].pc = "start"
  /\ side' = [side EXCEPT ![s].pc = IF s = "client" THEN "send" ELSE "recvfrom"]
  /\ UNCHANGED <<udp, stdin, flight, broken>>

(* One read of standard input is one datagram, and takes what it gets: all *)
(* of it, or less from a pipe or a terminal.  Nothing is sent for an empty *)
(* one, and one that nobody is bound for is lost.                          *)
udp_client ==
  /\ side["client"].pc = "send"
  /\ \/ \E n \in 0 .. Lesser(Buffer, side["client"].left) :
          /\ n = 0 => side["client"].left = 0
          /\ side' = [side EXCEPT !["client"].pc = "wait", !["client"].left = @ - n]
          /\ \/ /\ n > 0 /\ side["server"].pc = "recvfrom"
                /\ flight' = [flight EXCEPT !["server"] = n] /\ UNCHANGED broken
             \/ UNCHANGED flight /\ broken' = TRUE
     \/ /\ side' = [side EXCEPT !["client"].pc = "failed"]
        /\ UNCHANGED flight /\ broken' = TRUE
  /\ UNCHANGED <<udp, stdin>>

udp_server ==
  /\ side["server"].pc = "recvfrom" /\ flight["server"] > 0
  /\ LET n == flight["server"]
     IN /\ side' = [side EXCEPT !["server"].pc = "done", !["server"].got = n]
        /\ \/ flight' = [server |-> 0, client |-> n] /\ UNCHANGED broken
           \/ flight' = [server |-> 0, client |-> 0] /\ broken' = TRUE
  /\ UNCHANGED <<udp, stdin>>

(* poll for three seconds: the echo, or nothing.                           *)
UdpAnswer ==
  /\ side["client"].pc = "wait"
  /\ \/ /\ flight["client"] > 0
        /\ side' = [side EXCEPT !["client"].pc = "done", !["client"].got = flight["client"]]
        /\ UNCHANGED broken
     \/ /\ side' = [side EXCEPT !["client"].pc = "done"]
        /\ broken' = TRUE
  /\ flight' = [flight EXCEPT !["client"] = 0]
  /\ UNCHANGED <<udp, stdin>>

-----------------------------------------------------------------------------
(* A signal, or a call of the relay that fails otherwise.                  *)
Killed(s) ==
  /\ ~udp /\ side[s].pc \in {"poll", "stdin", "write", "socket"}
  /\ Fails(s)

Step(s) ==
  \/ Poll(s) \/ ReadStdin(s) \/ StdinEnds(s) \/ WriteSocket(s) \/ ReadSocket(s) \/ UdpStart(s)

Setup == tcp_server \/ tcp_client \/ udp_client \/ udp_server \/ UdpAnswer

Next == Setup \/ \E s \in Sides : Step(s) \/ Killed(s)

(* Both programs run, and what they read from standard input ends.         *)
Fairness == WF_vars(Setup) /\ \A s \in Sides : WF_vars(Step(s))

Spec == Init /\ [][Next]_vars /\ Fairness

-----------------------------------------------------------------------------
(* What the one read of a UDP client took.                                 *)
Datagram == stdin["client"] - side["client"].left

Ended(s) == side[s].pc \in {"done", "failed"}
Blocked(s) == side[s].pc = "write" /\ side[Peer(s)].q = Queue

(* Unless something breaks, whoever sees the end of its standard input is  *)
(* heard completely, and one side does; the other may be cut off, since    *)
(* the end of the connection ends the relay.  UDP carries what one read    *)
(* took, at least a byte but not all of a longer or a slower input, and    *)
(* the same bytes back.                                                    *)
RelayFaithful ==
  /\ \A s \in Sides :
       side[Peer(s)].got + side[Peer(s)].q + side[s].chunk <= stdin[s] - side[s].left
         \/ udp \/ side[Peer(s)].reset
  /\ ~udp /\ ~broken /\ (\A s \in Sides : Ended(s)) =>
       /\ \A s \in Sides : ~side[s].stdin_open => side[Peer(s)].got = stdin[s]
       /\ \E s \in Sides : ~side[s].stdin_open
  /\ udp /\ ~broken /\ Ended("client") =>
       Datagram \in 1 .. Buffer /\ \A s \in Sides : side[s].got = Datagram

(* Every pair of nc comes to an end, except that two that write to each    *)
(* other with both queues full wait for ever, and a UDP server waits for a *)
(* datagram that is lost.                                                  *)
RelayEnds ==
  <>(\A s \in Sides : Ended(s) \/ Blocked(s) \/ (s = "server" /\ side[s].pc \in {"accept", "recvfrom"}))
=============================================================================
