------------------------------ MODULE UbusdRx -------------------------------
(***************************************************************************)
(* The receiving half of one client connection of ubusd, and its end:        *)
(* client_cb and handle_client_disconnect (ubusd_main.c), with the           *)
(* edge-triggered events and the eof flag of uloop on which they depend.     *)
(* Requests arrive in pieces; each one is answered by one message, which     *)
(* waits in tx_queue while the client does not read.  (Module UbusdTx has    *)
(* the queue byte by byte, UbusdLookup the command queue.)                   *)
(*                                                                          *)
(* client_cb is cut at its system calls: the client goes on meanwhile.       *)
(***************************************************************************)
EXTENDS Naturals, Sequences, FiniteSetsExt

CONSTANTS HDR,      \* pieces of a header (sizeof(hdrbuf))
          Lens,     \* pieces of a message's data behind the header
          Cap,      \* messages that the socket holds for the client to read
          MaxMsgs   \* bound: requests

ASSUME RxAssumption == HDR \in Nat \ {0} /\ Lens \subseteq Nat

Bad == 99           \* a length that ubusd refuses

VARIABLES sent,     \* client: the pieces of all it has sent
          got,      \* client: pieces that ubusd has read
          peer,     \* client: open, half (it sends no more) or closed
          room,     \* messages that can be written before the client reads
          pc, write, \* where client_cb is; its events contain ULOOP_WRITE
          registered, want, \* uloop watches the socket; also for ULOOP_WRITE
          edge,     \* epoll has an event to report
          eof,      \* sock->eof
          buf,      \* hdrbuf and pending_msg: the pieces read of a message
          pending_msg,
          tx_queue, \* answers that wait, a number
          handled   \* history: the messages handed to ubusd_proto_receive_message

client == <<sent, peer>>
loop == <<registered, want, edge, eof>>
vars == <<client, got, room, pc, write, loop, buf, pending_msg, tx_queue, handled>>

----------------------------------------------------------------------------
\* Piece i of message m, which has n pieces behind its header.
Piece(m, i, n) == [m |-> m, i |-> i, n |-> n]
Size(n) == HDR + (IF n = Bad THEN 0 ELSE n)
Message(m, n) == [i \in 1..Size(n) |-> Piece(m, i, n)]
Between == sent = <<>> \/ sent[Len(sent)].i = Size(sent[Len(sent)].n)
pending_msg_offset == Len(buf)

Init ==
    /\ sent = <<>> /\ got = 0 /\ peer = "open" /\ room = Cap
    /\ pc = "idle" /\ write = FALSE
    /\ registered = TRUE /\ want = FALSE /\ edge = FALSE /\ eof = FALSE
    /\ buf = <<>> /\ pending_msg = FALSE /\ tx_queue = 0 /\ handled = <<>>

----------------------------------------------------------------------------
\* The client sends the next piece of a message, or begins another one.
Send ==
    /\ peer = "open"
    /\ IF Between
       THEN \E n \in Lens \cup {Bad} :
              LET m == IF sent = <<>> THEN 1 ELSE sent[Len(sent)].m + 1
              IN  m <= MaxMsgs /\ sent' = Append(sent, Piece(m, 1, n))
       ELSE LET p == sent[Len(sent)]
            IN  sent' = Append(sent, Piece(p.m, p.i + 1, p.n))
    /\ edge' = registered
    /\ UNCHANGED <<peer, got, room, pc, write, registered, want, eof, buf, pending_msg,
                   tx_queue, handled>>

Read ==
    /\ peer # "closed" /\ room < Cap
    /\ room' = room + 1
    /\ edge' = (edge \/ (registered /\ want))
    /\ UNCHANGED <<client, got, pc, write, registered, want, eof, buf, pending_msg, tx_queue,
                   handled>>

Close(how) ==
    /\ peer # "closed" /\ how # peer
    /\ peer' = how
    /\ edge' = registered
    /\ UNCHANGED <<sent, got, room, pc, write, registered, want, eof, buf, pending_msg, tx_queue,
                   handled>>

----------------------------------------------------------------------------
\* epoll_ctl reports what is the case already; eof is reset.
uloop_fd_add(w, r) ==
    /\ registered' = TRUE /\ want' = w /\ eof' = FALSE
    /\ edge' = (Len(sent) > got' \/ peer # "open" \/ (w /\ r > 0))

handle_client_disconnect ==
    /\ pc' = "gone"
    /\ registered' = FALSE /\ edge' = FALSE
    /\ tx_queue' = 0 /\ buf' = <<>> /\ pending_msg' = FALSE

\* uloop_fetch_events: RDHUP sets eof, HUP takes the socket out of the poll set.
client_cb ==
    /\ pc = "idle" /\ registered /\ edge
    /\ edge' = FALSE
    /\ eof' = (eof \/ peer # "open")
    /\ registered' = (peer # "closed")
    /\ write' = (want /\ (room > 0 \/ peer = "closed"))
    /\ pc' = "tx"
    /\ UNCHANGED <<client, got, room, want, buf, pending_msg, tx_queue, handled>>

\* Fault: every error of a write is taken for a full socket.
TransmitIgnoresErrors ==
    /\ pc = "tx"
    /\ UNCHANGED <<client, got, write, handled>>
    /\ \/ /\ tx_queue > 0 /\ peer # "closed" /\ room > 0
          /\ tx_queue' = tx_queue - 1 /\ room' = room - 1
          /\ UNCHANGED <<pc, loop, buf, pending_msg>>
       \/ /\ tx_queue > 0 /\ (peer = "closed" \/ room = 0)
          /\ pc' = "rx" /\ UNCHANGED <<tx_queue, room, loop, buf, pending_msg>>
       \/ /\ tx_queue = 0
          /\ IF write THEN uloop_fd_add(FALSE, room) ELSE UNCHANGED loop
          /\ pc' = "rx" /\ UNCHANGED <<tx_queue, room, buf, pending_msg>>

Transmit ==
    /\ pc = "tx"
    /\ UNCHANGED <<client, got, write, handled>>
    /\ \/ tx_queue > 0 /\ peer = "closed" /\ handle_client_disconnect /\ UNCHANGED <<room, want, eof>>
       \/ /\ tx_queue > 0 /\ peer # "closed" /\ room > 0
          /\ tx_queue' = tx_queue - 1 /\ room' = room - 1
          /\ UNCHANGED <<pc, loop, buf, pending_msg>>
       \/ /\ tx_queue > 0 /\ peer # "closed" /\ room = 0
          /\ pc' = "rx" /\ UNCHANGED <<tx_queue, room, loop, buf, pending_msg>>
       \/ /\ tx_queue = 0
          /\ IF write THEN uloop_fd_add(FALSE, room) ELSE UNCHANGED loop
          /\ pc' = "rx" /\ UNCHANGED <<tx_queue, room, buf, pending_msg>>

\* At most n pieces are read.
Take(n) == SubSeq(sent, got + 1, Min({got + n, Len(sent)}))

\* After eof no header is read, whatever was sent before.
ReadHeader ==
    /\ pc = "rx"
    /\ IF ~eof /\ pending_msg_offset < HDR
       THEN LET new == buf \o Take(HDR - pending_msg_offset)
            IN  /\ got' = got + Len(new) - pending_msg_offset
                /\ IF Len(new) < HDR
                   THEN pc' = "out" /\ buf' = new /\ UNCHANGED <<pending_msg, tx_queue, loop>>
                   ELSE IF new[HDR].n = Bad
                   THEN handle_client_disconnect /\ UNCHANGED <<want, eof>>
                   ELSE pc' = "body" /\ buf' = new /\ pending_msg' = TRUE
                        /\ UNCHANGED <<tx_queue, loop>>
       ELSE /\ pc' = IF pending_msg THEN "body" ELSE "out"
            /\ UNCHANGED <<got, buf, pending_msg, tx_queue, loop>>
    /\ UNCHANGED <<client, room, write, handled>>

\* The answer to a request: ubus_msg_send.
Answer ==
    \/ /\ tx_queue = 0 /\ room > 0 /\ peer # "closed"
       /\ room' = room - 1 /\ UNCHANGED <<tx_queue, loop>>
    \/ /\ tx_queue = 0 /\ (room = 0 \/ peer = "closed")
       /\ uloop_fd_add(TRUE, room)
       /\ tx_queue' = 1 /\ UNCHANGED room
    \/ tx_queue > 0 /\ tx_queue' = tx_queue + 1 /\ UNCHANGED <<room, loop>>

\* Fault: only one message is read per event.
AcceptOne(msg) ==
    /\ handled' = Append(handled, msg)
    /\ buf' = <<>> /\ pending_msg' = FALSE
    /\ Answer
    /\ pc' = "out"

Accept(msg) ==
    /\ handled' = Append(handled, msg)
    /\ buf' = <<>> /\ pending_msg' = FALSE
    /\ Answer
    /\ pc' = "rx"

\* Fault: the offset does not advance when a part of the data is read.
ReadBodyAgain ==
    /\ pc = "body"
    /\ LET n == buf[HDR].n - (pending_msg_offset - HDR)
           new == buf \o Take(n)
       IN  /\ got' = got + Len(new) - pending_msg_offset
           /\ IF Len(new) < pending_msg_offset + n
              THEN pc' = "out" /\ buf' = buf
                   /\ UNCHANGED <<pending_msg, handled, tx_queue, room, loop>>
              ELSE Accept(new)
    /\ UNCHANGED <<client, write>>

ReadBody ==
    /\ pc = "body"
    /\ LET n == buf[HDR].n - (pending_msg_offset - HDR)
           new == buf \o Take(n)
       IN  /\ got' = got + Len(new) - pending_msg_offset
           /\ IF Len(new) < pending_msg_offset + n
              THEN pc' = "out" /\ buf' = new
                   /\ UNCHANGED <<pending_msg, handled, tx_queue, room, loop>>
              ELSE Accept(new)
    /\ UNCHANGED <<client, write>>

Out ==
    /\ pc = "out"
    /\ IF ~eof \/ tx_queue > 0
       THEN pc' = "idle" /\ UNCHANGED <<loop, tx_queue, buf, pending_msg>>
       ELSE handle_client_disconnect /\ UNCHANGED <<want, eof>>
    /\ UNCHANGED <<client, got, room, write, handled>>

----------------------------------------------------------------------------
Daemon == client_cb \/ Transmit \/ ReadHeader \/ ReadBody \/ Out

Next ==
    \/ Send \/ Read \/ \E how \in {"half", "closed"} : Close(how)
    \/ Daemon

\* The daemon runs, and a client that sends no more reads its answers.
Spec ==
    /\ Init /\ [][Next]_vars
    /\ WF_vars(Daemon) /\ WF_vars(peer = "half" /\ Read)

----------------------------------------------------------------------------
(* What is handed on are the client's requests, each one whole, once and in  *)
(* order, however the stream is cut into reads, and whatever is interrupted  *)
(* by eof or by answers that have to wait.                                  *)
RequestsWhole ==
    \A k \in 1..Len(handled) : handled[k] = Message(k, handled[k][HDR].n)

Complete == Cardinality({i \in 1..Len(sent) : sent[i].i = Size(sent[i].n)})

(* Every request of a client that stays open is handled, also when several   *)
(* arrive with one edge-triggered event and when the client is slow to read  *)
(* its answers.  (Requests of a client that then closes may be skipped: eof  *)
(* overtakes the data in front of it.)                                      *)
RequestsServed ==
    []<>(Len(handled) = Complete \/ peer # "open" \/ pc = "gone")

(* A client that has closed its end is freed, although uloop resets eof each *)
(* time it is asked for other events and stops watching a socket that has    *)
(* hung up; also if it closes with answers waiting for it.                  *)
ClosedIsFreed == peer # "open" ~> pc = "gone"
=============================================================================
