------------------------------ MODULE UbusdTx -------------------------------
(***************************************************************************)
(* The sending half of one client connection of ubusd, byte by byte:        *)
(* ubus_msg_send and ubus_msg_enqueue (ubusd.c), the transmit loop at the    *)
(* head of client_cb (ubusd_main.c), and the edge-triggered write event that *)
(* connects them.  A write to the socket takes as much as the socket has     *)
(* room for; the peer reads any number of bytes at any time, also while the  *)
(* transmit loop runs, so every call of ubus_msg_writev is a step.           *)
(*                                                                          *)
(* txq_len is an unsigned int: it is kept modulo W.  The header and a        *)
(* message's data are counted in bytes, scaled down in the instances.        *)
(***************************************************************************)
EXTENDS Integers, Sequences

CONSTANTS HDR,       \* sizeof(struct ubus_msghdr)
          Lens,      \* the data lengths of messages (ub->len)
          TXQ_MAX,   \* UBUS_CLIENT_MAX_TXQ_LEN
          W,         \* 2^32: the range of an unsigned int
          SockCap,   \* bytes the socket buffer holds
          MaxMsgs    \* bound: messages sent to this client

ASSUME SizesAssumption == /\ HDR \in Nat /\ HDR > 0 /\ Lens \subseteq Nat
                          /\ TXQ_MAX \in Nat /\ SockCap \in Nat /\ MaxMsgs \in Nat
ASSUME WidthAssumption == W \in Nat /\ W > 2 * TXQ_MAX

VARIABLES tx_queue,  \* list of messages not completely written
          txq_ofs,   \* bytes of the first one already written
          txq_len,   \* the daemon's idea of the bytes in the queue
          write,     \* ULOOP_WRITE is among the events asked for
          ready,     \* epoll has a write event to report
          sock,      \* bytes in the socket buffer that the peer has not read
          pc,        \* "idle": in uloop, or in a handler; "tx": in the loop of client_cb
          event,     \* the events of this client_cb include ULOOP_WRITE
          next,      \* number of the next message
          wire,      \* history: the bytes written, as <<message, position, size>>
          pend,      \* history: bytes queued and not written
          batch,     \* history: messages queued since txq_len was last set
          drops,     \* history: messages refused by ubus_msg_enqueue
          torn       \* history: one of them was already partly written

vars == <<tx_queue, txq_ofs, txq_len, write, ready, sock, pc, event, next,
          wire, pend, batch, drops, torn>>

----------------------------------------------------------------------------
Msg == [id: 1..MaxMsgs, len: Lens]

Size(m) == m.len + HDR

Smaller(a, b) == IF a < b THEN a ELSE b

Unsigned(n) == n % W

\* What sendmsg takes of message m from offset ofs; 0 is EAGAIN.
Written(m, ofs) == Smaller(Size(m) - ofs, SockCap - sock)

Bytes(m, ofs, n) == [i \in 1..n |-> <<m.id, ofs + i, Size(m)>>]

ubus_msg_writev(m, ofs) ==
    /\ sock' = sock + Written(m, ofs)
    /\ wire' = wire \o Bytes(m, ofs, Written(m, ofs))

\* epoll_ctl reports what is possible at once.
uloop_fd_add(w, room) ==
    /\ write' = w
    /\ ready' = (w /\ room)

Init ==
    /\ tx_queue = <<>> /\ txq_ofs = 0 /\ txq_len = 0
    /\ write = FALSE /\ ready = FALSE /\ sock = 0
    /\ pc = "idle" /\ event = FALSE /\ next = 1
    /\ wire = <<>> /\ pend = 0 /\ batch = 0 /\ drops = {} /\ torn = FALSE

\* qlen: txq_len as ubus_msg_send leaves it; w: bytes already written;
\* old, n: the bytes and the messages that are in the queue before.
ubus_msg_enqueue(m, qlen, w, old, n) ==
    IF Unsigned(qlen + m.len) > TXQ_MAX
    THEN /\ txq_len' = qlen
         /\ drops' = drops \cup {[len |-> m.len, pend |-> old, written |-> w]}
         /\ torn' = (torn \/ w > 0)
         /\ pend' = old /\ batch' = n
         /\ UNCHANGED tx_queue
    ELSE /\ txq_len' = Unsigned(qlen + m.len)
         /\ tx_queue' = Append(tx_queue, m)
         /\ pend' = old + Size(m) - w /\ batch' = n + 1
         /\ UNCHANGED <<drops, torn>>

\* Faults of a partial first write: no write event is asked for; the offset is
\* not kept.
SendDirectUnarmed(m) ==
    LET w == Written(m, 0)
    IN  /\ tx_queue = <<>>
        /\ ubus_msg_writev(m, 0)
        /\ UNCHANGED <<write, ready>>
        /\ IF w = Size(m)
           THEN UNCHANGED <<tx_queue, txq_ofs, txq_len, pend, batch, drops, torn>>
           ELSE /\ txq_ofs' = w
                /\ ubus_msg_enqueue(m, Unsigned(-w), w, 0, 0)

SendDirectRestarts(m) ==
    LET w == Written(m, 0)
    IN  /\ tx_queue = <<>>
        /\ ubus_msg_writev(m, 0)
        /\ IF w = Size(m)
           THEN UNCHANGED <<tx_queue, txq_ofs, txq_len, write, ready, pend, batch, drops, torn>>
           ELSE /\ uloop_fd_add(TRUE, sock' < SockCap)
                /\ ubus_msg_enqueue(m, Unsigned(-w), w, 0, 0)
                /\ UNCHANGED txq_ofs

\* Nothing is queued: the message goes out at once, whole or in part.
SendDirect(m) ==
    LET w == Written(m, 0)
    IN  /\ tx_queue = <<>>
        /\ ubus_msg_writev(m, 0)
        /\ IF w = Size(m)
           THEN UNCHANGED <<tx_queue, txq_ofs, txq_len, write, ready, pend, batch, drops, torn>>
           ELSE /\ txq_ofs' = w
                /\ uloop_fd_add(TRUE, sock' < SockCap)
                /\ ubus_msg_enqueue(m, Unsigned(-w), w, 0, 0)

SendQueued(m) ==
    /\ tx_queue # <<>>
    /\ ubus_msg_enqueue(m, txq_len, 0, pend, batch)
    /\ UNCHANGED <<txq_ofs, write, ready, sock, wire>>

ubus_msg_send(len) ==
    LET m == [id |-> next, len |-> len]
    IN  /\ pc = "idle"
        /\ next <= MaxMsgs
        /\ next' = next + 1
        /\ SendDirect(m) \/ SendQueued(m)
        /\ UNCHANGED <<pc, event>>

\* uloop calls client_cb: for a write event, or because the client has sent
\* something; epoll then reports room in the socket as well, if it was asked for.
client_cb(w) ==
    /\ pc = "idle"
    /\ IF w THEN write /\ ready ELSE TRUE
    /\ pc' = "tx"
    /\ event' = (write /\ sock < SockCap)
    /\ ready' = FALSE
    /\ UNCHANGED <<tx_queue, txq_ofs, txq_len, write, sock, next, wire, pend, batch, drops, torn>>

\* Faults of a round: the offset stays when a message is done; txq_len is not
\* updated; the write event is given up with data left.
TxRoundWith(ofs, qlen, wr) ==
    LET m == Head(tx_queue)
        w == Written(m, txq_ofs)
        done == txq_ofs + w = Size(m)
    IN  /\ pc = "tx" /\ tx_queue # <<>>
        /\ ubus_msg_writev(m, txq_ofs)
        /\ txq_len' = qlen
        /\ pend' = pend - w
        /\ txq_ofs' = IF done THEN ofs ELSE txq_ofs + w
        /\ tx_queue' = IF done THEN Tail(tx_queue) ELSE tx_queue
        /\ pc' = IF done THEN "tx" ELSE "idle"
        /\ write' = wr
        /\ UNCHANGED <<ready, event, next, batch, drops, torn>>

TxRoundKeepsOffset == TxRoundWith(Size(Head(tx_queue)), txq_len, write)
TxRoundKeepsLength == TxRoundWith(0, txq_len, write)
TxRoundDisarms == TxRoundWith(0, Unsigned(txq_len - Written(Head(tx_queue), txq_ofs)), FALSE)

\* One round of the transmit loop; a message that is not finished ends it.
TxRound ==
    LET m == Head(tx_queue)
        w == Written(m, txq_ofs)
        done == txq_ofs + w = Size(m)
    IN  /\ pc = "tx" /\ tx_queue # <<>>
        /\ ubus_msg_writev(m, txq_ofs)
        /\ txq_len' = Unsigned(txq_len - w)
        /\ pend' = pend - w
        /\ txq_ofs' = IF done THEN 0 ELSE txq_ofs + w
        /\ tx_queue' = IF done THEN Tail(tx_queue) ELSE tx_queue
        /\ pc' = IF done THEN "tx" ELSE "idle"
        /\ UNCHANGED <<write, ready, event, next, batch, drops, torn>>

\* The queue is empty: no more write events are wanted once one was seen.
TxDone ==
    /\ pc = "tx" /\ tx_queue = <<>>
    /\ pc' = "idle"
    /\ IF event THEN uloop_fd_add(FALSE, TRUE) ELSE UNCHANGED <<write, ready>>
    /\ UNCHANGED <<tx_queue, txq_ofs, txq_len, sock, event, next, wire, pend, batch, drops, torn>>

\* External: the peer reads n bytes, which wakes a socket waiting for room.
PeerRead(n) ==
    /\ n <= sock
    /\ sock' = sock - n
    /\ ready' = (ready \/ write)
    /\ UNCHANGED <<tx_queue, txq_ofs, txq_len, write, pc, event, next, wire, pend, batch, drops, torn>>

Next ==
    \/ \E len \in Lens : ubus_msg_send(len)
    \/ \E w \in BOOLEAN : client_cb(w)
    \/ TxRound
    \/ TxDone
    \/ \E n \in 1..SockCap : PeerRead(n)

Spec == Init /\ [][Next]_vars

\* The event loop reports a pending write event and runs a callback to its end;
\* the peer goes on reading.
FairSpec ==
    /\ Spec
    /\ WF_vars(client_cb(TRUE)) /\ WF_vars(TxRound) /\ WF_vars(TxDone)
    /\ WF_vars(\E n \in 1..SockCap : PeerRead(n))

----------------------------------------------------------------------------
(* Counters, offsets and the queue stay in their ranges.                    *)
TypeOK ==
    /\ tx_queue \in Seq(Msg)
    /\ txq_ofs \in Nat /\ txq_len \in 0..(W - 1)
    /\ write \in BOOLEAN /\ ready \in BOOLEAN /\ event \in BOOLEAN /\ torn \in BOOLEAN
    /\ sock \in 0..SockCap
    /\ pc \in {"idle", "tx"}
    /\ next \in 1..(MaxMsgs + 1)
    /\ pend \in Int /\ batch \in Nat

(* The transmit loop resumes the first message inside it, so ub->len - offset *)
(* in ubus_msg_writev is never negative.                                    *)
OffsetInHead == tx_queue # <<>> => txq_ofs < Size(Head(tx_queue))

(* A message that waits will be looked at: the daemon has asked for the write *)
(* event, and either it is pending or the socket is full, so that the peer's *)
(* next read raises it.  Edge-triggered events are lost for good.            *)
NoLostWakeup ==
    tx_queue # <<>> => write /\ (pc = "idle" => ready \/ sock = SockCap)

(* Two bytes that follow each other on the wire are neighbours in a message, *)
(* or the last of one message and the first of a later one.                  *)
Continues(b1, b2) ==
    \/ b1[1] = b2[1] /\ b2[2] = b1[2] + 1
    \/ b1[1] < b2[1] /\ b1[2] = b1[3] /\ b2[2] = 1

Framed ==
    /\ \A i \in 1..(Len(wire) - 1) : Continues(wire[i], wire[i + 1])
    /\ wire # <<>> => wire[1][2] = 1

(* Messages go out whole, in the order sent, nothing twice, whatever pieces  *)
(* the socket takes them in, until one is torn.                             *)
FramedUnlessTorn == torn \/ Framed

(* txq_len counts the bytes of the queue, less one header for every message  *)
(* queued since it was last set: the header is written but never counted.    *)
CounterMeaning == tx_queue # <<>> => txq_len = Unsigned(pend - HDR * batch)

(* The peer gets the messages ubusd queued for it: the queue drains as long  *)
(* as the peer reads.                                                       *)
QueueDrains == tx_queue # <<>> ~> tx_queue = <<>>

(* A message whose beginning is on the wire is sent to its end: `get an event *)
(* once we can write to the socket again' (ubusd.c:181).                     *)
WholeMessages == Framed

(* A message that is not on the wire yet is refused only if the queue would  *)
(* exceed UBUS_CLIENT_MAX_TXQ_LEN (ubusd.h:27).                              *)
DropOnlyWhenFull == \A d \in drops : d.written = 0 => d.pend + d.len > TXQ_MAX
=============================================================================
