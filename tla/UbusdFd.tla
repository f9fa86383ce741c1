------------------------------- MODULE UbusdFd ------------------------------
(***************************************************************************)
(* Who owns a file descriptor number in ubusd: a client's socket, a message  *)
(* half received (pending_msg_fd), or a message that waits in a transmit     *)
(* queue.  A message of type STATUS or INVOKE hands its descriptor on        *)
(* (ubusd_proto.c, ubusd.c, ubusd_main.c); every other type closes it.       *)
(*                                                                          *)
(* The kernel's part is `table', the open files of the process; a new file   *)
(* takes the lowest free number.  Every message carries a descriptor: one    *)
(* that carries none touches no number.                                     *)
(***************************************************************************)
EXTENDS Naturals, Sequences, FiniteSetsExt

CONSTANTS Client,
          NumFd,      \* descriptor numbers of the process: 1..NumFd
          MaxTxq,     \* messages at which a transmit queue is full
          MaxFile     \* bound: files opened

ASSUME SizesAssumption == {NumFd, MaxTxq, MaxFile} \subseteq Nat

VARIABLES table,   \* descriptor number -> file, 0 if free
          files,   \* files opened so far
          conn,    \* client -> its socket, NoFd if it is not connected
          pending, \* client -> the message whose body is awaited
          txq,     \* client -> its transmit queue
          invoked  \* history: an INVOKE had to wait in a queue

vars == <<table, files, conn, pending, txq, invoked>>

----------------------------------------------------------------------------
Fd == 1..NumFd
Free == 0
NoFd == [fd |-> 0, file |-> 0]
Type == {"STATUS", "INVOKE", "OTHER"}
NoMsg == [type |-> "NONE", ref |-> NoFd]

\* A reference is a number and the file it was obtained for.
Ref == [fd : 0..NumFd, file : 0..MaxFile]
Connected == {c \in Client : conn[c] # NoFd}

\* The event loop reports events of the file, which a closed number has lost.
Polled(c) == c \in Connected /\ table[conn[c].fd] = conn[c].file

close(T, fd) == IF fd = 0 THEN T ELSE [T EXCEPT ![fd] = Free]

Open(T) ==
    LET free == {n \in Fd : T[n] = Free}
    IN  IF free = {} THEN NoFd ELSE [fd |-> Min(free), file |-> files + 1]

Install(T, ref) == IF ref = NoFd THEN T ELSE [T EXCEPT ![ref.fd] = ref.file]

----------------------------------------------------------------------------
Init ==
    /\ table = [n \in Fd |-> Free] /\ files = 0
    /\ conn = [c \in Client |-> NoFd]
    /\ pending = [c \in Client |-> NoMsg]
    /\ txq = [c \in Client |-> <<>>]
    /\ invoked = FALSE

get_next_connection(c) ==
    LET ref == Open(table)
    IN  /\ c \notin Connected /\ ref # NoFd /\ files < MaxFile
        /\ table' = Install(table, ref) /\ files' = files + 1
        /\ conn' = [conn EXCEPT ![c] = ref]
        /\ UNCHANGED <<pending, txq, invoked>>

\* The header arrives, and the descriptor with it; without a free number the
\* descriptor is discarded.
RecvHeader(c, type) ==
    LET ref == Open(table)
    IN  /\ Polled(c) /\ pending[c] = NoMsg /\ files < MaxFile
        /\ table' = Install(table, ref) /\ files' = files + 1
        /\ pending' = [pending EXCEPT ![c] = [type |-> type, ref |-> ref]]
        /\ UNCHANGED <<conn, txq, invoked>>

\* ubus_msg_send: sent is how much of the message the socket takes.  What is
\* left joins the queue, unless that is full: Queued says whether it does.
Queued(d, sent) == (txq[d] # <<>> \/ sent # "all") /\ Len(txq[d]) < MaxTxq
Enqueue(d, ref, sent) ==
    IF Queued(d, sent)
    THEN [txq EXCEPT ![d] = Append(@, [ref |-> ref, sent |-> txq[d] = <<>> /\ sent = "part"])]
    ELSE txq

\* Fault: the message is freed although the queue holds it.
ResponseCloses(ref, d, sent) ==
    /\ txq' = Enqueue(d, ref, sent)
    /\ table' = close(table, ref.fd)
    /\ UNCHANGED invoked

\* The queue holds a reference to the message itself, so that ubus_msg_free
\* closes the descriptor only if the message was not queued.
ubusd_handle_response(ref, d, sent) ==
    /\ txq' = Enqueue(d, ref, sent)
    /\ table' = IF Queued(d, sent) THEN table ELSE close(table, ref.fd)
    /\ UNCHANGED invoked

\* The message goes out in a shared buffer that holds the same number; the
\* queue copies the buffer, number included (ubus_msg_ref); then both the
\* buffer and the message received are freed, and each closes the number.
ubusd_handle_invoke(ref, d, sent) ==
    /\ invoked' = (invoked \/ Queued(d, sent))
    /\ txq' = Enqueue(d, ref, sent)
    /\ table' = close(close(table, ref.fd), ref.fd)

\* The body arrives.  The message goes to a connected client, or, if its type
\* or its addressee is wrong, to nobody.
ubusd_proto_receive_message(c) ==
    LET msg == pending[c]
    IN  /\ Polled(c) /\ msg # NoMsg
        /\ pending' = [pending EXCEPT ![c] = NoMsg]
        /\ \/ /\ table' = close(table, msg.ref.fd)
              /\ UNCHANGED <<txq, invoked>>
           \/ \E d \in Connected, sent \in {"all", "part", "none"} :
                \/ msg.type = "STATUS" /\ ubusd_handle_response(msg.ref, d, sent)
                \/ msg.type = "INVOKE" /\ ubusd_handle_invoke(msg.ref, d, sent)
        /\ UNCHANGED <<files, conn>>

CloseAll(T, refs) == [n \in Fd |-> IF n \in {r.fd : r \in refs} THEN Free ELSE T[n]]

\* Fault: the descriptor of a message half received is left open.
DisconnectLeavesPending(c) ==
    LET mine == {txq[c][i].ref : i \in 1..Len(txq[c])} \cup {conn[c]}
    IN  /\ table' = CloseAll(table, mine)
        /\ txq' = [txq EXCEPT ![c] = <<>>]
        /\ pending' = [pending EXCEPT ![c] = NoMsg]
        /\ conn' = [conn EXCEPT ![c] = NoFd]
        /\ UNCHANGED <<files, invoked>>

handle_client_disconnect(c) ==
    LET mine == {txq[c][i].ref : i \in 1..Len(txq[c])} \cup {pending[c].ref, conn[c]}
    IN  /\ table' = CloseAll(table, mine)
        /\ txq' = [txq EXCEPT ![c] = <<>>]
        /\ pending' = [pending EXCEPT ![c] = NoMsg]
        /\ conn' = [conn EXCEPT ![c] = NoFd]
        /\ UNCHANGED <<files, invoked>>

\* One round of the transmit loop (client_cb goes on until the socket is full,
\* here with other handlers possible in between): a descriptor goes with the first byte, and
\* one that is not open makes sendmsg fail, which ends the connection.
TxRound(c, sent) ==
    LET head == Head(txq[c])
        bad == ~head.sent /\ head.ref # NoFd /\ table[head.ref.fd] = Free
    IN  /\ Polled(c) /\ txq[c] # <<>>
        /\ IF bad THEN handle_client_disconnect(c)
           ELSE /\ IF sent = "part"
                   THEN /\ txq' = [txq EXCEPT ![c][1].sent = TRUE]
                        /\ UNCHANGED table
                   ELSE /\ txq' = [txq EXCEPT ![c] = Tail(@)]
                        /\ table' = close(table, head.ref.fd)
                /\ UNCHANGED <<files, conn, pending, invoked>>

\* The client closes the connection, or breaks the protocol.
Disconnect(c) == Polled(c) /\ handle_client_disconnect(c)

Next ==
    \E c \in Client :
      \/ get_next_connection(c)
      \/ \E type \in Type : RecvHeader(c, type)
      \/ ubusd_proto_receive_message(c)
      \/ \E sent \in {"all", "part"} : TxRound(c, sent)
      \/ Disconnect(c)

Spec == Init /\ [][Next]_vars

----------------------------------------------------------------------------
\* What keeps a descriptor: slot 0 of a client is its socket, slot 1 the message
\* half received, and the others are the messages in its queue.
Slots(c) == 0..(Len(txq[c]) + 1)
RefAt(c, k) == IF k = 0 THEN conn[c] ELSE IF k = 1 THEN pending[c].ref ELSE txq[c][k - 1].ref

(* A type invariant: a queue keeps its limit, a client that is not connected *)
(* has no messages, and only the head of a queue is partly sent.            *)
TypeOK ==
    /\ table \in [Fd -> 0..MaxFile] /\ files \in 0..MaxFile /\ invoked \in BOOLEAN
    /\ conn \in [Client -> Ref]
    /\ pending \in [Client -> [type : Type, ref : Ref] \cup {NoMsg}]
    /\ txq \in [Client -> Seq([ref : Ref, sent : BOOLEAN])]
    /\ \A c \in Client :
         /\ Len(txq[c]) <= MaxTxq
         /\ \A i \in 1..Len(txq[c]) : txq[c][i].sent => i = 1
         /\ conn[c] = NoFd => pending[c] = NoMsg /\ txq[c] = <<>>

(* No descriptor leaks: whatever the order of receptions, partial writes and *)
(* disconnects, an open number is still held by a socket or a message that   *)
(* will close it.                                                           *)
NoFdLeak ==
    \A n \in Fd : table[n] # Free => \E c \in Client : \E k \in Slots(c) : RefAt(c, k).fd = n

(* As long as no INVOKE had to wait, a number that is held denotes the file  *)
(* it was obtained for: no socket and no waiting message is closed, or given *)
(* another file, by the handling of a different message.                    *)
FdIntact ==
    ~invoked => \A c \in Client : \A k \in Slots(c) :
                  RefAt(c, k) # NoFd => table[RefAt(c, k).fd] = RefAt(c, k).file

(* `keep the fd to be passed if it is UBUS_MSG_INVOKE' (ubusd_proto.c:81):   *)
(* a message that waits to be sent still has its descriptor.                *)
QueuedFdKept ==
    \A c \in Client : \A k \in Slots(c) \ {0, 1} :
      RefAt(c, k) # NoFd => table[RefAt(c, k).fd] = RefAt(c, k).file
=============================================================================
