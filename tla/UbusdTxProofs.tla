--------------------------- MODULE UbusdTxProofs ----------------------------
(***************************************************************************)
(* The transmit loop of ubusd resumes inside the first message, and a queue  *)
(* that is not empty always has its wakeup; txq_len is short of the queue by *)
(* one header per message; the bytes on the wire are whole messages in order *)
(* until one is torn: for every message length, socket buffer and limit.     *)
(* The second part is about the receiving half (module UbusdRx): what        *)
(* client_cb hands on are the client's requests, whole and in order, however *)
(* the stream is cut.  The third part is about the event loop of libubox     *)
(* that calls all this (modules UloopTimeout and Uloop): the timer list      *)
(* stays sorted up to a millisecond and processing it leaves no timer        *)
(* overdue by more, and no callback comes for a descriptor that was deleted. *)
(***************************************************************************)
EXTENDS UbusdTx, FiniteSetsExt, SequenceTheorems, FiniteSetTheorems, NaturalsInduction,
        WellFoundedInduction, TLAPS

TxInv == TypeOK /\ OffsetInHead /\ NoLostWakeup

(* A message has data, and its size is positive.                            *)
LEMMA MsgSize ==
  ASSUME NEW m \in Msg
  PROVE  m.len \in Nat /\ Size(m) \in Nat /\ Size(m) > 0
<1>1. m.len \in Lens
  BY DEF Msg
<1>2. m.len \in Nat /\ HDR \in Nat /\ HDR > 0
  BY <1>1, SizesAssumption
<1> QED
  BY <1>2 DEF Size

(* What sendmsg takes is within the message and within the room, and is     *)
(* short of the message only when it fills the socket.                      *)
LEMMA WrittenBounds ==
  ASSUME NEW m \in Msg, NEW ofs \in Nat, ofs < Size(m), sock \in 0..SockCap
  PROVE  /\ Size(m) \in Nat \ {0}
         /\ Written(m, ofs) \in Nat
         /\ Written(m, ofs) <= Size(m) - ofs
         /\ sock + Written(m, ofs) \in 0..SockCap
         /\ Written(m, ofs) # Size(m) - ofs => sock + Written(m, ofs) = SockCap
<1>1. Size(m) \in Nat /\ Size(m) > 0 /\ SockCap \in Nat
  BY MsgSize, SizesAssumption
<1> QED
  BY <1>1 DEF Written, Smaller

(* A counter reduced modulo W is an unsigned int.                           *)
LEMMA UnsignedRange == \A n \in Int : Unsigned(n) \in 0..(W - 1)
BY WidthAssumption, SizesAssumption DEF Unsigned

(* Appending a message keeps the head of a queue, or makes it the head.     *)
LEMMA AppendHead ==
  ASSUME NEW q \in Seq(Msg), NEW m \in Msg
  PROVE  /\ Append(q, m) \in Seq(Msg) /\ Append(q, m) # <<>>
         /\ Head(Append(q, m)) = IF q = <<>> THEN m ELSE Head(q)
BY AppendProperties

(* What ubus_msg_enqueue does to the queue and the counter, as long as the  *)
(* offset and the write event are right for the message it is given.        *)
LEMMA EnqueueKeeps ==
  ASSUME TxInv, NEW m \in Msg, NEW qlen \in 0..(W - 1), NEW w \in Nat,
         NEW old \in Int, NEW n \in Nat,
         ubus_msg_enqueue(m, qlen, w, old, n),
         w <= Size(m)
  PROVE  /\ tx_queue' \in Seq(Msg) /\ txq_len' \in 0..(W - 1)
         /\ pend' \in Int /\ batch' \in Nat /\ torn' \in BOOLEAN
         /\ \/ tx_queue' = tx_queue
            \/ tx_queue' # <<>> /\ Head(tx_queue') = IF tx_queue = <<>> THEN m ELSE Head(tx_queue)
<1>0. m.len \in Nat /\ Size(m) \in Nat /\ tx_queue \in Seq(Msg) /\ torn \in BOOLEAN
  BY MsgSize DEF TxInv, TypeOK
<1>1. CASE Unsigned(qlen + m.len) > TXQ_MAX
  BY <1>0, <1>1 DEF ubus_msg_enqueue
<1>2. CASE ~(Unsigned(qlen + m.len) > TXQ_MAX)
  <2>1. Unsigned(qlen + m.len) \in 0..(W - 1)
    <3>1. qlen + m.len \in Int
      BY <1>0
    <3> QED
      BY <3>1, UnsignedRange
  <2>2. /\ tx_queue' = Append(tx_queue, m) /\ txq_len' = Unsigned(qlen + m.len)
        /\ pend' = old + Size(m) - w /\ batch' = n + 1 /\ torn' = torn
    BY <1>2 DEF ubus_msg_enqueue
  <2> QED
    BY <1>0, <2>1, <2>2, AppendHead, SMTT(20)
<1> QED
  BY <1>1, <1>2

(* A handler that sends a message keeps the offset and the wakeup.          *)
LEMMA SendKeeps ==
  ASSUME TxInv, NEW len \in Lens, ubus_msg_send(len)
  PROVE  TxInv'
<1> DEFINE m == [id |-> next, len |-> len]
<1>0. /\ next \in 1..MaxMsgs /\ next' \in 1..(MaxMsgs + 1) /\ pc = "idle"
      /\ pc' = pc /\ event' = event /\ m \in Msg
  BY SizesAssumption DEF ubus_msg_send, TxInv, TypeOK, Msg
<1>1. Size(m) \in Nat \ {0} /\ 0 < Size(m)
  BY <1>0, MsgSize
<1>2. CASE SendDirect(m)
  <2> DEFINE w == Written(m, 0)
  <2>1. /\ w \in Nat /\ w <= Size(m) /\ sock' \in 0..SockCap
        /\ w # Size(m) => sock' = SockCap
        /\ tx_queue = <<>>
    BY <1>0, <1>1, <1>2, WrittenBounds DEF SendDirect, ubus_msg_writev, TxInv, TypeOK
  <2>2. CASE w = Size(m)
    BY <1>0, <1>2, <2>1, <2>2 DEF SendDirect, TxInv, TypeOK, OffsetInHead, NoLostWakeup
  <2>3. CASE w # Size(m)
    <3>1. /\ txq_ofs' = w /\ write' = TRUE /\ ready' \in BOOLEAN
          /\ ubus_msg_enqueue(m, Unsigned(-w), w, 0, 0)
      BY <1>2, <2>3 DEF SendDirect, uloop_fd_add
    <3>2. Unsigned(-w) \in 0..(W - 1)
      BY <2>1, UnsignedRange, SMTT(20)
    <3>3. /\ tx_queue' \in Seq(Msg) /\ txq_len' \in 0..(W - 1)
          /\ pend' \in Int /\ batch' \in Nat /\ torn' \in BOOLEAN
          /\ tx_queue' = <<>> \/ Head(tx_queue') = m
      BY <1>0, <2>1, <3>1, <3>2, EnqueueKeeps
    <3> QED
      BY <1>0, <1>1, <2>1, <2>3, <3>1, <3>3, SMTT(20) DEF TxInv, TypeOK, OffsetInHead, NoLostWakeup
  <2> QED
    BY <2>2, <2>3
<1>3. CASE SendQueued(m)
  <2>1. /\ tx_queue # <<>> /\ ubus_msg_enqueue(m, txq_len, 0, pend, batch)
        /\ UNCHANGED <<txq_ofs, write, ready, sock>>
    BY <1>3 DEF SendQueued
  <2>2. /\ tx_queue' \in Seq(Msg) /\ txq_len' \in 0..(W - 1)
        /\ pend' \in Int /\ batch' \in Nat /\ torn' \in BOOLEAN
        /\ Head(tx_queue') = Head(tx_queue)
    BY <1>0, <1>1, <2>1, EnqueueKeeps DEF TxInv, TypeOK
  <2> QED
    BY <1>0, <2>1, <2>2 DEF TxInv, TypeOK, OffsetInHead, NoLostWakeup
<1> QED
  BY <1>2, <1>3 DEF ubus_msg_send

(* A round of the transmit loop stops short of a message only when the      *)
(* socket is full, so the next read of the peer raises the event again.     *)
LEMMA RoundKeeps ==
  ASSUME TxInv, TxRound
  PROVE  TxInv'
<1> DEFINE m == Head(tx_queue)
           w == Written(m, txq_ofs)
<1>1. /\ tx_queue \in Seq(Msg) /\ tx_queue # <<>> /\ m \in Msg /\ Tail(tx_queue) \in Seq(Msg)
  BY HeadTailProperties DEF TxInv, TypeOK, TxRound
<1>2. txq_ofs \in Nat /\ txq_ofs < Size(m) /\ sock \in 0..SockCap
  BY <1>1 DEF TxInv, TypeOK, OffsetInHead
<1>3. /\ Size(m) \in Nat \ {0} /\ w \in Nat /\ w <= Size(m) - txq_ofs
      /\ sock' \in 0..SockCap
      /\ w # Size(m) - txq_ofs => sock' = SockCap
  BY <1>1, <1>2, WrittenBounds DEF TxRound, ubus_msg_writev
<1>4. txq_len' \in 0..(W - 1) /\ pend' \in Int
  <2>1. txq_len \in Int /\ pend \in Int
    BY DEF TxInv, TypeOK
  <2>2. txq_len - w \in Int /\ pend - w \in Int
    BY <1>3, <2>1
  <2>3. txq_len' = Unsigned(txq_len - w) /\ pend' = pend - w
    BY DEF TxRound
  <2> QED
    BY <2>2, <2>3, UnsignedRange
<1>5. /\ UNCHANGED <<write, ready, event, next, batch, torn>> /\ write = TRUE
  BY <1>1 DEF TxRound, TxInv, NoLostWakeup, TypeOK
<1>6. CASE txq_ofs + w = Size(m)
  <2>1. txq_ofs' = 0 /\ tx_queue' = Tail(tx_queue) /\ pc' = "tx"
    BY <1>6 DEF TxRound
  <2>2. tx_queue' # <<>> => 0 < Size(Head(tx_queue'))
    <3> SUFFICES ASSUME tx_queue' # <<>> PROVE 0 < Size(Head(tx_queue'))
      OBVIOUS
    <3>1. Head(tx_queue') \in Msg
      BY <1>1, <2>1, HeadTailProperties
    <3> QED
      BY <3>1, MsgSize
  <2> QED
    BY <1>1, <1>3, <1>4, <1>5, <2>1, <2>2 DEF TxInv, TypeOK, OffsetInHead, NoLostWakeup
<1>7. CASE txq_ofs + w # Size(m)
  <2>1. txq_ofs' = txq_ofs + w /\ tx_queue' = tx_queue /\ pc' = "idle"
    BY <1>7 DEF TxRound
  <2> QED
    BY <1>1, <1>2, <1>3, <1>4, <1>5, <1>7, <2>1, SMTT(30) DEF TxInv, TypeOK, OffsetInHead, NoLostWakeup
<1> QED
  BY <1>6, <1>7

(* The transmit queue of a client always has a way to make progress, and    *)
(* the loop never reads beyond a message.                                   *)
THEOREM TxSafe == Spec => []TxInv
<1>1. Init => TxInv
  <2>1. 0 \in 0..(W - 1) /\ 0 \in 0..SockCap /\ 1 \in 1..(MaxMsgs + 1)
    BY SizesAssumption, WidthAssumption
  <2> QED
    <3> SUFFICES ASSUME Init PROVE TxInv
      OBVIOUS
    <3>1. TypeOK
      <4>1. tx_queue \in Seq(Msg)
        BY DEF Init
      <4>2. /\ txq_ofs \in Nat /\ txq_len \in 0..(W - 1) /\ sock \in 0..SockCap
            /\ next \in 1..(MaxMsgs + 1) /\ pend \in Int /\ batch \in Nat
        BY <2>1 DEF Init
      <4>3. /\ write \in BOOLEAN /\ ready \in BOOLEAN /\ event \in BOOLEAN /\ torn \in BOOLEAN
            /\ pc \in {"idle", "tx"}
        BY DEF Init
      <4> QED
        BY <4>1, <4>2, <4>3 DEF TypeOK
    <3>2. OffsetInHead /\ NoLostWakeup
      BY DEF Init, OffsetInHead, NoLostWakeup
    <3> QED
      BY <3>1, <3>2 DEF TxInv
<1>2. TxInv /\ [Next]_vars => TxInv'
  <2> SUFFICES ASSUME TxInv, [Next]_vars PROVE TxInv'
    OBVIOUS
  <2> USE DEF TxInv, TypeOK, OffsetInHead, NoLostWakeup
  <2>1. ASSUME NEW len \in Lens, ubus_msg_send(len) PROVE TxInv'
    BY <2>1, SendKeeps
  <2>2. ASSUME NEW w \in BOOLEAN, client_cb(w) PROVE TxInv'
    BY <2>2 DEF client_cb
  <2>3. CASE TxRound
    BY <2>3, RoundKeeps
  <2>4. CASE TxDone
    BY <2>4 DEF TxDone, uloop_fd_add
  <2>5. ASSUME NEW n \in 1..SockCap, PeerRead(n) PROVE TxInv'
    BY <2>5, SizesAssumption DEF PeerRead
  <2>6. CASE UNCHANGED vars
    BY <2>6 DEF vars
  <2> QED
    BY <2>1, <2>2, <2>3, <2>4, <2>5, <2>6 DEF Next
<1> QED
  BY <1>1, <1>2, PTL DEF Spec

(* ub->len - offset in ubus_msg_writev is never negative.                   *)
THEOREM OffsetSafe == Spec => []OffsetInHead
BY TxSafe, PTL DEF TxInv

(* A queued message is never forgotten by the edge-triggered event loop.    *)
THEOREM WakeupSafe == Spec => []NoLostWakeup
BY TxSafe, PTL DEF TxInv

----------------------------------------------------------------------------
(* The counter.                                                             *)

(* Division with a remainder by the range of an unsigned int.               *)
LEMMA Divided ==
  \A a \in Int : /\ a % W \in 0..(W - 1) /\ a \div W \in Int
                 /\ a = W * (a \div W) + (a % W)
BY WidthAssumption, SizesAssumption

(* A remainder is unique.                                                   *)
LEMMA RemainderUnique ==
  ASSUME NEW q1 \in Int, NEW q2 \in Int, NEW r1 \in 0..(W - 1), NEW r2 \in 0..(W - 1),
         W * q1 + r1 = W * q2 + r2
  PROVE  r1 = r2
<1> W \in Nat /\ W > 0
  BY WidthAssumption, SizesAssumption
<1>1. W * (q1 - q2) = r2 - r1
  OBVIOUS
<1>2. CASE q1 - q2 >= 1
  <2>1. W * (q1 - q2) >= W
    BY <1>2
  <2> QED
    BY <1>1, <2>1
<1>3. CASE q1 - q2 <= -1
  <2>1. W * (q1 - q2) <= -W
    BY <1>3
  <2> QED
    BY <1>1, <2>1
<1>4. CASE q1 - q2 = 0
  BY <1>1, <1>4
<1> QED
  BY <1>2, <1>3, <1>4

(* Arithmetic on txq_len may be reduced modulo W at every step or once.     *)
LEMMA UnsignedAdd == \A a, b \in Int : Unsigned(Unsigned(a) + b) = Unsigned(a + b)
<1> TAKE a, b \in Int
<1> DEFINE c == (a % W) + b
           d == a + b
<1>0. c \in Int /\ d \in Int
  BY Divided
<1>1. /\ a = W * (a \div W) + (a % W) /\ a \div W \in Int
      /\ c = W * (c \div W) + (c % W) /\ c \div W \in Int /\ c % W \in 0..(W - 1)
      /\ d = W * (d \div W) + (d % W) /\ d \div W \in Int /\ d % W \in 0..(W - 1)
  BY <1>0, Divided
<1>2. W * ((c \div W) + (a \div W)) + (c % W) = W * (d \div W) + (d % W)
  BY <1>1, WidthAssumption
<1>3. (c \div W) + (a \div W) \in Int
  BY <1>1
<1> HIDE DEF c, d
<1>4. c % W = d % W
  BY <1>1, <1>2, <1>3, RemainderUnique
<1> QED
  BY <1>4 DEF c, d, Unsigned

(* ubus_msg_enqueue adds the data of a message to the counter, but not its   *)
(* header.                                                                  *)
LEMMA EnqueueCounts ==
  ASSUME NEW m \in Msg, NEW q \in Int, NEW w \in Nat, NEW old \in Int, NEW n \in Nat,
         ubus_msg_enqueue(m, Unsigned(q), w, old, n), q = old - w - HDR * n
  PROVE  tx_queue' # tx_queue => txq_len' = Unsigned(pend' - HDR * batch')
<1>0. m.len \in Nat /\ Size(m) = m.len + HDR /\ HDR \in Nat
  BY MsgSize, SizesAssumption DEF Size
<1>1. CASE Unsigned(Unsigned(q) + m.len) > TXQ_MAX
  BY <1>1 DEF ubus_msg_enqueue
<1>2. CASE ~(Unsigned(Unsigned(q) + m.len) > TXQ_MAX)
  <2>1. /\ txq_len' = Unsigned(Unsigned(q) + m.len)
        /\ pend' = old + Size(m) - w /\ batch' = n + 1
    BY <1>2 DEF ubus_msg_enqueue
  <2>2. txq_len' = Unsigned(q + m.len)
    <3>1. m.len \in Int
      BY <1>0
    <3>2. Unsigned(Unsigned(q) + m.len) = Unsigned(q + m.len)
      BY <3>1, UnsignedAdd
    <3> QED
      BY <2>1, <3>2
  <2>3. HDR * (n + 1) = HDR * n + HDR /\ HDR * n \in Nat
    BY <1>0
  <2>4. pend' - HDR * batch' = q + m.len
    BY <1>0, <2>1, <2>3
  <2> QED
    BY <2>2, <2>4
<1> QED
  BY <1>1, <1>2

(* What is queued is counted without its headers, and what is written is     *)
(* taken off with them: the counter keeps its meaning, modulo W.             *)
LEMMA StepCounts ==
  ASSUME TxInv, CounterMeaning, [Next]_vars
  PROVE  CounterMeaning'
<1>0. HDR \in Nat /\ pend \in Int /\ batch \in Nat /\ HDR * batch \in Nat
  BY SizesAssumption DEF TxInv, TypeOK
<1>1. ASSUME NEW len \in Lens, ubus_msg_send(len) PROVE CounterMeaning'
  <2> DEFINE m == [id |-> next, len |-> len]
  <2>0. m \in Msg /\ Size(m) \in Nat /\ 0 < Size(m) /\ sock \in 0..SockCap
    <3>1. m \in Msg
      BY <1>1, SizesAssumption DEF ubus_msg_send, TxInv, TypeOK, Msg
    <3> QED
      BY <3>1, MsgSize DEF TxInv, TypeOK
  <2>1. CASE SendDirect(m)
    <3> DEFINE w == Written(m, 0)
    <3>1. w \in Nat /\ tx_queue = <<>>
      BY <2>0, <2>1, WrittenBounds DEF SendDirect
    <3>2. CASE w = Size(m)
      BY <2>1, <3>1, <3>2 DEF SendDirect, CounterMeaning
    <3>3. CASE w # Size(m)
      <4>1. ubus_msg_enqueue(m, Unsigned(-w), w, 0, 0)
        BY <2>1, <3>3 DEF SendDirect
      <4>2. -w \in Int /\ -w = 0 - w - HDR * 0
        BY <1>0, <3>1
      <4> HIDE DEF w, m
      <4>3. tx_queue' # tx_queue => txq_len' = Unsigned(pend' - HDR * batch')
        BY <2>0, <3>1, <4>1, <4>2, EnqueueCounts
      <4> QED
        BY <3>1, <4>3 DEF CounterMeaning
    <3> QED
      BY <3>2, <3>3
  <2>2. CASE SendQueued(m)
    <3>1. tx_queue # <<>> /\ ubus_msg_enqueue(m, txq_len, 0, pend, batch)
      BY <2>2 DEF SendQueued
    <3>2. txq_len = Unsigned(pend - HDR * batch)
      BY <3>1 DEF CounterMeaning
    <3>3. pend - HDR * batch \in Int /\ pend - HDR * batch = pend - 0 - HDR * batch
      BY <1>0
    <3> HIDE DEF m
    <3>4. tx_queue' # tx_queue => txq_len' = Unsigned(pend' - HDR * batch')
      BY <1>0, <2>0, <3>1, <3>2, <3>3, EnqueueCounts
    <3>5. CASE tx_queue' = tx_queue
      <4>1. tx_queue \in Seq(Msg) /\ Append(tx_queue, m) # tx_queue
        BY <2>0, AppendProperties DEF TxInv, TypeOK
      <4>2. txq_len' = txq_len /\ pend' = pend /\ batch' = batch
        BY <3>1, <3>5, <4>1 DEF ubus_msg_enqueue
      <4> QED
        BY <3>2, <4>2 DEF CounterMeaning
    <3> QED
      BY <3>4, <3>5 DEF CounterMeaning
  <2> QED
    BY <1>1, <2>1, <2>2 DEF ubus_msg_send
<1>2. ASSUME NEW w \in BOOLEAN, client_cb(w) PROVE CounterMeaning'
  BY <1>2 DEF client_cb, CounterMeaning
<1>3. CASE TxRound
  <2> DEFINE w == Written(Head(tx_queue), txq_ofs)
  <2>1. tx_queue # <<>> /\ Head(tx_queue) \in Msg
    BY <1>3, HeadTailProperties DEF TxInv, TypeOK, TxRound
  <2>2. w \in Nat
    <3>1. txq_ofs \in Nat /\ txq_ofs < Size(Head(tx_queue)) /\ sock \in 0..SockCap
      BY <2>1 DEF TxInv, TypeOK, OffsetInHead
    <3> QED
      BY <2>1, <3>1, WrittenBounds
  <2>3. /\ txq_len = Unsigned(pend - HDR * batch)
        /\ txq_len' = Unsigned(txq_len - w) /\ pend' = pend - w /\ batch' = batch
    BY <1>3, <2>1 DEF CounterMeaning, TxRound
  <2> HIDE DEF w
  <2>4. /\ pend - HDR * batch \in Int /\ -w \in Int /\ txq_len \in Int
        /\ txq_len - w = txq_len + (-w)
        /\ (pend - HDR * batch) + (-w) = (pend - w) - HDR * batch
    BY <1>0, <2>2 DEF TxInv, TypeOK
  <2>5. Unsigned(Unsigned(pend - HDR * batch) + (-w)) = Unsigned((pend - HDR * batch) + (-w))
    BY <2>4, UnsignedAdd
  <2>6. txq_len' = Unsigned((pend - w) - HDR * batch)
    BY <2>3, <2>4, <2>5
  <2> QED
    BY <2>3, <2>6 DEF CounterMeaning
<1>4. CASE TxDone
  BY <1>4 DEF TxDone, CounterMeaning
<1>5. ASSUME NEW n \in 1..SockCap, PeerRead(n) PROVE CounterMeaning'
  BY <1>5 DEF PeerRead, CounterMeaning
<1>6. CASE UNCHANGED vars
  BY <1>6 DEF vars, CounterMeaning
<1> QED
  BY <1>1, <1>2, <1>3, <1>4, <1>5, <1>6 DEF Next

(* txq_len is the number of bytes queued less one header per message, for    *)
(* every width of the counter: the limit of ubus_msg_enqueue is compared     *)
(* with a number that drifts by a header with every message that waits.      *)
THEOREM CounterSafe == Spec => []CounterMeaning
<1>1. Init => CounterMeaning
  BY DEF Init, CounterMeaning
<1>2. TxInv /\ CounterMeaning /\ [Next]_vars => CounterMeaning'
  BY StepCounts
<1> QED
  BY <1>1, <1>2, TxSafe, PTL DEF Spec

----------------------------------------------------------------------------
(* The bytes on the wire.                                                   *)

Byte == Nat \X Nat \X Nat

\* The last message on the wire is complete, and precedes message n.
Closed(n) ==
    wire # <<>> => wire[Len(wire)][2] = wire[Len(wire)][3] /\ wire[Len(wire)][1] < n

\* The wire ends where byte ofs + 1 of message m goes on.
Meets(m, ofs) ==
    IF ofs = 0 THEN Closed(m.id)
    ELSE wire # <<>> /\ wire[Len(wire)] = <<m.id, ofs, Size(m)>>

\* The queue is in the order of sending, and the wire ends where it goes on.
QueueOrdered ==
    /\ \A i \in 1..Len(tx_queue) : tx_queue[i].id < next
    /\ \A i, j \in 1..Len(tx_queue) : i < j => tx_queue[i].id < tx_queue[j].id

WireInv ==
    /\ wire \in Seq(Byte)
    /\ ~torn => /\ Framed
                /\ IF tx_queue = <<>> THEN Closed(next) ELSE Meets(Head(tx_queue), txq_ofs)

(* What sendmsg writes of a message is a sequence of bytes.                 *)
LEMMA BytesAreBytes ==
  ASSUME NEW m \in Msg, NEW ofs \in Nat, NEW n \in Nat, wire \in Seq(Byte)
  PROVE  /\ Bytes(m, ofs, n) \in Seq(Byte) /\ Len(Bytes(m, ofs, n)) = n
         /\ wire \o Bytes(m, ofs, n) \in Seq(Byte)
<1>0. Size(m) \in Nat /\ m.id \in Nat
  BY MsgSize DEF Msg
<1>1. Bytes(m, ofs, n) \in Seq(Byte) /\ Len(Bytes(m, ofs, n)) = n
  BY <1>0 DEF Bytes, Byte
<1> QED
  BY <1>1, ConcatProperties

(* Writing the next bytes of a message where the wire meets it leaves the    *)
(* wire framed, and meeting the rest of that message.                       *)
LEMMA WriteFrames ==
  ASSUME wire \in Seq(Byte), Framed, NEW m \in Msg, NEW ofs \in Nat, Meets(m, ofs),
         NEW n \in Nat, wire' = wire \o Bytes(m, ofs, n)
  PROVE  /\ Framed'
         /\ n = 0 => wire' = wire
         /\ n > 0 => wire' # <<>> /\ wire'[Len(wire')] = <<m.id, ofs + n, Size(m)>>
<1> DEFINE B == Bytes(m, ofs, n)
           L == Len(wire)
<1>0. Size(m) \in Nat /\ m.id \in Nat
  BY MsgSize DEF Msg
<1>1. /\ B \in Seq(Byte) /\ Len(B) = n
      /\ \A i \in 1..n : B[i] = <<m.id, ofs + i, Size(m)>>
  BY <1>0 DEF Bytes, Byte
<1>2. /\ wire' \in Seq(Byte) /\ Len(wire') = L + n /\ L \in Nat
      /\ \A i \in 1..L : wire'[i] = wire[i]
      /\ \A i \in 1..n : wire'[L + i] = <<m.id, ofs + i, Size(m)>>
  <2> HIDE DEF B
  <2>1. wire' = wire \o B
    BY DEF B
  <2>2. L \in Nat
    OBVIOUS
  <2>3. /\ wire' \in Seq(Byte) /\ Len(wire') = L + n
        /\ \A i \in 1..(L + n) : wire'[i] = IF i <= L THEN wire[i] ELSE B[i - L]
    <3>1. /\ wire \o B \in Seq(Byte) /\ Len(wire \o B) = L + Len(B)
          /\ \A i \in 1..(L + Len(B)) : (wire \o B)[i] = IF i <= L THEN wire[i] ELSE B[i - L]
      BY <1>1, ConcatProperties
    <3> QED
      BY <1>1, <2>1, <3>1
  <2>4. \A i \in 1..n : wire'[L + i] = B[i]
    <3> TAKE i \in 1..n
    <3>1. L + i \in 1..(L + n) /\ ~(L + i <= L) /\ (L + i) - L = i
      BY <2>2
    <3> QED
      BY <2>3, <3>1
  <2> QED
    BY <1>1, <2>2, <2>3, <2>4, SMTT(20)
<1> HIDE DEF B
<1>3. n = 0 => wire' = wire
  BY <1>1, ConcatEmptySeq, EmptySeq DEF B
<1>4. n > 0 => wire' # <<>> /\ wire'[Len(wire')] = <<m.id, ofs + n, Size(m)>>
  BY <1>2
<1>5. ASSUME NEW i \in 1..(Len(wire') - 1) PROVE Continues(wire'[i], wire'[i + 1])
  <2>1. CASE i < L
    BY <1>2, <2>1, SMTT(20) DEF Framed
  <2>2. CASE i = L
    <3>1. n > 0 /\ wire # <<>> /\ wire'[i] = wire[L] /\ wire'[i + 1] = <<m.id, ofs + 1, Size(m)>>
      BY <1>2, <2>2
    <3>2. CASE ofs = 0
      BY <3>1, <3>2 DEF Meets, Closed, Continues
    <3>3. CASE ofs # 0
      BY <3>1, <3>3 DEF Meets, Continues
    <3> QED
      BY <3>2, <3>3
  <2>3. CASE i > L
    <3>1. PICK j \in 1..(n - 1) : i = L + j
      <4>1. i - L \in 1..(n - 1) /\ i = L + (i - L)
        BY <1>2, <2>3
      <4> QED
        BY <4>1
    <3>2. /\ wire'[i] = <<m.id, ofs + j, Size(m)>>
          /\ wire'[i + 1] = <<m.id, ofs + (j + 1), Size(m)>>
      <4>1. j \in 1..n /\ j + 1 \in 1..n /\ i + 1 = L + (j + 1)
        BY <1>2, <3>1
      <4> QED
        BY <1>2, <3>1, <4>1
    <3> QED
      BY <3>1, <3>2 DEF Continues
  <2>4. i < L \/ i = L \/ i > L
    <3>1. L \in Nat /\ i \in Int
      BY <1>2
    <3> QED
      BY <3>1
  <2> QED
    BY <2>1, <2>2, <2>3, <2>4
<1>6. wire' # <<>> => wire'[1][2] = 1
  <2>1. CASE wire # <<>>
    BY <1>2, <2>1 DEF Framed
  <2>2. CASE wire = <<>>
    BY <1>2, <2>2 DEF Meets
  <2> QED
    BY <2>1, <2>2
<1> QED
  BY <1>3, <1>4, <1>5, <1>6 DEF Framed

(* A message that is sent gets the next number, behind all that wait.        *)
LEMMA StepOrders ==
  ASSUME TxInv, QueueOrdered, [Next]_vars
  PROVE  QueueOrdered'
<1>0. tx_queue \in Seq(Msg) /\ next \in Nat
  BY DEF TxInv, TypeOK
<1>7. \A i \in 1..Len(tx_queue) : tx_queue[i].id \in Nat
  <2> TAKE i \in 1..Len(tx_queue)
  <2>1. tx_queue[i] \in Msg
    BY <1>0, ElementOfSeq
  <2> QED
    BY <2>1 DEF Msg
<1>1. ASSUME NEW len \in Lens, ubus_msg_send(len) PROVE QueueOrdered'
  <2> DEFINE m == [id |-> next, len |-> len]
  <2>0. m \in Msg /\ m.id = next /\ next' = next + 1
    BY <1>1, SizesAssumption DEF ubus_msg_send, TxInv, TypeOK, Msg
  <2>1. tx_queue' = tx_queue \/ tx_queue' = Append(tx_queue, m)
    BY <1>1 DEF ubus_msg_send, SendDirect, SendQueued, ubus_msg_enqueue
  <2> HIDE DEF m
  <2>2. CASE tx_queue' = tx_queue
    BY <1>0, <1>7, <2>0, <2>2 DEF QueueOrdered
  <2>3. CASE tx_queue' = Append(tx_queue, m)
    <3>1. /\ Len(tx_queue') = Len(tx_queue) + 1 /\ Len(tx_queue) \in Nat
          /\ \A i \in 1..Len(tx_queue) : tx_queue'[i] = tx_queue[i]
          /\ tx_queue'[Len(tx_queue) + 1] = m
      BY <1>0, <2>0, <2>3, AppendProperties, LenProperties
    <3>2. ASSUME NEW i \in 1..Len(tx_queue') PROVE tx_queue'[i].id < next'
      BY <1>0, <1>7, <2>0, <3>1 DEF QueueOrdered
    <3>3. ASSUME NEW i \in 1..Len(tx_queue'), NEW j \in 1..Len(tx_queue'), i < j
          PROVE  tx_queue'[i].id < tx_queue'[j].id
      <4>1. i \in 1..Len(tx_queue) /\ tx_queue'[i] = tx_queue[i]
        BY <3>1, <3>3
      <4>2. CASE j = Len(tx_queue) + 1
        BY <2>0, <3>1, <4>1, <4>2 DEF QueueOrdered
      <4>3. CASE j \in 1..Len(tx_queue)
        BY <3>1, <3>3, <4>1, <4>3 DEF QueueOrdered
      <4> QED
        BY <3>1, <4>2, <4>3
    <3> QED
      BY <3>2, <3>3 DEF QueueOrdered
  <2> QED
    BY <2>1, <2>2, <2>3
<1>2. ASSUME NEW w \in BOOLEAN, client_cb(w) PROVE QueueOrdered'
  BY <1>2 DEF client_cb, QueueOrdered
<1>3. CASE TxRound
  <2>1. tx_queue # <<>> /\ next' = next
    BY <1>3 DEF TxRound
  <2>2. CASE tx_queue' = tx_queue
    BY <2>1, <2>2 DEF QueueOrdered
  <2>3. CASE tx_queue' = Tail(tx_queue)
    <3>1. /\ Len(tx_queue') = Len(tx_queue) - 1 /\ Len(tx_queue) \in Nat
          /\ \A i \in 1..Len(tx_queue') : tx_queue'[i] = tx_queue[i + 1]
      BY <1>0, <2>1, <2>3, HeadTailProperties, LenProperties
    <3>2. \A i \in 1..Len(tx_queue') : i + 1 \in 1..Len(tx_queue)
      BY <3>1
    <3>3. ASSUME NEW i \in 1..Len(tx_queue') PROVE tx_queue'[i].id < next'
      BY <2>1, <3>1, <3>2 DEF QueueOrdered
    <3>4. ASSUME NEW i \in 1..Len(tx_queue'), NEW j \in 1..Len(tx_queue'), i < j
          PROVE  tx_queue'[i].id < tx_queue'[j].id
      <4>1. i + 1 < j + 1
        BY <3>1, <3>4
      <4>2. tx_queue[i + 1].id < tx_queue[j + 1].id
        BY <3>2, <4>1 DEF QueueOrdered
      <4> QED
        BY <3>1, <4>2
    <3> QED
      BY <3>3, <3>4 DEF QueueOrdered
  <2> QED
    BY <1>3, <2>2, <2>3 DEF TxRound
<1>4. CASE TxDone
  BY <1>4 DEF TxDone, QueueOrdered
<1>5. ASSUME NEW n \in 1..SockCap, PeerRead(n) PROVE QueueOrdered'
  BY <1>5 DEF PeerRead, QueueOrdered
<1>6. CASE UNCHANGED vars
  BY <1>6 DEF vars, QueueOrdered
<1> QED
  BY <1>1, <1>2, <1>3, <1>4, <1>5, <1>6 DEF Next

(* A message that is sent at once, or whose beginning is, follows a complete *)
(* one; if its rest is refused the wire is torn.                            *)
LEMMA SendFrames ==
  ASSUME TxInv, WireInv, NEW len \in Lens, ubus_msg_send(len)
  PROVE  WireInv'
<1> DEFINE m == [id |-> next, len |-> len]
<1>0. /\ m \in Msg /\ m.id = next /\ next' = next + 1 /\ next \in Nat
      /\ Size(m) \in Nat /\ 0 < Size(m) /\ sock \in 0..SockCap
      /\ torn \in BOOLEAN /\ wire \in Seq(Byte) /\ tx_queue \in Seq(Msg)
  <2>1. m \in Msg /\ m.id = next /\ next' = next + 1 /\ next \in Nat
    BY SizesAssumption DEF ubus_msg_send, TxInv, TypeOK, Msg
  <2> QED
    BY <2>1, MsgSize DEF TxInv, TypeOK, WireInv
<1>1. CASE SendDirect(m)
  <2> DEFINE w == Written(m, 0)
  <2>1. /\ w \in Nat /\ w <= Size(m) /\ tx_queue = <<>>
        /\ wire' = wire \o Bytes(m, 0, w)
    BY <1>0, <1>1, WrittenBounds DEF SendDirect, ubus_msg_writev
  <2>2. wire' \in Seq(Byte)
    BY <1>0, <2>1, BytesAreBytes
  <2> SUFFICES ASSUME ~torn'
               PROVE  /\ Framed'
                      /\ IF tx_queue' = <<>> THEN Closed(next)' ELSE Meets(Head(tx_queue), txq_ofs)'
    BY <2>2 DEF WireInv
  <2>3. ~torn
    BY <1>0, <1>1 DEF SendDirect, ubus_msg_enqueue
  <2>4. Framed /\ Closed(next) /\ Meets(m, 0)
    BY <1>0, <2>1, <2>3 DEF WireInv, Meets
  <2> HIDE DEF m, w
  <2>5. /\ Framed'
        /\ w = 0 => wire' = wire
        /\ w > 0 => wire' # <<>> /\ wire'[Len(wire')] = <<m.id, 0 + w, Size(m)>>
    BY <1>0, <2>1, <2>4, WriteFrames
  <2>6. CASE w = Size(m)
    <3>1. tx_queue' = <<>>
      BY <1>1, <2>1, <2>6 DEF SendDirect, w
    <3>2. Closed(next)'
      BY <1>0, <2>1, <2>5, <2>6 DEF Closed
    <3> QED
      BY <2>5, <3>1, <3>2
  <2>7. CASE w # Size(m)
    <3>1. txq_ofs' = w /\ ubus_msg_enqueue(m, Unsigned(-w), w, 0, 0)
      BY <1>1, <2>7 DEF SendDirect, w
    <3>2. CASE tx_queue' = <<>>
      <4>1. w = 0
        <5>1. tx_queue' # Append(tx_queue, m)
          BY <1>0, <3>2, AppendProperties
        <5>2. torn' = (torn \/ w > 0)
          BY <3>1, <5>1 DEF ubus_msg_enqueue
        <5>3. ~(w > 0)
          BY <5>2
        <5> QED
          BY <2>1, <5>3
      <4>2. ~(wire # <<>>) \/ wire[Len(wire)][1] \in Nat
        <5> SUFFICES ASSUME wire # <<>> PROVE wire[Len(wire)][1] \in Nat
          OBVIOUS
        <5>1. Len(wire) \in 1..Len(wire)
          BY <1>0, EmptySeq, LenProperties
        <5>2. wire[Len(wire)] \in Byte
          BY <1>0, <5>1, ElementOfSeq
        <5> QED
          BY <5>2 DEF Byte
      <4>3. Closed(next)'
        BY <1>0, <2>4, <2>5, <4>1, <4>2 DEF Closed
      <4> QED
        BY <2>5, <3>2, <4>3
    <3>3. CASE tx_queue' # <<>>
      <4>1. tx_queue' = Append(<<>>, m)
        BY <2>1, <3>1, <3>3 DEF ubus_msg_enqueue
      <4>2. Head(tx_queue') = m
        BY <1>0, <4>1
      <4>3. Meets(Head(tx_queue), txq_ofs)'
        BY <1>0, <2>1, <2>4, <2>5, <3>1, <4>2, SMTT(20) DEF Meets, Closed
      <4> QED
        BY <2>5, <3>3, <4>3
    <3> QED
      BY <3>2, <3>3
  <2> QED
    BY <2>6, <2>7
<1>2. CASE SendQueued(m)
  <2>1. /\ tx_queue # <<>> /\ UNCHANGED <<txq_ofs, wire>>
        /\ tx_queue' = tx_queue \/ tx_queue' = Append(tx_queue, m)
        /\ torn' = (torn \/ 0 > 0) \/ torn' = torn
    BY <1>2 DEF SendQueued, ubus_msg_enqueue
  <2>2. torn' = torn
    BY <1>0, <2>1
  <2>3. tx_queue' # <<>> /\ Head(tx_queue') = Head(tx_queue)
    BY <1>0, <2>1, AppendHead
  <2> QED
    BY <2>1, <2>2, <2>3 DEF WireInv, Framed, Meets, Closed, Size
<1> QED
  BY <1>1, <1>2 DEF ubus_msg_send

(* A round of the transmit loop goes on where the wire ends, and the next    *)
(* message begins where this one is complete.                               *)
LEMMA RoundFrames ==
  ASSUME TxInv, QueueOrdered, WireInv, TxRound
  PROVE  WireInv'
<1> DEFINE m == Head(tx_queue)
           w == Written(m, txq_ofs)
<1>1. /\ tx_queue \in Seq(Msg) /\ tx_queue # <<>> /\ m \in Msg
      /\ m = tx_queue[1] /\ Len(tx_queue) \in Nat \ {0}
  BY HeadTailProperties, EmptySeq DEF TxInv, TypeOK, TxRound
<1>2. /\ txq_ofs \in Nat /\ txq_ofs < Size(m) /\ sock \in 0..SockCap
      /\ wire \in Seq(Byte) /\ torn \in BOOLEAN /\ m.id < next
  BY <1>1 DEF TxInv, TypeOK, OffsetInHead, WireInv, QueueOrdered
<1>3. /\ Size(m) \in Nat \ {0} /\ w \in Nat /\ w <= Size(m) - txq_ofs
      /\ wire' = wire \o Bytes(m, txq_ofs, w) /\ torn' = torn /\ next' = next
  BY <1>1, <1>2, WrittenBounds DEF TxRound, ubus_msg_writev
<1>4. wire' \in Seq(Byte)
  BY <1>1, <1>2, <1>3, BytesAreBytes
<1> SUFFICES ASSUME ~torn
             PROVE  /\ Framed'
                    /\ IF tx_queue' = <<>> THEN Closed(next)' ELSE Meets(Head(tx_queue), txq_ofs)'
  BY <1>3, <1>4 DEF WireInv
<1>5. Framed /\ Meets(m, txq_ofs)
  BY <1>1 DEF WireInv
<1> HIDE DEF m, w
<1>6. /\ Framed'
      /\ w = 0 => wire' = wire
      /\ w > 0 => wire' # <<>> /\ wire'[Len(wire')] = <<m.id, txq_ofs + w, Size(m)>>
  BY <1>1, <1>2, <1>3, <1>5, WriteFrames
<1>7. CASE txq_ofs + w = Size(m)
  <2>1. txq_ofs' = 0 /\ tx_queue' = Tail(tx_queue) /\ w > 0
    BY <1>2, <1>3, <1>7 DEF TxRound, m, w
  <2>2. /\ wire' # <<>> /\ wire'[Len(wire')][1] = m.id
        /\ wire'[Len(wire')][2] = wire'[Len(wire')][3]
    BY <1>6, <1>7, <2>1
  <2>3. CASE tx_queue' = <<>>
    BY <1>2, <1>3, <1>6, <2>2, <2>3 DEF Closed
  <2>4. CASE tx_queue' # <<>>
    <3>1. Head(tx_queue') = tx_queue[2] /\ 2 \in 1..Len(tx_queue) /\ 1 \in 1..Len(tx_queue)
      BY <1>1, <2>1, <2>4, HeadTailProperties, EmptySeq
    <3>2. m.id < Head(tx_queue').id
      BY <1>1, <3>1 DEF QueueOrdered
    <3>3. Meets(Head(tx_queue), txq_ofs)'
      BY <2>1, <2>2, <3>2 DEF Meets, Closed
    <3> QED
      BY <1>6, <2>4, <3>3
  <2> QED
    BY <2>3, <2>4
<1>8. CASE txq_ofs + w # Size(m)
  <2>1. txq_ofs' = txq_ofs + w /\ tx_queue' = tx_queue
    BY <1>8 DEF TxRound, m, w
  <2>2. tx_queue' # <<>> /\ Head(tx_queue') = m
    BY <1>1, <2>1 DEF m
  <2>3. CASE w = 0
    <3>1. txq_ofs' = txq_ofs /\ wire' = wire
      BY <1>2, <1>6, <2>1, <2>3
    <3> QED
      BY <1>5, <1>6, <2>2, <3>1 DEF Meets, Closed, Size
  <2>4. CASE w # 0
    <3>1. txq_ofs' > 0 /\ wire' # <<>> /\ wire'[Len(wire')] = <<m.id, txq_ofs', Size(m)>>
      BY <1>2, <1>3, <1>6, <2>1, <2>4
    <3> QED
      BY <1>6, <2>2, <3>1 DEF Meets
  <2> QED
    BY <2>3, <2>4
<1> QED
  BY <1>7, <1>8

(* Every step keeps what is on the wire framed.                             *)
LEMMA StepFrames ==
  ASSUME TxInv, QueueOrdered, WireInv, [Next]_vars
  PROVE  WireInv'
<1> USE DEF WireInv, Framed, Closed, Meets, Size
<1>1. ASSUME NEW len \in Lens, ubus_msg_send(len) PROVE WireInv'
  BY <1>1, SendFrames
<1>2. ASSUME NEW w \in BOOLEAN, client_cb(w) PROVE WireInv'
  BY <1>2 DEF client_cb
<1>3. CASE TxRound
  BY <1>3, RoundFrames
<1>4. CASE TxDone
  BY <1>4 DEF TxDone
<1>5. ASSUME NEW n \in 1..SockCap, PeerRead(n) PROVE WireInv'
  BY <1>5 DEF PeerRead
<1>6. CASE UNCHANGED vars
  BY <1>6 DEF vars
<1> QED
  BY <1>1, <1>2, <1>3, <1>4, <1>5, <1>6 DEF Next

(* Until ubus_msg_enqueue refuses the rest of a message whose beginning is   *)
(* written, the peer reads whole messages, in the order sent, nothing twice, *)
(* for every size of messages and of the socket's buffer.                   *)
THEOREM FramingSafe == Spec => []FramedUnlessTorn
<1>1. Init => QueueOrdered /\ WireInv
  <2> SUFFICES ASSUME Init PROVE QueueOrdered /\ WireInv
    OBVIOUS
  <2>1. tx_queue = <<>> /\ wire = <<>> /\ Len(tx_queue) = 0 /\ Len(wire) = 0
    BY DEF Init
  <2>2. wire \in Seq(Byte)
    BY <2>1
  <2> QED
    BY <2>1, <2>2 DEF QueueOrdered, WireInv, Framed, Closed
<1>2. TxInv /\ QueueOrdered /\ WireInv /\ [Next]_vars => (QueueOrdered /\ WireInv)'
  BY StepOrders, StepFrames
<1>3. QueueOrdered /\ WireInv => FramedUnlessTorn
  BY DEF WireInv, FramedUnlessTorn
<1> QED
  BY <1>1, <1>2, <1>3, TxSafe, PTL DEF Spec

----------------------------------------------------------------------------
(* The receiving half of the connection (module UbusdRx).                    *)
CONSTANTS Cap
VARIABLES sent, got, peer, room, rx_pc, rx_write, registered, want, edge, eof, buf,
          pending_msg, answers, handled

Rx == INSTANCE UbusdRx WITH pc <- rx_pc, write <- rx_write, tx_queue <- answers

Length == Lens \cup {Rx!Bad}
Pieces == [m : Nat, i : Nat, n : Length]

\* What comes after piece p in the stream.
Follows(p, q) ==
    IF p.i = Rx!Size(p.n) THEN q.m = p.m + 1 /\ q.i = 1
                       ELSE q = Rx!Piece(p.m, p.i + 1, p.n)

\* The stream of the client is one of whole messages, numbered from 1, up to
\* the one that it is sending.
Stream ==
    /\ sent \in Seq(Pieces)
    /\ \A j \in 1..Len(sent) : sent[j].i >= 1 /\ sent[j].i <= Rx!Size(sent[j].n)
    /\ Len(sent) >= 1 => sent[1].m = 1 /\ sent[1].i = 1
    /\ \A j \in 1..Len(sent) : j + 1 <= Len(sent) => Follows(sent[j], sent[j + 1])

\* Pieces that belong to the messages handled so far.
Base == got - Len(buf)

\* What is buffered comes from the stream behind the messages handled so far.
Position ==
    /\ Len(buf) <= got /\ got <= Len(sent)
    /\ \A i \in 1..Len(buf) : buf[i] = sent[Base + i]
    /\ \/ Base = 0 /\ Len(handled) = 0
       \/ /\ Base > 0 /\ sent[Base].i = Rx!Size(sent[Base].n)
          /\ sent[Base].m = Len(handled)

\* It is a part of a header, or a header that was accepted and a part of the data.
Pending ==
    /\ pending_msg <=> Len(buf) >= HDR
    /\ Len(buf) >= HDR => sent[Base + 1].n # Rx!Bad /\ Len(buf) <= HDR + sent[Base + 1].n
    /\ rx_pc = "body" => Len(buf) >= HDR

RxTypes == got \in Nat /\ buf \in Seq(Pieces) /\ handled \in Seq(Seq(Pieces))

RxInv == Stream /\ RxTypes /\ Rx!RequestsWhole /\ (rx_pc # "gone" => Position /\ Pending)
----------------------------------------------------------------------------
(* A set of natural numbers that is not empty has a least element.          *)
LEMMA LeastOf ==
  ASSUME NEW S \in SUBSET Nat, S # {}
  PROVE  \E x \in S : \A y \in S : x <= y
<1>1. \E x \in S : \A y \in S : ~(<<y, x>> \in OpToRel(<, Nat))
  BY NatLessThanWellFounded, WFMin
<1>2. PICK x \in S : \A y \in S : ~(y < x)
  BY <1>1 DEF OpToRel
<1> QED
  BY <1>2

(* A message has a header.                                                  *)
LEMMA SizeIs ==
  ASSUME NEW n \in Length
  PROVE  /\ n \in Nat /\ Rx!Size(n) \in Nat /\ Rx!Size(n) >= HDR /\ HDR \in Nat /\ HDR >= 1
         /\ n # Rx!Bad => Rx!Size(n) = HDR + n
  BY SizesAssumption DEF Length, Rx!Size, Rx!Bad

(* From any piece on, the stream goes through its message without a gap.    *)
LEMMA Run ==
  ASSUME Stream, NEW a \in 1..Len(sent), NEW d \in Nat,
         a + d <= Len(sent), sent[a].i + d <= Rx!Size(sent[a].n)
  PROVE  sent[a + d] = Rx!Piece(sent[a].m, sent[a].i + d, sent[a].n)
<1>0. sent \in Seq(Pieces) /\ Len(sent) \in Nat /\ \A j \in 1..Len(sent) : sent[j] \in Pieces
  BY LenProperties, ElementOfSeq DEF Stream
<1>1. PICK p \in Pieces : p = sent[a] /\ p.m \in Nat /\ p.i \in Nat /\ p.n \in Length /\ Rx!Size(p.n) \in Nat
  BY <1>0, SizeIs DEF Pieces
<1> DEFINE S == {e \in Nat : a + e <= Len(sent) /\ p.i + e <= Rx!Size(p.n) /\ sent[a + e] # Rx!Piece(p.m, p.i + e, p.n)}
<1>2. ASSUME S # {} PROVE FALSE
  <2>1. PICK x \in S : \A y \in S : x <= y
    <3>1. S \in SUBSET Nat
      OBVIOUS
    <3> HIDE DEF S
    <3> QED
      BY <1>2, <3>1, LeastOf
  <2>2. x \in Nat /\ a + x <= Len(sent) /\ p.i + x <= Rx!Size(p.n) /\ sent[a + x] # Rx!Piece(p.m, p.i + x, p.n)
    BY <2>1
  <2>3. x # 0
    <3>1. a + 0 = a /\ p.i + 0 = p.i
      BY <1>0, <1>1
    <3>2. p = Rx!Piece(p.m, p.i, p.n)
      BY DEF Rx!Piece, Pieces
    <3>3. sent[a + 0] = Rx!Piece(p.m, p.i + 0, p.n)
      BY <1>1, <3>1, <3>2
    <3> QED
      BY <2>2, <3>3
  <2>4. PICK y \in Nat : x = y + 1
    <3>1. x - 1 \in Nat /\ x = (x - 1) + 1
      BY <2>2, <2>3
    <3> QED
      BY <3>1
  <2>5. y \notin S
    <3>1. ~(x <= y) /\ \A z \in S : x <= z
      BY <2>1, <2>2, <2>4
    <3> HIDE DEF S
    <3> QED
      BY <3>1, Zenon
  <2>6. a + y <= Len(sent) /\ p.i + y < Rx!Size(p.n) /\ a + y \in 1..Len(sent) /\ (a + y) + 1 = a + x /\ (p.i + y) + 1 = p.i + x
    <3>1. PICK z \in Nat, i \in Nat, l \in Nat, c \in Nat :
            z = Rx!Size(p.n) /\ i = p.i /\ l = Len(sent) /\ c = a /\ c >= 1
      BY <1>0, <1>1
    <3>2. c + (y + 1) <= l /\ i + (y + 1) <= z
      BY <2>2, <2>4, <3>1
    <3> HIDE DEF S
    <3>3. c + y <= l /\ c + y \in 1..l /\ (c + y) + 1 = c + (y + 1)
      BY <3>1, <3>2
    <3>4. i + y < z /\ (i + y) + 1 = i + (y + 1)
      BY <3>2
    <3> QED
      BY <2>4, <3>1, <3>3, <3>4
  <2>7. sent[a + y] = Rx!Piece(p.m, p.i + y, p.n)
    BY <1>1, <2>5, <2>6
  <2>8. sent[a + y].m = p.m /\ sent[a + y].i = p.i + y /\ sent[a + y].n = p.n
    BY <2>7 DEF Rx!Piece
  <2>9. Follows(sent[a + y], sent[(a + y) + 1])
    BY <2>2, <2>6 DEF Stream
  <2>10. sent[a + x] = Rx!Piece(p.m, (p.i + y) + 1, p.n)
    <3>1. sent[a + y].i # Rx!Size(sent[a + y].n)
      BY <1>1, <2>6, <2>8
    <3>2. sent[(a + y) + 1] = Rx!Piece(p.m, (p.i + y) + 1, p.n)
      BY <2>8, <2>9, <3>1 DEF Follows
    <3> QED
      BY <2>6, <3>2
  <2> QED
    BY <2>2, <2>6, <2>10
<1> QED
  BY <1>1, <1>2

(* The message behind Base.                                                 *)
LEMMA Current ==
  ASSUME Stream, RxTypes, Position, NEW i \in Nat, i >= 1, Base + i <= Len(sent)
  PROVE  /\ Base \in Nat /\ Base + 1 \in 1..Len(sent)
         /\ sent[Base + 1].m = Len(handled) + 1 /\ sent[Base + 1].i = 1 /\ sent[Base + 1].n \in Length
         /\ i <= Rx!Size(sent[Base + 1].n) =>
              sent[Base + i] = Rx!Piece(Len(handled) + 1, i, sent[Base + 1].n)
<1>0. /\ sent \in Seq(Pieces) /\ Len(sent) \in Nat /\ \A j \in 1..Len(sent) : sent[j] \in Pieces
      /\ got \in Nat /\ Len(buf) \in Nat /\ Len(handled) \in Nat
  BY LenProperties, ElementOfSeq DEF Stream, RxTypes
<1>1. PICK b \in Nat : b = Base
  <2>1. Len(buf) <= got
    BY DEF Position
  <2>2. Base \in Nat
    BY <1>0, <2>1 DEF Base
  <2> QED
    BY <2>2
<1>2. b + 1 \in 1..Len(sent)
  BY <1>0, <1>1
<1>3. sent[b + 1].m = Len(handled) + 1 /\ sent[b + 1].i = 1
  <2>1. CASE b = 0
    BY <1>1, <1>2, <2>1 DEF Position, Stream
  <2>2. CASE b > 0
    <3>1. sent[b].i = Rx!Size(sent[b].n) /\ sent[b].m = Len(handled)
      BY <1>1, <2>2 DEF Position
    <3>2. b \in 1..Len(sent) /\ b + 1 <= Len(sent)
      BY <1>0, <1>2, <2>2
    <3>3. Follows(sent[b], sent[b + 1])
      BY <3>2 DEF Stream
    <3> QED
      BY <3>1, <3>3 DEF Follows
  <2> QED
    BY <2>1, <2>2
<1>4. sent[b + 1].n \in Length
  BY <1>0, <1>2 DEF Pieces
<1>5. ASSUME i <= Rx!Size(sent[b + 1].n)
      PROVE  sent[b + i] = Rx!Piece(Len(handled) + 1, i, sent[b + 1].n)
  <2>1. PICK d \in Nat : i = d + 1
    <3>1. i - 1 \in Nat /\ i = (i - 1) + 1
      OBVIOUS
    <3> QED
      BY <3>1
  <2>2. (b + 1) + d = b + i /\ 1 + d = i /\ b + i <= Len(sent)
    BY <1>1, <2>1
  <2>3. sent[(b + 1) + d] = Rx!Piece(sent[b + 1].m, sent[b + 1].i + d, sent[b + 1].n)
    BY <1>2, <1>3, <1>5, <2>1, <2>2, Run
  <2> QED
    BY <1>3, <2>2, <2>3
<1> QED
  BY <1>1, <1>2, <1>3, <1>4, <1>5

(* read: at most n of the pieces that are there.                            *)
LEMMA TakeIs ==
  ASSUME Stream, RxTypes, got <= Len(sent), NEW n \in Nat
  PROVE  /\ Rx!Take(n) \in Seq(Pieces) /\ Len(Rx!Take(n)) \in Nat
         /\ Len(Rx!Take(n)) <= n /\ got + Len(Rx!Take(n)) <= Len(sent)
         /\ \A i \in 1..Len(Rx!Take(n)) : Rx!Take(n)[i] = sent[got + i]
<1>0. /\ sent \in Seq(Pieces) /\ Len(sent) \in Nat /\ \A j \in 1..Len(sent) : sent[j] \in Pieces
      /\ got \in Nat
  BY LenProperties, ElementOfSeq DEF Stream, RxTypes
<1>1. PICK l \in Nat : l = Min({got + n, Len(sent)}) /\ got <= l /\ l <= got + n /\ l <= Len(sent)
  <2>1. \E x \in {got + n, Len(sent)} : \A y \in {got + n, Len(sent)} : x <= y
    BY <1>0
  <2>2. /\ Min({got + n, Len(sent)}) \in {got + n, Len(sent)}
        /\ \A y \in {got + n, Len(sent)} : Min({got + n, Len(sent)}) <= y
    BY <2>1 DEF Min
  <2> QED
    BY <1>0, <2>2
<1>2. \A j \in (got + 1)..l : sent[j] \in Pieces
  BY <1>0, <1>1
<1>3. /\ SubSeq(sent, got + 1, l) \in Seq(Pieces)
      /\ Len(SubSeq(sent, got + 1, l)) = IF got + 1 <= l THEN (l - (got + 1)) + 1 ELSE 0
      /\ \A i \in 1..((l - (got + 1)) + 1) : SubSeq(sent, got + 1, l)[i] = sent[((got + 1) + i) - 1]
  <2>1. got + 1 \in Int /\ l \in Int
    BY <1>0, <1>1
  <2> QED
    BY <1>2, <2>1, SubSeqProperties
<1>4. Rx!Take(n) = SubSeq(sent, got + 1, l)
  BY <1>1 DEF Rx!Take, Rx!Min, Min
<1>5. Len(Rx!Take(n)) = l - got
  BY <1>0, <1>1, <1>3, <1>4
<1>6. ASSUME NEW i \in 1..Len(Rx!Take(n)) PROVE Rx!Take(n)[i] = sent[got + i]
  <2>1. i \in 1..((l - (got + 1)) + 1) /\ ((got + 1) + i) - 1 = got + i
    BY <1>0, <1>1, <1>5
  <2> QED
    BY <1>3, <1>4, <2>1
<1>7. Len(Rx!Take(n)) \in Nat /\ Len(Rx!Take(n)) <= n /\ got + Len(Rx!Take(n)) <= Len(sent)
  BY <1>0, <1>1, <1>5
<1> QED
  BY <1>3, <1>4, <1>6, <1>7

(* What was buffered and what is read make a longer part of the stream.      *)
LEMMA ReadOn ==
  ASSUME Stream, RxTypes, Position, NEW n \in Nat
  PROVE  LET new == buf \o Rx!Take(n)
         IN  /\ new \in Seq(Pieces) /\ Len(new) \in Nat
             /\ Len(new) >= Len(buf) /\ Len(new) <= Len(buf) + n
             /\ Base + Len(new) = got + Len(new) - Len(buf)
             /\ Base + Len(new) \in Nat /\ Base + Len(new) <= Len(sent)
             /\ \A i \in 1..Len(new) : new[i] = sent[Base + i]
<1>0. got \in Nat /\ buf \in Seq(Pieces) /\ Len(buf) \in Nat /\ Len(sent) \in Nat
  BY LenProperties DEF Stream, RxTypes
<1>1. Len(buf) <= got /\ got <= Len(sent) /\ \A i \in 1..Len(buf) : buf[i] = sent[Base + i]
  BY DEF Position
<1>2. PICK b \in Nat : b = Base /\ b + Len(buf) = got
  BY <1>0, <1>1 DEF Base
<1>3. PICK T \in Seq(Pieces) : /\ T = Rx!Take(n) /\ Len(T) \in Nat /\ Len(T) <= n /\ got + Len(T) <= Len(sent)
                               /\ \A i \in 1..Len(T) : T[i] = sent[got + i]
  BY <1>1, TakeIs
<1>4. PICK new \in Seq(Pieces) :
        /\ new = buf \o T /\ Len(new) = Len(buf) + Len(T)
        /\ \A i \in 1..(Len(buf) + Len(T)) : new[i] = IF i <= Len(buf) THEN buf[i] ELSE T[i - Len(buf)]
  <2>1. /\ buf \o T \in Seq(Pieces) /\ Len(buf \o T) = Len(buf) + Len(T)
        /\ \A i \in 1..(Len(buf) + Len(T)) :
             (buf \o T)[i] = IF i <= Len(buf) THEN buf[i] ELSE T[i - Len(buf)]
    BY <1>0, ConcatProperties
  <2> QED
    BY <2>1
<1>5. ASSUME NEW i \in 1..Len(new) PROVE new[i] = sent[b + i]
  <2>1. CASE i <= Len(buf)
    <3>1. i \in 1..Len(buf) /\ i \in 1..(Len(buf) + Len(T))
      BY <1>0, <1>3, <1>4, <2>1
    <3> QED
      BY <1>1, <1>2, <1>4, <2>1, <3>1
  <2>2. CASE ~(i <= Len(buf))
    <3>1. i - Len(buf) \in 1..Len(T) /\ got + (i - Len(buf)) = b + i /\ i \in 1..(Len(buf) + Len(T))
      BY <1>0, <1>2, <1>3, <1>4, <2>2
    <3>2. new[i] = T[i - Len(buf)]
      BY <1>4, <2>2, <3>1
    <3>3. T[i - Len(buf)] = sent[got + (i - Len(buf))]
      BY <1>3, <3>1
    <3> QED
      BY <3>1, <3>2, <3>3
  <2> QED
    BY <2>1, <2>2
<1>6. /\ Len(new) \in Nat /\ Len(new) >= Len(buf) /\ Len(new) <= Len(buf) + n
      /\ b + Len(new) = got + Len(new) - Len(buf) /\ b + Len(new) \in Nat /\ b + Len(new) <= Len(sent)
  <2>1. Len(new) = Len(buf) + Len(T) /\ Len(T) \in Nat /\ Len(T) <= n /\ got + Len(T) <= Len(sent)
    BY <1>3, <1>4
  <2>2. PICK t \in Nat, k \in Nat, l \in Nat : t = Len(T) /\ k = Len(buf) /\ l = Len(sent) /\ t <= n
                                            /\ got = b + k /\ (b + k) + t <= l /\ Len(new) = k + t
    BY <1>0, <1>2, <2>1
  <2>3. /\ k + t \in Nat /\ k + t >= k /\ k + t <= k + n
        /\ b + (k + t) = (b + k) + (k + t) - k /\ b + (k + t) \in Nat /\ b + (k + t) <= l
    BY <2>2
  <2> QED
    BY <2>2, <2>3
<1> QED
  BY <1>2, <1>3, <1>4, <1>5, <1>6
----------------------------------------------------------------------------
(* The invariant holds when the client has connected.                       *)
LEMMA RxInitially == Rx!Init => RxInv
<1> SUFFICES ASSUME Rx!Init PROVE RxInv
  OBVIOUS
<1>1. /\ sent = <<>> /\ buf = <<>> /\ handled = <<>> /\ got = 0 /\ rx_pc = "idle" /\ pending_msg = FALSE
      /\ Len(sent) = 0 /\ Len(buf) = 0 /\ Len(handled) = 0 /\ HDR \in Nat /\ ~(0 >= HDR)
  BY SizesAssumption, EmptySeq DEF Rx!Init
<1>2. Stream
  BY <1>1 DEF Stream
<1>3. RxTypes
  BY <1>1 DEF RxTypes
<1>4. Rx!RequestsWhole
  BY <1>1 DEF Rx!RequestsWhole
<1>5. Position
  <2>1. Base = 0
    <3>1. Base = 0 - 0
      BY <1>1 DEF Base
    <3> QED
      BY <3>1
  <2>2. Len(buf) <= got /\ got <= Len(sent) /\ 1..Len(buf) = {}
    BY <1>1
  <2> QED
    BY <1>1, <2>1, <2>2 DEF Position
<1>6. Pending
  BY <1>1 DEF Pending
<1> QED
  BY <1>2, <1>3, <1>4, <1>5, <1>6 DEF RxInv

(* The stream grows by the next piece.                                      *)
LEMMA StreamGrows ==
  ASSUME Stream, NEW q \in Pieces, sent' = Append(sent, q),
         q.i >= 1, q.i <= Rx!Size(q.n),
         sent = <<>> => q.m = 1 /\ q.i = 1,
         sent # <<>> => Follows(sent[Len(sent)], q)
  PROVE  /\ Stream' /\ Len(sent') = Len(sent) + 1
         /\ \A j \in 1..Len(sent) : sent'[j] = sent[j]
<1>0. sent \in Seq(Pieces) /\ Len(sent) \in Nat
  BY LenProperties DEF Stream
<1>1. /\ sent' \in Seq(Pieces) /\ Len(sent') = Len(sent) + 1
      /\ \A j \in 1..Len(sent) : sent'[j] = sent[j]
      /\ sent'[Len(sent) + 1] = q
  BY <1>0, AppendProperties
<1>2. ASSUME NEW j \in 1..Len(sent') PROVE sent'[j].i >= 1 /\ sent'[j].i <= Rx!Size(sent'[j].n)
  <2>1. CASE j \in 1..Len(sent)
    BY <1>1, <2>1 DEF Stream
  <2>2. CASE j = Len(sent) + 1
    BY <1>1, <2>2
  <2> QED
    BY <1>0, <1>1, <2>1, <2>2
<1>3. sent'[1].m = 1 /\ sent'[1].i = 1
  <2>1. CASE sent = <<>>
    <3>1. Len(sent) = 0
      BY <2>1
    <3> QED
      BY <1>1, <2>1, <3>1
  <2>2. CASE sent # <<>>
    <3>1. 1 \in 1..Len(sent) /\ Len(sent) >= 1
      BY <1>0, <2>2, EmptySeq
    <3> QED
      BY <1>1, <3>1 DEF Stream
  <2> QED
    BY <2>1, <2>2
<1>4. ASSUME NEW j \in 1..Len(sent'), j + 1 <= Len(sent') PROVE Follows(sent'[j], sent'[j + 1])
  <2>0. j \in 1..Len(sent)
    BY <1>0, <1>1, <1>4
  <2>1. CASE j + 1 <= Len(sent)
    <3>1. j + 1 \in 1..Len(sent)
      BY <1>0, <2>0, <2>1
    <3> QED
      BY <1>1, <2>0, <2>1, <3>1 DEF Stream
  <2>2. CASE j = Len(sent)
    <3>1. sent # <<>>
      BY <1>0, <2>0
    <3> QED
      BY <1>1, <2>0, <2>2, <3>1
  <2> QED
    BY <1>0, <1>1, <1>4, <2>0, <2>1, <2>2
<1>5. Stream'
  <2>1. \A j \in 1..Len(sent') : sent'[j].i >= 1 /\ sent'[j].i <= Rx!Size(sent'[j].n)
    BY <1>2
  <2>2. \A j \in 1..Len(sent') : j + 1 <= Len(sent') => Follows(sent'[j], sent'[j + 1])
    BY <1>4
  <2> QED
    BY <1>1, <1>3, <2>1, <2>2 DEF Stream, Rx!Size, Follows, Rx!Piece
<1> QED
  BY <1>1, <1>5

(* The client sends the next piece of a message, or the first one of the     *)
(* next.                                                                    *)
LEMMA SendStreamKeeps ==
  ASSUME RxInv, Rx!Send
  PROVE  RxInv'
<1>0. /\ Stream /\ RxTypes /\ Rx!RequestsWhole /\ sent \in Seq(Pieces) /\ Len(sent) \in Nat
      /\ got \in Nat /\ Len(buf) \in Nat /\ HDR \in Nat /\ HDR >= 1
  BY SizesAssumption, LenProperties DEF RxInv, Stream, RxTypes
<1>1. got' = got /\ buf' = buf /\ handled' = handled /\ rx_pc' = rx_pc /\ pending_msg' = pending_msg
  BY DEF Rx!Send
<1>2. Stream' /\ Len(sent') = Len(sent) + 1 /\ \A j \in 1..Len(sent) : sent'[j] = sent[j]
  <2>1. CASE Rx!Between
    <3>1. PICK n \in Length : sent' = Append(sent, Rx!Piece(IF sent = <<>> THEN 1 ELSE sent[Len(sent)].m + 1, 1, n))
      BY <2>1 DEF Rx!Send, Length
    <3>2. PICK q : q = Rx!Piece(IF sent = <<>> THEN 1 ELSE sent[Len(sent)].m + 1, 1, n)
      OBVIOUS
    <3>3. sent # <<>> => sent[Len(sent)] \in Pieces
      BY <1>0, ElementOfSeq, EmptySeq
    <3>4. /\ q \in Pieces /\ q.i = 1 /\ q.n = n
          /\ (sent = <<>> => q.m = 1) /\ (sent # <<>> => q.m = sent[Len(sent)].m + 1)
      BY <3>2, <3>3 DEF Rx!Piece, Pieces
    <3>5. sent # <<>> => Follows(sent[Len(sent)], q)
      BY <2>1, <3>4 DEF Rx!Between, Follows
    <3>6. 1 <= Rx!Size(n)
      BY <1>0, SizeIs
    <3> QED
      BY <1>0, <3>1, <3>2, <3>4, <3>5, <3>6, StreamGrows
  <2>2. CASE ~Rx!Between
    <3>1. PICK p : p = sent[Len(sent)] /\ sent' = Append(sent, Rx!Piece(p.m, p.i + 1, p.n))
      BY <2>2 DEF Rx!Send
    <3>2. /\ Len(sent) \in 1..Len(sent) /\ sent # <<>> /\ p.i # Rx!Size(p.n)
      BY <1>0, <2>2, <3>1, EmptySeq DEF Rx!Between
    <3>3. p \in Pieces /\ p.i >= 1 /\ p.i <= Rx!Size(p.n)
      BY <1>0, <3>1, <3>2, ElementOfSeq DEF Stream
    <3>4. p.m \in Nat /\ p.i \in Nat /\ p.n \in Length /\ Rx!Size(p.n) \in Nat
      BY <3>3, SizeIs DEF Pieces
    <3>5. PICK q : q = Rx!Piece(p.m, p.i + 1, p.n)
      OBVIOUS
    <3>6. q \in Pieces /\ q.i = p.i + 1 /\ q.n = p.n
      BY <3>4, <3>5 DEF Rx!Piece, Pieces
    <3>7. q.i >= 1 /\ q.i <= Rx!Size(q.n)
      BY <3>2, <3>3, <3>4, <3>6
    <3>8. Follows(sent[Len(sent)], q)
      BY <3>1, <3>2, <3>5 DEF Follows
    <3> QED
      BY <1>0, <3>1, <3>2, <3>5, <3>6, <3>7, <3>8, StreamGrows
  <2> QED
    BY <2>1, <2>2
<1>3. RxTypes' /\ Rx!RequestsWhole'
  BY <1>0, <1>1 DEF RxTypes, Rx!RequestsWhole, Rx!Message, Rx!Size, Rx!Piece
<1>4. ASSUME rx_pc # "gone" PROVE Position' /\ Pending'
  <2>1. Position /\ Pending
    BY <1>4 DEF RxInv
  <2>2. Len(buf) <= got /\ got <= Len(sent)
    BY <2>1 DEF Position
  <2>3. PICK b \in Nat : b = Base /\ Base' = b /\ b + Len(buf) = got
    BY <1>0, <1>1, <2>2 DEF Base
  <2>4. \A i \in 1..Len(buf) : sent'[b + i] = sent[b + i]
    <3> TAKE i \in 1..Len(buf)
    <3>1. b + i \in 1..Len(sent)
      BY <1>0, <2>2, <2>3
    <3> QED
      BY <1>2, <3>1
  <2>5. b > 0 => sent'[b] = sent[b]
    <3>1. b > 0 => b \in 1..Len(sent)
      BY <1>0, <2>2, <2>3
    <3> QED
      BY <1>2, <3>1
  <2>6. Position'
    <3>1. got <= Len(sent')
      BY <1>0, <1>2, <2>2
    <3> QED
      BY <1>1, <2>1, <2>2, <2>3, <2>4, <2>5, <3>1 DEF Position, Rx!Size
  <2>7. Len(buf) >= HDR => 1 \in 1..Len(buf)
    BY <1>0
  <2>8. Pending'
    BY <1>1, <2>1, <2>3, <2>4, <2>7 DEF Pending
  <2> QED
    BY <2>6, <2>8
<1> QED
  BY <1>1, <1>2, <1>3, <1>4 DEF RxInv

(* Steps that neither read nor hand on a message.                           *)
LEMMA OthersKeep ==
  ASSUME RxInv, UNCHANGED <<sent, got, handled>>,
         \/ rx_pc' = "gone" /\ buf' = <<>>
         \/ /\ rx_pc # "gone" /\ UNCHANGED <<buf, pending_msg>>
            /\ rx_pc' # "body" \/ pending_msg
         \/ UNCHANGED <<rx_pc, buf, pending_msg>>
  PROVE  RxInv'
<1>1. Stream' /\ Rx!RequestsWhole'
  BY DEF RxInv, Stream, Rx!RequestsWhole, Follows, Rx!Message, Rx!Size, Rx!Piece
<1>2. CASE rx_pc' = "gone" /\ buf' = <<>>
  <2>1. RxTypes'
    BY <1>2 DEF RxInv, RxTypes
  <2> QED
    BY <1>1, <1>2, <2>1 DEF RxInv
<1>3. CASE rx_pc # "gone" /\ UNCHANGED <<buf, pending_msg>> /\ (rx_pc' # "body" \/ pending_msg)
  <2>1. RxTypes'
    BY <1>3 DEF RxInv, RxTypes
  <2>2. Position /\ Pending
    BY <1>3 DEF RxInv
  <2>3. Position'
    BY <1>3, <2>2 DEF Position, Base, Rx!Size
  <2>4. Pending'
    BY <1>3, <2>2 DEF Pending, Base
  <2> QED
    BY <1>1, <2>1, <2>3, <2>4 DEF RxInv
<1>4. CASE UNCHANGED <<rx_pc, buf, pending_msg>>
  <2>1. RxTypes'
    BY <1>4 DEF RxInv, RxTypes
  <2>2. rx_pc' # "gone" => Position' /\ Pending'
    BY <1>4 DEF RxInv, Position, Pending, Base, Rx!Size
  <2> QED
    BY <1>1, <2>1, <2>2 DEF RxInv
<1> QED
  BY <1>2, <1>3, <1>4

(* What is read but does not complete a message is buffered.                *)
LEMMA BufferKeeps ==
  ASSUME Stream, RxTypes, Position, NEW n \in Nat,
         got' = got + Len(buf \o Rx!Take(n)) - Len(buf), buf' = buf \o Rx!Take(n),
         UNCHANGED <<sent, handled>>
  PROVE  RxTypes' /\ Position' /\ Base' = Base
<1>1. PICK new \in Seq(Pieces) :
        /\ new = buf \o Rx!Take(n) /\ Len(new) \in Nat /\ Base + Len(new) = got + Len(new) - Len(buf)
        /\ Base + Len(new) \in Nat /\ Base + Len(new) <= Len(sent)
        /\ \A i \in 1..Len(new) : new[i] = sent[Base + i]
  BY ReadOn
<1>2. PICK b \in Nat : b = Base /\ got \in Nat /\ Len(buf) \in Nat
  <2>1. Len(buf) <= got /\ got \in Nat /\ Len(buf) \in Nat
    BY LenProperties DEF Position, RxTypes
  <2>2. Base \in Nat
    BY <2>1 DEF Base
  <2> QED
    BY <2>1, <2>2
<1>3. got' = b + Len(new) /\ buf' = new
  BY <1>1, <1>2
<1>4. Base' = b
  BY <1>1, <1>2, <1>3 DEF Base
<1>5. RxTypes'
  BY <1>1, <1>2, <1>3 DEF RxTypes
<1>6. Position'
  <2>1. Len(buf') <= got' /\ got' <= Len(sent)
    BY <1>1, <1>2, <1>3
  <2>2. \A i \in 1..Len(buf') : buf'[i] = sent[b + i]
    BY <1>1, <1>2, <1>3
  <2> QED
    BY <1>2, <1>4, <2>1, <2>2 DEF Position, Rx!Size
<1> QED
  BY <1>2, <1>4, <1>5, <1>6
(* client_cb up to the header: one that is refused ends the connection.      *)
LEMMA ReadHeaderKeeps ==
  ASSUME RxInv, Rx!ReadHeader
  PROVE  RxInv'
<1>0. /\ rx_pc = "rx" /\ Stream /\ RxTypes /\ Rx!RequestsWhole /\ Position /\ Pending
      /\ UNCHANGED <<sent, handled>> /\ HDR \in Nat /\ HDR >= 1 /\ Len(buf) \in Nat
  BY SizesAssumption, LenProperties DEF RxInv, RxTypes, Rx!ReadHeader, Rx!client
<1>1. CASE ~(~eof /\ Len(buf) < HDR)
  <2>1. UNCHANGED <<got, buf, pending_msg>> /\ rx_pc' = IF pending_msg THEN "body" ELSE "out"
    BY <1>1 DEF Rx!ReadHeader, Rx!pending_msg_offset
  <2> QED
    BY <1>0, <2>1, OthersKeep
<1>2. CASE ~eof /\ Len(buf) < HDR
  <2>0. PICK n \in Nat : n = HDR - Len(buf)
    <3>1. HDR - Len(buf) \in Nat
      BY <1>0, <1>2
    <3> QED
      BY <3>1
  <2>1. PICK new : new = buf \o Rx!Take(n)
    OBVIOUS
  <2>2. /\ got' = got + Len(new) - Len(buf)
        /\ IF Len(new) < HDR
           THEN rx_pc' = "out" /\ buf' = new /\ pending_msg' = pending_msg
           ELSE IF new[HDR].n = Rx!Bad
           THEN rx_pc' = "gone" /\ buf' = <<>>
           ELSE rx_pc' = "body" /\ buf' = new /\ pending_msg' = TRUE
    BY <1>2, <2>0, <2>1 DEF Rx!ReadHeader, Rx!pending_msg_offset, Rx!handle_client_disconnect
  <2>3. /\ new \in Seq(Pieces) /\ Len(new) \in Nat /\ Len(new) <= Len(buf) + n
        /\ Base + Len(new) = got + Len(new) - Len(buf)
        /\ Base + Len(new) \in Nat /\ Base + Len(new) <= Len(sent)
        /\ \A i \in 1..Len(new) : new[i] = sent[Base + i]
    BY <1>0, <2>1, ReadOn
  <2>4. Stream' /\ Rx!RequestsWhole'
    BY <1>0 DEF Stream, Rx!RequestsWhole, Follows, Rx!Message, Rx!Size, Rx!Piece
  <2>5. ~pending_msg
    BY <1>0, <1>2 DEF Pending
  <2>6. CASE Len(new) < HDR
    <3>1. RxTypes' /\ Position' /\ Base' = Base
      BY <1>0, <2>1, <2>2, <2>6, BufferKeeps
    <3>2. Pending'
      BY <1>0, <2>2, <2>3, <2>5, <2>6 DEF Pending
    <3> QED
      BY <2>4, <3>1, <3>2 DEF RxInv
  <2>7. CASE ~(Len(new) < HDR) /\ new[HDR].n = Rx!Bad
    <3>1. RxTypes'
      <4>1. got' \in Nat
        BY <2>2, <2>3
      <4> QED
        BY <1>0, <2>2, <2>7, <4>1 DEF RxTypes
    <3> QED
      BY <2>2, <2>4, <2>7, <3>1 DEF RxInv
  <2>8. CASE ~(Len(new) < HDR) /\ new[HDR].n # Rx!Bad
    <3>1. RxTypes' /\ Position' /\ Base' = Base
      BY <1>0, <2>1, <2>2, <2>8, BufferKeeps
    <3>2. Len(new) = HDR
      BY <1>0, <2>0, <2>3, <2>8
    <3>3. HDR \in 1..Len(new) /\ Base + HDR <= Len(sent)
      BY <1>0, <2>3, <3>2
    <3>4. /\ sent[Base + 1].n \in Length
          /\ HDR <= Rx!Size(sent[Base + 1].n) =>
               sent[Base + HDR] = Rx!Piece(Len(handled) + 1, HDR, sent[Base + 1].n)
      BY <1>0, <3>3, Current
    <3>5. new[HDR] = Rx!Piece(Len(handled) + 1, HDR, sent[Base + 1].n)
      BY <1>0, <2>3, <3>3, <3>4, SizeIs
    <3>6. sent[Base + 1].n # Rx!Bad /\ sent[Base + 1].n \in Nat
      BY <2>8, <3>4, <3>5, SizeIs DEF Rx!Piece
    <3>7. HDR <= HDR + sent[Base + 1].n
      BY <1>0, <3>6
    <3>8. buf' = new /\ pending_msg' = TRUE /\ sent' = sent
      BY <1>0, <2>2, <2>8
    <3>9. Pending'
      BY <1>0, <3>1, <3>2, <3>6, <3>7, <3>8 DEF Pending
    <3> QED
      BY <2>4, <3>1, <3>9 DEF RxInv
  <2> QED
    BY <2>6, <2>7, <2>8
<1> QED
  BY <1>1, <1>2

(* client_cb from the header on: when the data are complete, what is handed  *)
(* on is the next message.                                                  *)
LEMMA ReadBodyKeeps ==
  ASSUME RxInv, Rx!ReadBody
  PROVE  RxInv'
<1>0. /\ rx_pc = "body" /\ Stream /\ RxTypes /\ Rx!RequestsWhole /\ Position /\ Pending
      /\ sent' = sent /\ HDR \in Nat /\ HDR >= 1 /\ Len(buf) \in Nat /\ Len(sent) \in Nat /\ got \in Nat
      /\ handled \in Seq(Seq(Pieces)) /\ Len(handled) \in Nat
  BY SizesAssumption, LenProperties DEF RxInv, RxTypes, Rx!ReadBody, Rx!client, Stream
<1>1. Len(buf) >= HDR /\ sent[Base + 1].n # Rx!Bad /\ Len(buf) <= HDR + sent[Base + 1].n /\ pending_msg
  BY <1>0 DEF Pending
<1>2. /\ Len(buf) <= got /\ got <= Len(sent) /\ \A i \in 1..Len(buf) : buf[i] = sent[Base + i]
  BY <1>0 DEF Position
<1>3. PICK b \in Nat : b = Base /\ b + Len(buf) = got
  <2>1. Base \in Nat /\ Base + Len(buf) = got
    BY <1>0, <1>2 DEF Base, RxTypes
  <2> QED
    BY <2>1
<1>4. PICK m \in Nat : m = Len(handled) + 1
  BY <1>0
<1>5. ASSUME NEW i \in Nat, i >= 1, b + i <= Len(sent)
      PROVE  /\ sent[b + 1].n \in Length
             /\ i <= Rx!Size(sent[b + 1].n) => sent[b + i] = Rx!Piece(m, i, sent[b + 1].n)
  BY <1>0, <1>3, <1>4, <1>5, Current
<1>6. PICK N \in Nat : N = sent[b + 1].n /\ N # Rx!Bad /\ N \in Length /\ Rx!Size(N) = HDR + N
  <2>1. 1 \in Nat /\ b + 1 <= Len(sent)
    BY <1>0, <1>1, <1>2, <1>3
  <2>2. sent[b + 1].n \in Length
    BY <1>5, <2>1
  <2> QED
    BY <1>1, <1>3, <2>2, SizeIs
<1>7. buf[HDR].n = N
  <2>1. HDR \in 1..Len(buf) /\ b + HDR <= Len(sent) /\ HDR <= Rx!Size(N)
    BY <1>0, <1>1, <1>2, <1>3, <1>6
  <2>2. buf[HDR] = sent[b + HDR]
    BY <1>2, <1>3, <2>1
  <2>3. sent[b + HDR] = Rx!Piece(m, HDR, N)
    BY <1>0, <1>5, <1>6, <2>1
  <2> QED
    BY <2>2, <2>3 DEF Rx!Piece
<1>8. PICK n \in Nat : n = N - (Len(buf) - HDR) /\ Len(buf) + n = HDR + N
  <2>1. Len(buf) <= HDR + N
    BY <1>1, <1>3, <1>6
  <2>2. N - (Len(buf) - HDR) \in Nat /\ Len(buf) + (N - (Len(buf) - HDR)) = HDR + N
    BY <1>0, <1>1, <2>1
  <2> QED
    BY <2>2
<1>9. PICK new : new = buf \o Rx!Take(n)
  OBVIOUS
<1>10. /\ got' = got + Len(new) - Len(buf)
       /\ IF Len(new) < Len(buf) + n
          THEN rx_pc' = "out" /\ buf' = new /\ pending_msg' = pending_msg /\ handled' = handled
          ELSE /\ handled' = Append(handled, new)
               /\ buf' = <<>> /\ pending_msg' = FALSE /\ rx_pc' = "rx"
  BY <1>7, <1>8, <1>9 DEF Rx!ReadBody, Rx!Accept, Rx!pending_msg_offset
<1>11. /\ new \in Seq(Pieces) /\ Len(new) \in Nat /\ Len(new) >= Len(buf) /\ Len(new) <= HDR + N
       /\ b + Len(new) = got + Len(new) - Len(buf)
       /\ b + Len(new) \in Nat /\ b + Len(new) <= Len(sent)
       /\ \A i \in 1..Len(new) : new[i] = sent[b + i]
  BY <1>0, <1>3, <1>8, <1>9, ReadOn
<1>12. Stream'
  BY <1>0 DEF Stream, Follows, Rx!Size, Rx!Piece
<1>13. CASE Len(new) < HDR + N
  <2>1. rx_pc' = "out" /\ buf' = new /\ pending_msg' = pending_msg /\ handled' = handled
    BY <1>8, <1>10, <1>13
  <2>2. RxTypes' /\ Position' /\ Base' = b
    BY <1>0, <1>3, <1>9, <1>10, <2>1, BufferKeeps
  <2>3. Rx!RequestsWhole'
    BY <1>0, <2>1 DEF Rx!RequestsWhole, Rx!Message, Rx!Size, Rx!Piece
  <2>4. Len(new) >= HDR /\ Len(new) <= HDR + sent[b + 1].n
    BY <1>0, <1>1, <1>6, <1>11
  <2>5. Pending'
    BY <1>0, <1>1, <1>6, <2>1, <2>2, <2>4 DEF Pending
  <2> QED
    BY <1>12, <2>2, <2>3, <2>5 DEF RxInv
<1>14. CASE ~(Len(new) < HDR + N)
  <2>1. rx_pc' = "rx" /\ buf' = <<>> /\ pending_msg' = FALSE /\ handled' = Append(handled, new)
    BY <1>8, <1>10, <1>14
  <2>2. Len(new) = HDR + N
    BY <1>11, <1>14, <1>0
  <2>3. new = Rx!Message(m, N)
    <3>1. \A i \in 1..Len(new) : new[i] = Rx!Piece(m, i, N)
      <4> TAKE i \in 1..Len(new)
      <4>0. PICK l \in Nat : l = Len(new) /\ b + l <= Len(sent) /\ l = Rx!Size(N) /\ i \in 1..l
        BY <1>6, <1>11, <2>2
      <4>1. i \in Nat /\ i >= 1 /\ b + i <= Len(sent) /\ i <= Rx!Size(N)
        BY <1>0, <4>0
      <4>2. sent[b + i] = Rx!Piece(m, i, N)
        BY <1>5, <1>6, <4>1
      <4> QED
        BY <1>11, <4>2
    <3>2. new = [i \in 1..Len(new) |-> new[i]]
      BY <1>11
    <3> QED
      BY <1>6, <2>2, <3>1, <3>2 DEF Rx!Message
  <2>4. new[HDR].n = N
    <3>1. HDR \in 1..Rx!Size(N)
      BY <1>0, <1>6
    <3> QED
      BY <2>3, <3>1 DEF Rx!Message, Rx!Piece
  <2>5. /\ handled' \in Seq(Seq(Pieces)) /\ Len(handled') = m
        /\ \A k \in 1..Len(handled) : handled'[k] = handled[k]
        /\ handled'[m] = new
    BY <1>0, <1>4, <1>11, <2>1, AppendProperties
  <2>6. Rx!RequestsWhole'
    <3> SUFFICES ASSUME NEW k \in 1..m PROVE handled'[k] = Rx!Message(k, handled'[k][HDR].n)
      BY <2>5 DEF Rx!RequestsWhole, Rx!Message, Rx!Size, Rx!Piece
    <3>1. CASE k = m
      BY <2>3, <2>4, <2>5, <3>1
    <3>2. CASE k \in 1..Len(handled)
      BY <1>0, <2>5, <3>2 DEF Rx!RequestsWhole
    <3> QED
      BY <1>0, <1>4, <3>1, <3>2
  <2>7. RxTypes'
    <3>1. got' \in Nat
      BY <1>10, <1>11
    <3> QED
      BY <2>1, <2>5, <3>1 DEF RxTypes
  <2>8. PICK g \in Nat : g = got' /\ g = b + Rx!Size(N) /\ g > 0 /\ g <= Len(sent)
    <3>1. got' = b + Rx!Size(N) /\ b + Rx!Size(N) \in Nat /\ b + Rx!Size(N) <= Len(sent)
      BY <1>6, <1>10, <1>11, <2>2
    <3>2. b + Rx!Size(N) > 0
      BY <1>0, <1>6
    <3> QED
      BY <3>1, <3>2
  <2>9. sent[g] = Rx!Piece(m, Rx!Size(N), N)
    <3>1. Rx!Size(N) \in Nat /\ Rx!Size(N) >= 1 /\ Rx!Size(N) <= Rx!Size(N)
      BY <1>0, <1>6
    <3>2. b + Rx!Size(N) <= Len(sent)
      BY <2>8
    <3> QED
      BY <1>5, <1>6, <2>8, <3>1, <3>2
  <2>10. Len(buf') = 0 /\ Base' = g
    BY <2>1, <2>8 DEF Base
  <2>11. Position'
    <3>1. sent[g].i = Rx!Size(N) /\ sent[g].n = N /\ sent[g].m = m
      BY <2>9 DEF Rx!Piece
    <3>2. Len(buf') <= got' /\ got' <= Len(sent') /\ 1..Len(buf') = {} /\ sent' = sent /\ Len(handled') = m
      BY <1>0, <2>5, <2>8, <2>10
    <3> QED
      BY <2>8, <2>10, <3>1, <3>2 DEF Position, Rx!Size
  <2>12. Pending'
    BY <1>0, <2>1, <2>10 DEF Pending
  <2> QED
    BY <1>12, <2>6, <2>7, <2>11, <2>12 DEF RxInv
<1> QED
  BY <1>13, <1>14

(* Every step keeps the invariant.                                          *)
LEMMA RxStep == RxInv /\ [Rx!Next]_(Rx!vars) => RxInv'
<1> SUFFICES ASSUME RxInv, [Rx!Next]_(Rx!vars) PROVE RxInv'
  OBVIOUS
<1>1. CASE Rx!Send
  BY <1>1, SendStreamKeeps
<1>2. CASE Rx!Read
  BY <1>2, OthersKeep DEF Rx!Read, Rx!client
<1>3. CASE \E how \in {"half", "closed"} : Rx!Close(how)
  BY <1>3, OthersKeep DEF Rx!Close
<1>4. CASE Rx!client_cb
  BY <1>4, OthersKeep DEF Rx!client_cb, Rx!client
<1>5. CASE Rx!Transmit
  <2>1. UNCHANGED <<sent, got, handled>> /\ rx_pc = "tx"
    BY <1>5 DEF Rx!Transmit, Rx!client
  <2>2. \/ rx_pc' = "gone" /\ buf' = <<>>
        \/ UNCHANGED <<buf, pending_msg>> /\ (rx_pc' = "rx" \/ rx_pc' = rx_pc)
    BY <1>5 DEF Rx!Transmit, Rx!handle_client_disconnect
  <2> QED
    BY <2>1, <2>2, OthersKeep
<1>6. CASE Rx!ReadHeader
  BY <1>6, ReadHeaderKeeps
<1>7. CASE Rx!ReadBody
  BY <1>7, ReadBodyKeeps
<1>8. CASE Rx!Out
  <2>1. UNCHANGED <<sent, got, handled>> /\ rx_pc = "out"
    BY <1>8 DEF Rx!Out, Rx!client
  <2>2. \/ rx_pc' = "gone" /\ buf' = <<>>
        \/ UNCHANGED <<buf, pending_msg>> /\ rx_pc' = "idle"
    BY <1>8 DEF Rx!Out, Rx!handle_client_disconnect
  <2> QED
    BY <2>1, <2>2, OthersKeep
<1>9. CASE UNCHANGED Rx!vars
  BY <1>9, OthersKeep DEF Rx!vars, Rx!client
<1> QED
  BY <1>1, <1>2, <1>3, <1>4, <1>5, <1>6, <1>7, <1>8, <1>9 DEF Rx!Next, Rx!Daemon

(* What client_cb hands on to ubusd_proto_receive_message are the client's   *)
(* requests, each one whole, once and in order, however the stream is cut    *)
(* into reads and whenever eof, an error or a waiting answer intervenes.     *)
THEOREM WholeRequests == Rx!Spec => []Rx!RequestsWhole
<1>1. RxInv => Rx!RequestsWhole
  BY DEF RxInv
<1> QED
  BY <1>1, RxInitially, RxStep, PTL DEF Rx!Spec

----------------------------------------------------------------------------
(* The event loop under it, and first its timers.                           *)

CONSTANTS Timer, Clock, Delay
VARIABLES now, time, timeouts, timer_pc, tv

Timers == INSTANCE UloopTimeout WITH pc <- timer_pc


Time == Int \X Int

(* What tv_diff's rounding costs: a difference of at most 0 is less than a   *)
(* millisecond, a positive one is at least a microsecond.                    *)
LEMMA ThousandthBounds ==
    ASSUME NEW n \in Int
    PROVE  /\ Timers!Thousandth(n) \in Int
           /\ n >= 0 => 1000 * Timers!Thousandth(n) <= n /\ n < 1000 * Timers!Thousandth(n) + 1000
           /\ n < 0 => n <= 1000 * Timers!Thousandth(n) /\ 1000 * Timers!Thousandth(n) < n + 1000
  BY SMT DEF Timers!Thousandth

(* tv_diff, against the times in microseconds.                              *)
LEMMA DiffBounds ==
    ASSUME NEW a \in Time, NEW b \in Time
    PROVE  /\ Timers!Us(a) \in Int
           /\ Timers!tv_diff(a, b) <= 0 => Timers!Us(a) - Timers!Us(b) < 1000
           /\ Timers!tv_diff(a, b) > 0 => Timers!Us(a) - Timers!Us(b) > 0
  <1> DEFINE s == a[1] - b[1]
             u == a[2] - b[2]
             h == Timers!Thousandth(u)
  <1>1. s \in Int /\ u \in Int /\ a[1] \in Int /\ a[2] \in Int /\ b[1] \in Int /\ b[2] \in Int
    BY DEF Time
  <1>2. Timers!Us(a) \in Int /\ Timers!Us(a) - Timers!Us(b) = s * 1000000 + u
    BY <1>1, SMT DEF Timers!Us
  <1>3. Timers!tv_diff(a, b) = s * 1000 + h
    BY DEF Timers!tv_diff
  <1> HIDE DEF s, u
  <1>4. /\ h \in Int
        /\ u >= 0 => 1000 * h <= u /\ u < 1000 * h + 1000
        /\ u < 0 => u <= 1000 * h /\ 1000 * h < u + 1000
    BY <1>1, ThousandthBounds
  <1> HIDE DEF h
  <1> QED BY <1>1, <1>2, <1>3, <1>4, SMT

(* uloop_gettime gives the time it is called.                               *)
LEMMA ClockTime ==
    ASSUME NEW n \in Nat
    PROVE  Timers!uloop_gettime(n) \in Time /\ Timers!Us(Timers!uloop_gettime(n)) = n
  BY SMT DEF Timers!uloop_gettime, Timers!Us, Time

(* uloop_timeout_set adds the delay, with the carry.                        *)
LEMMA ExpiryTime ==
    ASSUME NEW n \in Nat, NEW d \in Nat
    PROVE  Timers!Expiry(n, d) \in Time /\ Timers!Us(Timers!Expiry(n, d)) = n + d * 1000
  BY SMT DEF Timers!Expiry, Timers!Us, Time

(* Taking out entry k shifts those behind it.                               *)
LEMMA WithoutList ==
    ASSUME NEW S, NEW list \in Seq(S), NEW k \in 1..Len(list)
    PROVE  /\ Timers!Without(list, k) \in Seq(S)
           /\ Len(Timers!Without(list, k)) = Len(list) - 1
           /\ \A i \in 1..(Len(list) - 1) :
                /\ i < k => Timers!Without(list, k)[i] = list[i]
                /\ i >= k => Timers!Without(list, k)[i] = list[i + 1]
  BY SMT DEF Timers!Without

(* Entering an entry at place k shifts those from k on.                     *)
LEMMA InsertedList ==
    ASSUME NEW S, NEW list \in Seq(S), NEW k \in 1..(Len(list) + 1), NEW x \in S
    PROVE  /\ Timers!Inserted(list, x, k) \in Seq(S)
           /\ Len(Timers!Inserted(list, x, k)) = Len(list) + 1
           /\ Timers!Inserted(list, x, k)[k] = x
           /\ \A i \in 1..(Len(list) + 1) :
                /\ i < k => Timers!Inserted(list, x, k)[i] = list[i]
                /\ i > k => Timers!Inserted(list, x, k)[i] = list[i - 1]
  BY SMT DEF Timers!Inserted

(* Taking an entry out keeps the list sorted.                               *)
LEMMA WithoutSorted ==
    ASSUME NEW S, NEW T, NEW list \in Seq(S), NEW k \in 1..Len(list), Timers!SortedList(list, T)
    PROVE  Timers!SortedList(Timers!Without(list, k), T)
  <1> DEFINE w == Timers!Without(list, k)
             at(i) == IF i < k THEN i ELSE i + 1
  <1>1. Len(w) = Len(list) - 1 /\ Len(list) \in Nat
    BY WithoutList
  <1>2. ASSUME NEW i \in 1..Len(w)
        PROVE  at(i) \in 1..Len(list) /\ w[i] = list[at(i)]
    BY <1>1, WithoutList, SMT
  <1>3. \A i, j \in 1..Len(w) : i < j => at(i) < at(j)
    BY <1>1, SMT
  <1> HIDE DEF w, at
  <1>4. \A i, j \in 1..Len(w) : i < j => Timers!Us(T[w[i]]) - Timers!Us(T[w[j]]) < 1000
    BY <1>2, <1>3, SMT DEF Timers!SortedList
  <1> QED BY <1>4 DEF Timers!SortedList, w

(* Where uloop_timeout_add puts a timer, the list stays sorted: what is      *)
(* before it is not later by a millisecond, and what is behind it is behind  *)
(* a timer that is later.                                                   *)
LEMMA InsertedSorted ==
    ASSUME NEW S, NEW T \in [S -> Time], NEW list \in Seq(S), NEW x \in S, NEW k,
           Timers!SortedList(list, T), Timers!Place(list, T, x, k)
    PROVE  Timers!SortedList(Timers!Inserted(list, x, k), T)
  <1> DEFINE w == Timers!Inserted(list, x, k)
             n == Len(list)
             U(y) == Timers!Us(T[y])
  <1>1. n \in Nat /\ k \in 1..(n + 1)
    BY DEF Timers!Place
  <1>2. \A y \in S : U(y) \in Int
    BY DiffBounds
  <1>3. \A i \in 1..n : list[i] \in S
    OBVIOUS
  <1>4. /\ Len(w) = n + 1 /\ w[k] = x
        /\ \A i \in 1..(n + 1) : (i < k => w[i] = list[i]) /\ (i > k => w[i] = list[i - 1])
    BY <1>1, InsertedList
  <1>5. \A i \in 1..n : i < k => U(list[i]) - U(x) < 1000
    BY <1>3, DiffBounds, <1>1 DEF Timers!Place
  <1>6. k <= n => U(list[k]) - U(x) > 0
    BY <1>1, <1>3, DiffBounds DEF Timers!Place
  <1>7. \A i, j \in 1..n : i < j => U(list[i]) - U(list[j]) < 1000
    BY DEF Timers!SortedList
  <1>8. \A j \in 1..n : j >= k => U(x) - U(list[j]) < 1000
    <2> SUFFICES ASSUME NEW j \in 1..n, j >= k PROVE U(x) - U(list[j]) < 1000
      OBVIOUS
    <2>1. k \in 1..n /\ U(list[k]) - U(x) > 0
      BY <1>1, <1>6, SMT
    <2>2. U(list[k]) - U(list[j]) < 1000
      <3> HIDE DEF U
      <3> QED BY <1>1, <1>2, <1>3, <1>7, <2>1, SMT
    <2>3. U(x) \in Int /\ U(list[k]) \in Int /\ U(list[j]) \in Int
      BY <1>2, <1>3, <2>1
    <2> HIDE DEF U
    <2> QED BY <2>1, <2>2, <2>3, SMT
  <1> SUFFICES ASSUME NEW i \in 1..Len(w), NEW j \in 1..Len(w), i < j
               PROVE  U(w[i]) - U(w[j]) < 1000
    BY DEF Timers!SortedList
  <1> HIDE DEF w, U, n
  <1>9. i \in 1..(n + 1) /\ j \in 1..(n + 1)
    BY <1>4
  <1>10. CASE j < k
    BY <1>1, <1>4, <1>7, <1>9, <1>10, SMT
  <1>11. CASE j = k
    BY <1>1, <1>4, <1>5, <1>9, <1>11, SMT
  <1>12. CASE i < k /\ j > k
    BY <1>1, <1>4, <1>7, <1>9, <1>12, SMT
  <1>13. CASE i = k
    BY <1>1, <1>4, <1>8, <1>9, <1>13, SMT
  <1>14. CASE i > k
    BY <1>1, <1>4, <1>7, <1>9, <1>14, SMTT(30)
  <1> QED BY <1>1, <1>9, <1>10, <1>11, <1>12, <1>13, <1>14, SMT

----------------------------------------------------------------------------
Bounds == Clock \subseteq Nat /\ Delay \subseteq Nat

\* Sorted alone is not inductive: a timer that is set anew must not be in the
\* list twice, and the new time must not lie before tv.
TimersInv == /\ Timers!TypeOK /\ Timers!Sorted /\ Timers!NoDuplicates
             /\ Timers!ClockRead /\ Timers!NoneOverdue

(* The invariant holds when uloop starts.                                   *)
LEMMA TimersInitially == ASSUME Bounds, Timers!Init PROVE TimersInv
  <1>1. Timers!TypeOK /\ timeouts = <<>> /\ Timers!Us(tv) = 0
    BY SMT DEF Bounds, Timers!Init, Timers!TypeOK, Timers!Us
  <1> QED BY <1>1, SMT
      DEF TimersInv, Timers!Sorted, Timers!SortedList, Timers!NoDuplicates, Timers!ClockRead,
          Timers!NoneOverdue, Timers!TypeOK

(* An entry is taken out: Expire and uloop_timeout_cancel.                  *)
LEMMA TimerRemoved ==
    ASSUME TimersInv, NEW k \in 1..Len(timeouts), timeouts' = Timers!Without(timeouts, k),
           UNCHANGED <<now, time, timer_pc, tv>>
    PROVE  TimersInv'
  <1> DEFINE w == Timers!Without(timeouts, k)
  <1>1. timeouts \in Seq(Timer) /\ Len(timeouts) \in Nat
    BY DEF TimersInv, Timers!TypeOK
  <1>2. /\ w \in Seq(Timer) /\ Len(w) = Len(timeouts) - 1
        /\ \A i \in 1..(Len(timeouts) - 1) :
             /\ i < k => w[i] = timeouts[i]
             /\ i >= k => w[i] = timeouts[i + 1]
    BY <1>1, WithoutList
  <1>3. Timers!TypeOK'
    BY <1>2 DEF TimersInv, Timers!TypeOK
  <1>4. Timers!Sorted'
    BY <1>1, WithoutSorted DEF TimersInv, Timers!Sorted
  <1> HIDE DEF w
  <1>5. timeouts' = w
    BY DEF w
  <1>6. Timers!NoDuplicates'
    BY <1>1, <1>2, <1>5, SMTT(30) DEF TimersInv, Timers!NoDuplicates
  <1>7. Timers!ClockRead'
    BY DEF TimersInv, Timers!ClockRead
  <1>8. Timers!NoneOverdue'
    BY <1>1, <1>2, <1>5, SMT DEF TimersInv, Timers!NoneOverdue
  <1> QED BY <1>3, <1>4, <1>6, <1>7, <1>8 DEF TimersInv

(* A timer that is not in the list is set and entered.                      *)
LEMMA TimerAdded ==
    ASSUME Bounds, NEW t \in Timer, NEW d \in Delay, NEW STATE list, list \in Seq(Timer),
           now \in Nat, time \in [Timer -> Time], tv \in Time, timer_pc \in {"poll", "process"},
           Timers!SortedList(list, time), Timers!ClockRead,
           \A i, j \in 1..Len(list) : list[i] = list[j] => i = j,
           \A i \in 1..Len(list) : list[i] # t,
           timer_pc = "poll" => \A i \in 1..Len(list) : Timers!Us(tv) - Timers!Us(time[list[i]]) < 1000,
           time' = [time EXCEPT ![t] = Timers!Expiry(now, d)],
           Timers!uloop_timeout_add(list, time', t),
           UNCHANGED <<now, timer_pc, tv>>
    PROVE  TimersInv'
  <1>1. PICK k \in 1..(Len(list) + 1) :
            Timers!Place(list, time', t, k) /\ timeouts' = Timers!Inserted(list, t, k)
    BY DEF Timers!uloop_timeout_add
  <1> DEFINE w == Timers!Inserted(list, t, k)
             n == Len(list)
  <1>2. d \in Nat /\ n \in Nat
    BY DEF Bounds
  <1>3. Timers!Expiry(now, d) \in Time /\ Timers!Us(Timers!Expiry(now, d)) = now + d * 1000
    BY <1>2, ExpiryTime
  <1>4. time' \in [Timer -> Time] /\ time'[t] = Timers!Expiry(now, d)
    BY <1>3
  <1>5. \A i \in 1..n : list[i] \in Timer /\ time'[list[i]] = time[list[i]]
    OBVIOUS
  <1>6. Timers!SortedList(list, time')
    BY <1>5 DEF Timers!SortedList
  <1>7. /\ w \in Seq(Timer) /\ Len(w) = n + 1 /\ w[k] = t
        /\ \A i \in 1..(n + 1) :
             /\ i < k => w[i] = list[i]
             /\ i > k => w[i] = list[i - 1]
    <2>1. /\ n \in Nat /\ k \in 1..(n + 1) /\ t \in Timer
          /\ \A i \in 1..n : list[i] \in Timer
      OBVIOUS
    <2>2. w = [i \in 1..(n + 1) |-> IF i < k THEN list[i] ELSE IF i = k THEN t ELSE list[i - 1]]
      BY DEF Timers!Inserted
    <2> HIDE DEF w, n
    <2>3. \A i \in 1..(n + 1) : w[i] \in Timer
      BY ONLY <2>1, <2>2, SMT
    <2>4. w \in Seq(Timer) /\ Len(w) = n + 1
      BY ONLY <2>1, <2>2, <2>3, SMT
    <2> QED BY ONLY <2>1, <2>2, <2>4, SMT
  <1>8. Timers!SortedList(w, time')
    BY <1>1, <1>4, <1>6, InsertedSorted
  <1> HIDE DEF w
  <1>9. timeouts' = w
    BY <1>1 DEF w
  <1>10. Timers!TypeOK'
    BY <1>4, <1>7, <1>9 DEF Timers!TypeOK, Time
  <1>11. Timers!Sorted'
    BY <1>8, <1>9 DEF Timers!Sorted
  <1>12. Timers!NoDuplicates'
    <2> SUFFICES ASSUME NEW i \in 1..(n + 1), NEW j \in 1..(n + 1), w[i] = w[j] PROVE i = j
      BY <1>7, <1>9 DEF Timers!NoDuplicates
    <2> DEFINE at(m) == IF m < k THEN m ELSE m - 1
    <2>1. ASSUME NEW m \in 1..(n + 1), m # k
          PROVE  at(m) \in 1..n /\ w[m] = list[at(m)] /\ w[m] # t
      <3>1. at(m) \in 1..n
        BY <1>1, <1>2, <2>1, SMT
      <3>2. w[m] = list[at(m)]
        BY <1>1, <1>2, <1>7, <2>1, SMT
      <3> QED BY <3>1, <3>2
    <2>2. CASE i = k \/ j = k
      <3>1. \A m \in 1..(n + 1) : m # k => w[m] # t
        BY <2>1
      <3>2. w[k] = t
        BY <1>7
      <3> QED BY <2>2, <3>1, <3>2
    <2>3. CASE i # k /\ j # k
      <3>1. at(i) = at(j)
        <4> HIDE DEF at
        <4> QED BY <2>1, <2>3
      <3> QED BY <1>1, <1>2, <2>3, <3>1, SMT
    <2> QED BY <2>2, <2>3
  <1>13. Timers!ClockRead'
    BY DEF Timers!ClockRead
  <1>14. Timers!NoneOverdue'
    <2> SUFFICES ASSUME timer_pc = "poll", NEW i \in 1..(n + 1)
                 PROVE  Timers!Us(tv) - Timers!Us(time'[w[i]]) < 1000
      BY <1>7, <1>9 DEF Timers!NoneOverdue
    <2>1. CASE i = k
      <3>1. Timers!Us(tv) \in Int /\ Timers!Us(tv) <= now
        BY DiffBounds DEF Timers!ClockRead
      <3>2. Timers!Us(time'[w[i]]) = now + d * 1000
        BY <1>3, <1>4, <1>7, <2>1
      <3> QED BY <1>2, <3>1, <3>2, SMT
    <2>2. CASE i < k
      <3>1. i \in 1..n /\ w[i] = list[i]
        BY <1>1, <1>2, <1>7, <2>2, SMT
      <3> QED BY <1>5, <3>1
    <2>3. CASE i > k
      <3>1. i - 1 \in 1..n /\ w[i] = list[i - 1]
        BY <1>1, <1>2, <1>7, <2>3, SMT
      <3> QED BY <1>5, <3>1
    <2> QED BY <1>1, <1>2, <2>1, <2>2, <2>3, SMT
  <1> QED BY <1>10, <1>11, <1>12, <1>13, <1>14 DEF TimersInv

(* uloop_timeout_set keeps it, whether or not the timer was pending.        *)
LEMMA TimerSet ==
    ASSUME Bounds, TimersInv, NEW t \in Timer, NEW d \in Delay, Timers!uloop_timeout_set(t, d)
    PROVE  TimersInv'
  <1>1. /\ now \in Nat /\ time \in [Timer -> Time] /\ tv \in Time
        /\ timer_pc \in {"poll", "process"} /\ timeouts \in Seq(Timer) /\ Len(timeouts) \in Nat
    BY DEF TimersInv, Timers!TypeOK, Time
  <1>2. CASE ~Timers!Pending(t) /\ Timers!uloop_timeout_add(timeouts, time', t)
    <2>1. \A i \in 1..Len(timeouts) : timeouts[i] # t
      BY <1>2 DEF Timers!Pending
    <2>2. \A i, j \in 1..Len(timeouts) : timeouts[i] = timeouts[j] => i = j
      BY DEF TimersInv, Timers!NoDuplicates
    <2>3. timer_pc = "poll" => \A i \in 1..Len(timeouts) :
                          Timers!Us(tv) - Timers!Us(time[timeouts[i]]) < 1000
      BY DEF TimersInv, Timers!NoneOverdue
    <2> QED BY <1>1, <1>2, <2>1, <2>2, <2>3, TimerAdded
        DEF Timers!uloop_timeout_set, TimersInv, Timers!Sorted
  <1>3. CASE \E k \in 1..Len(timeouts) :
               timeouts[k] = t /\ Timers!uloop_timeout_add(Timers!Without(timeouts, k), time', t)
    <2>1. PICK k \in 1..Len(timeouts) :
               timeouts[k] = t /\ Timers!uloop_timeout_add(Timers!Without(timeouts, k), time', t)
      BY <1>3
    <2> DEFINE w == Timers!Without(timeouts, k)
    <2>2. /\ w \in Seq(Timer) /\ Len(w) = Len(timeouts) - 1
          /\ \A i \in 1..(Len(timeouts) - 1) :
               /\ i < k => w[i] = timeouts[i]
               /\ i >= k => w[i] = timeouts[i + 1]
      BY <1>1, WithoutList
    <2>3. Timers!SortedList(w, time)
      BY <1>1, WithoutSorted DEF TimersInv, Timers!Sorted
    <2>4. Timers!uloop_timeout_add(w, time', t)
      BY <2>1
    <2> HIDE DEF w
    <2>5. \A i, j \in 1..Len(timeouts) : timeouts[i] = timeouts[j] => i = j
      BY DEF TimersInv, Timers!NoDuplicates
    <2>6. \A i, j \in 1..Len(w) : w[i] = w[j] => i = j
      BY <1>1, <2>2, <2>5, SMT
    <2>7. \A i \in 1..Len(w) : w[i] # t
      BY <1>1, <2>1, <2>2, <2>5, SMT
    <2>8. timer_pc = "poll" => \A i \in 1..Len(w) : Timers!Us(tv) - Timers!Us(time[w[i]]) < 1000
      BY <1>1, <2>2, SMT DEF TimersInv, Timers!NoneOverdue
    <2> QED BY <1>1, <2>2, <2>3, <2>4, <2>6, <2>7, <2>8, TimerAdded
        DEF Timers!uloop_timeout_set, TimersInv
  <1> QED BY <1>2, <1>3 DEF Timers!uloop_timeout_set

(* Stopping at the first timer that is not due: those behind it are not      *)
(* overdue by a millisecond, because the list is sorted up to one.           *)
LEMMA TimersDone == ASSUME TimersInv, Timers!ProcessEnd PROVE TimersInv'
  <1>1. Timers!TypeOK' /\ Timers!Sorted' /\ Timers!NoDuplicates' /\ Timers!ClockRead'
    BY DEF TimersInv, Timers!ProcessEnd, Timers!TypeOK, Timers!Sorted,
           Timers!NoDuplicates, Timers!ClockRead
  <1>2. /\ time \in [Timer -> Time] /\ tv \in Time /\ timeouts \in Seq(Timer)
        /\ Len(timeouts) \in Nat
    BY DEF TimersInv, Timers!TypeOK, Time
  <1>3. Timers!NoneOverdue'
    <2> SUFFICES ASSUME NEW i \in 1..Len(timeouts)
                 PROVE  Timers!Us(tv) - Timers!Us(time[timeouts[i]]) < 1000
      BY DEF Timers!ProcessEnd, Timers!NoneOverdue
    <2>1. 1 \in 1..Len(timeouts) /\ timeouts # <<>>
      BY <1>2, SMT
    <2>2. timeouts[1] \in Timer /\ timeouts[i] \in Timer
      BY <1>2, <2>1
    <2> DEFINE f == Timers!Us(time[timeouts[1]])
               x == Timers!Us(time[timeouts[i]])
    <2>3. f \in Int /\ x \in Int /\ Timers!Us(tv) \in Int
      BY <1>2, <2>2, DiffBounds
    <2>4. f - Timers!Us(tv) > 0
      BY <1>2, <2>1, <2>2, DiffBounds DEF Timers!ProcessEnd
    <2>5. i = 1 \/ f - x < 1000
      BY <1>2, <2>1, SMT DEF TimersInv, Timers!Sorted, Timers!SortedList
    <2> HIDE DEF f
    <2>6. i = 1 => f = x
      BY DEF f
    <2> HIDE DEF x
    <2>7. Timers!Us(tv) - x < 1000
      BY <2>3, <2>4, <2>5, <2>6, SMT
    <2> QED BY <2>7 DEF x
  <1> QED BY <1>1, <1>3 DEF TimersInv

(* Every step keeps it.                                                     *)
LEMMA TimersStep == ASSUME Bounds, TimersInv, [Timers!Next]_(Timers!vars) PROVE TimersInv'
  <1>1. ASSUME NEW t \in Timer, Timers!uloop_timeout_cancel(t) PROVE TimersInv'
    BY <1>1, TimerRemoved DEF Timers!uloop_timeout_cancel
  <1>2. ASSUME NEW t \in Timer, NEW d \in Delay, Timers!uloop_timeout_set(t, d) PROVE TimersInv'
    BY <1>2, TimerSet
  <1>3. CASE Timers!ProcessStart
    <2>1. now \in Nat
      BY DEF TimersInv, Timers!TypeOK
    <2>2. tv' \in Time /\ Timers!Us(tv') = now
      BY <1>3, <2>1, ClockTime DEF Timers!ProcessStart
    <2> QED BY <1>3, <2>1, <2>2
        DEF Timers!ProcessStart, TimersInv, Timers!TypeOK, Time, Timers!Sorted,
            Timers!NoDuplicates, Timers!ClockRead, Timers!NoneOverdue
  <1>4. CASE Timers!Expire
    <2>1. 1 \in 1..Len(timeouts)
      BY <1>4, SMT DEF Timers!Expire, TimersInv, Timers!TypeOK
    <2> QED BY <1>4, <2>1, TimerRemoved DEF Timers!Expire
  <1>5. CASE Timers!ProcessEnd
    BY <1>5, TimersDone
  <1>6. CASE Timers!Tick
    <2>1. now' \in Nat /\ now \in Nat /\ now < now'
      BY <1>6 DEF Timers!Tick, Bounds, TimersInv, Timers!TypeOK
    <2>2. Timers!Us(tv) \in Int /\ Timers!Us(tv) <= now
      BY DiffBounds DEF TimersInv, Timers!TypeOK, Time, Timers!ClockRead
    <2>3. Timers!ClockRead'
      BY <1>6, <2>1, <2>2, SMT DEF Timers!ClockRead, Timers!Tick
    <2> QED BY <1>6, <2>1, <2>3
        DEF Timers!Tick, TimersInv, Timers!TypeOK, Timers!Sorted, Timers!NoDuplicates,
            Timers!NoneOverdue
  <1>7. CASE UNCHANGED Timers!vars
    BY <1>7 DEF Timers!vars, TimersInv, Timers!TypeOK, Timers!Sorted,
            Timers!NoDuplicates, Timers!ClockRead, Timers!NoneOverdue
  <1> QED BY <1>1, <1>2, <1>3, <1>4, <1>5, <1>6, <1>7 DEF Timers!Next

(* The list is always sorted up to a millisecond: uloop_timeout_add finds    *)
(* the right place although its comparison rounds.                          *)
THEOREM TimersSorted == ASSUME Bounds PROVE Timers!Spec => []Timers!Sorted
  <1>1. Timers!Init => TimersInv
    BY TimersInitially
  <1>2. TimersInv /\ [Timers!Next]_(Timers!vars) => TimersInv'
    BY TimersStep
  <1>3. TimersInv => Timers!Sorted
    BY DEF TimersInv
  <1> QED BY <1>1, <1>2, <1>3, PTL DEF Timers!Spec

(* Whenever the loop polls, no timer was overdue by a millisecond when       *)
(* uloop_process_timeouts looked.                                           *)
THEOREM TimersServed == ASSUME Bounds PROVE Timers!Spec => []Timers!NoneOverdue
  <1>1. Timers!Init => TimersInv
    BY TimersInitially
  <1>2. TimersInv /\ [Timers!Next]_(Timers!vars) => TimersInv'
    BY TimersStep
  <1>3. TimersInv => Timers!NoneOverdue
    BY DEF TimersInv
  <1> QED BY <1>1, <1>2, <1>3, PTL DEF Timers!Spec

----------------------------------------------------------------------------
(* The descriptors of the loop.                                             *)

CONSTANTS Fd, Edge, Proc, MaxDepth, MaxArrive, MaxOps
VARIABLES status, unread, watch_edge, hang, cur, stack, cancelled, do_sigchld, pipe, child,
          procs, told, arrived, ops

Poll == INSTANCE Uloop WITH edge <- watch_edge

\* FdAssumption of Uloop.
FdsApart == Edge \subseteq Fd /\ IsFiniteSet(Fd) /\ Poll!None \notin Fd /\ Poll!Waker \notin Fd

\* Frames and fetched events, as far as the proof needs their types.
Place == {"user", "sigchld", "reap", "cancel", "poll", "dispatch", "end"}
FrameType == [f : {"run", "cb", "pcb"}, at : Place, fd : Fd \cup {Poll!None}, forever : BOOLEAN,
              again : BOOLEAN, wanted : BOOLEAN, buffered : BOOLEAN]

\* Frames of callbacks that were called rightly.
Silent(S) == S \in Seq(FrameType) /\ \A i \in 1..Len(S) : S[i].wanted \/ S[i].buffered

\* No event is kept of a descriptor that was deleted, by whichever loop.
Fetched(c, st) == /\ c \in Seq(Fd \cup {Poll!None, Poll!Waker})
                  /\ \A i \in 1..Len(c) : c[i] \in Fd => st[c[i]] # "out"

LoopInv == /\ status \in [Fd -> {"in", "out", "hup"}]
           /\ Fetched(cur, status) /\ Silent(stack)

(* A frame that is entered rightly leaves the others as they are.            *)
LEMMA PushSilent ==
    ASSUME NEW S, Silent(S), NEW x \in FrameType, x.wanted \/ x.buffered
    PROVE  Silent(<<x>> \o S)
<1>1. S \in Seq(FrameType) /\ <<x>> \in Seq(FrameType) /\ Len(S) \in Nat
  BY DEF Silent
<1>2. /\ <<x>> \o S \in Seq(FrameType) /\ Len(<<x>> \o S) = Len(S) + 1
      /\ \A i \in 1..(Len(S) + 1) : (<<x>> \o S)[i] = IF i = 1 THEN x ELSE S[i - 1]
  BY <1>1
<1> QED
  BY <1>1, <1>2 DEF Silent

(* So does a return.                                                        *)
LEMMA PopSilent ==
    ASSUME NEW S, Silent(S), S # <<>>
    PROVE  Silent(Tail(S)) /\ Head(S) \in FrameType /\ (Head(S).wanted \/ Head(S).buffered)
<1>1. S \in Seq(FrameType) /\ Len(S) \in Nat /\ Len(S) > 0
  BY DEF Silent
<1>2. Head(S) = S[1] /\ 1 \in 1..Len(S)
  BY <1>1
<1>3. /\ Tail(S) \in Seq(FrameType) /\ Len(Tail(S)) = Len(S) - 1
      /\ \A i \in 1..(Len(S) - 1) : Tail(S)[i] = S[i + 1]
  BY <1>1
<1> QED
  BY <1>1, <1>2, <1>3 DEF Silent

(* A function that goes on stays in its frame.                              *)
LEMMA GotoSilent ==
    ASSUME LoopInv, stack # <<>>, NEW p \in Place
    PROVE  Silent(Poll!Goto(p))
<1>1. /\ Silent(Tail(stack)) /\ Head(stack) \in FrameType
      /\ Head(stack).wanted \/ Head(stack).buffered
  BY PopSilent DEF LoopInv
<1> DEFINE x == [Head(stack) EXCEPT !.at = p]
<1>2. x \in FrameType /\ (x.wanted \/ x.buffered)
  BY <1>1 DEF FrameType
<1> QED
  BY <1>1, <1>2, PushSilent DEF Poll!Goto

(* Frames that the loop enters are of their type.                           *)
LEMMA FrameIs ==
    ASSUME NEW f \in {"run", "cb", "pcb"}, NEW at \in Place, NEW forever \in BOOLEAN,
           NEW fd \in Fd \cup {Poll!None}
    PROVE  Poll!Frame(f, at, fd, forever) \in FrameType /\ Poll!Frame(f, at, fd, forever).wanted = TRUE
  BY DEF Poll!Frame, FrameType

(* The first event is taken out of the batch.                               *)
LEMMA TakeFetched ==
    ASSUME LoopInv, cur # <<>>
    PROVE  Fetched(Tail(cur), status) /\ (Head(cur) \in Fd => status[Head(cur)] # "out")
<1>1. cur \in Seq(Fd \cup {Poll!None, Poll!Waker}) /\ Len(cur) \in Nat /\ Len(cur) > 0
  BY DEF LoopInv, Fetched
<1>2. Head(cur) = cur[1] /\ 1 \in 1..Len(cur)
  BY <1>1
<1>3. /\ Tail(cur) \in Seq(Fd \cup {Poll!None, Poll!Waker}) /\ Len(Tail(cur)) = Len(cur) - 1
      /\ \A i \in 1..(Len(cur) - 1) : Tail(cur)[i] = cur[i + 1]
  BY <1>1
<1> QED
  BY <1>1, <1>2, <1>3 DEF LoopInv, Fetched

----------------------------------------------------------------------------
(* A deleted descriptor's events are cleared, in the batch of every loop.    *)
LEMMA DeleteKeeps ==
    ASSUME FdsApart, LoopInv, NEW f \in Fd, Poll!uloop_fd_delete(f)
    PROVE  LoopInv'
<1>1. cur \in Seq(Fd \cup {Poll!None, Poll!Waker}) /\ Len(cur) \in Nat /\ DOMAIN cur = 1..Len(cur)
  BY DEF LoopInv, Fetched
<1>2. /\ cur' \in Seq(Fd \cup {Poll!None, Poll!Waker}) /\ Len(cur') = Len(cur)
      /\ \A i \in 1..Len(cur) : cur'[i] = IF cur[i] = f THEN Poll!None ELSE cur[i]
  BY <1>1 DEF Poll!uloop_fd_delete
<1>3. status' \in [Fd -> {"in", "out", "hup"}]
  BY DEF Poll!uloop_fd_delete, LoopInv
<1>4. \A g \in Fd : g # f => status'[g] = status[g]
  BY DEF Poll!uloop_fd_delete, LoopInv
<1>5. \A i \in 1..Len(cur) : cur'[i] \in Fd => status'[cur'[i]] # "out"
  BY <1>1, <1>2, <1>4 DEF LoopInv, Fetched, FdsApart
<1>6. Fetched(cur', status')
  BY <1>2, <1>5 DEF Fetched
<1>7. stack' = stack
  BY DEF Poll!uloop_fd_delete
<1> QED
  BY <1>3, <1>6, <1>7 DEF LoopInv

(* uloop_fetch_events reports descriptors that are in the poll set.          *)
LEMMA FetchKeeps ==
    ASSUME FdsApart, LoopInv, Poll!uloop_fetch_events
    PROVE  LoopInv'
<1>1. stack # <<>> /\ stack' = Poll!Goto("dispatch")
  BY DEF Poll!uloop_fetch_events, Poll!At
<1>2. Silent(stack')
  BY <1>1, GotoSilent DEF Place
<1>3. CASE UNCHANGED <<cur, status, watch_edge>>
  BY <1>2, <1>3 DEF LoopInv
<1>4. CASE /\ cur' \in Poll!SetToSeqs(Poll!Ready)
           /\ status' = [f \in Fd |-> IF f \in Poll!Hung THEN "hup" ELSE status[f]]
  <2>1. IsFiniteSet(Poll!Ready) /\ Poll!Ready \subseteq Fd \cup {Poll!Waker}
    <3>1. Poll!Ready \subseteq Fd \cup {Poll!Waker}
      BY DEF Poll!Ready, Poll!Hung, Poll!Reported
    <3>2. IsFiniteSet(Fd \cup {Poll!Waker})
      BY FS_AddElement DEF FdsApart
    <3> QED
      BY <3>1, <3>2, FS_Subset
  <2>2. Cardinality(Poll!Ready) \in Nat
    BY <2>1, FS_CardinalityType
  <2>3. cur' \in [1..Cardinality(Poll!Ready) -> Poll!Ready]
    <3>1. \A S : Poll!Cardinality(S) = Cardinality(S)
      BY DEF Poll!Cardinality, Cardinality
    <3> QED
      BY <1>4, <3>1 DEF Poll!SetToSeqs
  <2>4. cur' \in Seq(Poll!Ready) /\ Len(cur') \in Nat
    BY <2>2, <2>3
  <2>5. cur' \in Seq(Fd \cup {Poll!None, Poll!Waker})
    BY <2>1, <2>4
  <2>6. \A i \in 1..Len(cur') : cur'[i] \in Poll!Ready
    BY <2>4
  <2>7. \A f \in Poll!Ready : f \in Fd => status[f] = "in"
    BY DEF FdsApart, Poll!Ready, Poll!Hung, Poll!Reported
  <2>8. \A f \in Poll!Ready : f \in Fd => status'[f] # "out"
    BY <1>4, <2>7
  <2>9. status' \in [Fd -> {"in", "out", "hup"}]
    BY <1>4 DEF LoopInv
  <2> QED
    BY <1>2, <2>5, <2>6, <2>8, <2>9 DEF LoopInv, Fetched
<1> QED
  BY <1>3, <1>4 DEF Poll!uloop_fetch_events

(* A callback is called for an event that is in the batch, so its descriptor *)
(* was not deleted; an event for a callback that is active changes no        *)
(* history.                                                                 *)
LEMMA RunKeeps ==
    ASSUME LoopInv, Poll!uloop_run_events
    PROVE  LoopInv'
<1>1. stack # <<>> /\ status' = status
  BY DEF Poll!uloop_run_events, Poll!At
<1>2. Silent(Poll!Goto("end"))
  BY <1>1, GotoSilent DEF Place
<1>3. CASE cur = <<>>
  BY <1>1, <1>2, <1>3 DEF Poll!uloop_run_events, LoopInv
<1>4. CASE cur # <<>>
  <2> DEFINE f == Head(cur)
  <2>1. Fetched(cur', status') /\ (f \in Fd => status[f] # "out")
    BY <1>1, <1>4, TakeFetched DEF Poll!uloop_run_events
  <2>2. CASE stack' = stack \/ stack' = Poll!Goto("end")
    BY <1>1, <1>2, <2>1, <2>2 DEF LoopInv
  <2>3. CASE f \in Fd /\ Poll!uloop_fd_stack_event(f)
    <3>1. stack \in Seq(FrameType) /\ stack' = [stack EXCEPT ![Poll!Innermost(f)].again = TRUE]
      BY <2>3 DEF LoopInv, Silent, Poll!uloop_fd_stack_event
    <3> DEFINE k == Poll!Innermost(f)
    <3> HIDE DEF k
    <3>2. /\ stack' \in Seq(FrameType) /\ Len(stack') = Len(stack)
          /\ \A i \in 1..Len(stack) : stack'[i].wanted = stack[i].wanted
                                      /\ stack'[i].buffered = stack[i].buffered
      <4>1. stack' = [stack EXCEPT ![k] = [stack[k] EXCEPT !.again = TRUE]]
        BY <3>1 DEF k
      <4>2. CASE k \in 1..Len(stack)
        <5>1. stack[k] \in FrameType
          BY <3>1, <4>2
        <5> DEFINE x == [stack[k] EXCEPT !.again = TRUE]
        <5>2. x \in FrameType /\ x.wanted = stack[k].wanted /\ x.buffered = stack[k].buffered
          BY <5>1 DEF FrameType
        <5> HIDE DEF x
        <5>3. stack' = [stack EXCEPT ![k] = x]
          BY <4>1 DEF x
        <5>4. stack' \in Seq(FrameType) /\ Len(stack') = Len(stack)
          <6>1. stack \in [1..Len(stack) -> FrameType] /\ Len(stack) \in Nat
            BY <3>1
          <6>2. stack' \in [1..Len(stack) -> FrameType]
            BY <5>2, <5>3, <6>1
          <6> QED
            BY <6>1, <6>2
        <5>5. \A i \in 1..Len(stack) : stack'[i] = IF i = k THEN x ELSE stack[i]
          BY <3>1, <4>2, <5>3
        <5> QED
          BY <5>2, <5>4, <5>5
      <4>3. CASE k \notin 1..Len(stack)
        <5>1. stack' = stack
          BY <3>1, <4>1, <4>3
        <5> QED
          BY <3>1, <5>1
      <4> QED
        BY <4>2, <4>3
    <3>3. Silent(stack')
      BY <3>2 DEF LoopInv, Silent
    <3> QED
      BY <1>1, <2>1, <3>3 DEF LoopInv
  <2>4. CASE f \in Fd /\ stack' = <<Poll!Callback(f)>> \o Poll!Goto("end")
    <3>1. Poll!Frame("cb", "user", f, FALSE) \in FrameType
      BY <2>4, FrameIs DEF Place
    <3>2. Poll!Callback(f) \in FrameType /\ Poll!Callback(f).wanted = (status[f] # "out")
      BY <3>1 DEF Poll!Callback, FrameType
    <3>3. Silent(stack')
      BY <1>2, <2>1, <2>4, <3>2, PushSilent
    <3> QED
      BY <1>1, <2>1, <3>3 DEF LoopInv
  <2> QED
    BY <1>4, <2>2, <2>3, <2>4 DEF Poll!uloop_run_events
<1> QED
  BY <1>3, <1>4

(* A callback that returns, and may be called again for buffered events.     *)
LEMMA ReturnKeeps ==
    ASSUME LoopInv, Poll!Return
    PROVE  LoopInv'
<1>1. stack # <<>> /\ status' = status /\ cur' = cur
  BY DEF Poll!Return, Poll!User, Poll!At
<1>2. Silent(Tail(stack)) /\ Head(stack) \in FrameType
  BY <1>1, PopSilent DEF LoopInv
<1>3. CASE stack' = Tail(stack)
  BY <1>1, <1>2, <1>3 DEF LoopInv
<1>4. CASE stack' = <<[Head(stack) EXCEPT !.again = FALSE, !.buffered = TRUE,
                         !.wanted = status[Head(stack).fd] # "out"]>> \o Tail(stack)
  <2> DEFINE x == [Head(stack) EXCEPT !.again = FALSE, !.buffered = TRUE,
                                      !.wanted = status[Head(stack).fd] # "out"]
  <2>1. x \in FrameType /\ x.buffered
    BY <1>2 DEF FrameType
  <2>2. Silent(stack')
    BY <1>2, <1>4, <2>1, PushSilent
  <2> QED
    BY <1>1, <2>2 DEF LoopInv
<1> QED
  BY <1>3, <1>4 DEF Poll!Return

(* The steps that enter and leave loops, and tell of children.               *)
LEMMA LoopKeeps ==
    ASSUME LoopInv, \/ Poll!CheckSigchld \/ Poll!uloop_handle_processes \/ Poll!CheckCancelled \/ Poll!LoopEnd
                    \/ \E forever \in BOOLEAN : Poll!uloop_run_timeout(forever)
    PROVE  LoopInv'
<1>1. stack # <<>> /\ status' = status /\ cur' = cur
  BY DEF Poll!CheckSigchld, Poll!uloop_handle_processes, Poll!CheckCancelled, Poll!LoopEnd,
         Poll!uloop_run_timeout, Poll!UserOp, Poll!User, Poll!At
<1>2. Silent(stack) /\ Silent(Tail(stack))
  BY <1>1, PopSilent DEF LoopInv
<1>3. \A p \in {"reap", "cancel", "poll", "sigchld"} : Silent(Poll!Goto(p))
  BY <1>1, GotoSilent DEF Place
<1>4. Silent(<<Poll!Frame("pcb", "user", Poll!None, FALSE)>> \o stack)
  BY <1>2, FrameIs, PushSilent DEF Place
<1>5. \A forever \in BOOLEAN : Silent(<<Poll!Frame("run", "sigchld", Poll!None, forever)>> \o stack)
  BY <1>2, FrameIs, PushSilent DEF Place
<1>6. Silent(stack')
  BY <1>2, <1>3, <1>4, <1>5
     DEF Poll!CheckSigchld, Poll!uloop_handle_processes, Poll!CheckCancelled, Poll!LoopEnd,
         Poll!uloop_run_timeout
<1> QED
  BY <1>1, <1>6 DEF LoopInv

(* A descriptor that is put in has no reason to be silent.                  *)
LEMMA AddKeeps ==
    ASSUME LoopInv, NEW f \in Fd, Poll!uloop_fd_add(f)
    PROVE  LoopInv'
<1>1. /\ status' \in [Fd -> {"in", "out", "hup"}]
      /\ \A g \in Fd : status'[g] = "out" => status[g] = "out"
  BY DEF Poll!uloop_fd_add, LoopInv
<1>2. cur' = cur /\ stack' = stack
  BY DEF Poll!uloop_fd_add
<1> QED
  BY <1>1, <1>2 DEF LoopInv, Fetched

(* No callback for a deleted descriptor, whatever loops are nested: the      *)
(* batch of fetched events holds none, because uloop_fd_delete clears the    *)
(* one batch that all loops share.                                          *)
THEOREM DeletedSilent == ASSUME FdsApart PROVE Poll!Spec => []Poll!DeletedIsSilent
<1>1. Poll!Init => LoopInv
  <2> SUFFICES ASSUME Poll!Init PROVE LoopInv
    OBVIOUS
  <2>1. /\ Poll!Frame("run", "sigchld", Poll!None, TRUE) \in FrameType
        /\ Poll!Frame("run", "sigchld", Poll!None, TRUE).wanted
    BY FrameIs DEF Place
  <2> DEFINE x == Poll!Frame("run", "sigchld", Poll!None, TRUE)
  <2> HIDE DEF x
  <2>2. stack = <<x>> /\ x \in FrameType /\ x.wanted
    BY <2>1 DEF Poll!Init, x
  <2>3. Silent(stack)
    BY <2>2 DEF Silent
  <2> QED
    BY <2>3 DEF Poll!Init, LoopInv, Fetched
<1>2. LoopInv /\ [Poll!Next]_(Poll!vars) => LoopInv'
  <2> SUFFICES ASSUME LoopInv, [Poll!Next]_(Poll!vars) PROVE LoopInv'
    OBVIOUS
  <2>1. ASSUME NEW f \in Fd, Poll!uloop_fd_add(f) \/ Poll!uloop_fd_delete(f) PROVE LoopInv'
    BY <2>1, AddKeeps, DeleteKeeps
  <2>2. CASE Poll!uloop_fetch_events \/ Poll!uloop_run_events \/ Poll!Return
    BY <2>2, FetchKeeps, RunKeeps, ReturnKeeps
  <2>3. CASE \/ Poll!CheckSigchld \/ Poll!uloop_handle_processes \/ Poll!CheckCancelled \/ Poll!LoopEnd
             \/ \E forever \in BOOLEAN : Poll!uloop_run_timeout(forever)
    BY <2>3, LoopKeeps
  <2>4. CASE UNCHANGED <<status, cur, stack>>
    BY <2>4 DEF LoopInv
  <2>5. CASE \/ \E f \in Fd : Poll!Arrive(f) \/ Poll!HangUp(f)
             \/ \E p \in Proc : Poll!uloop_process_delete(p) \/ Poll!uloop_sigchld(p)
             \/ Poll!uloop_end \/ Poll!uloop_handle_sigint \/ UNCHANGED Poll!vars
    BY <2>4, <2>5 DEF Poll!Arrive, Poll!HangUp, Poll!uloop_process_delete, Poll!uloop_sigchld,
                      Poll!uloop_end, Poll!uloop_handle_sigint, Poll!vars
  <2> QED
    BY <2>1, <2>2, <2>3, <2>5 DEF Poll!Next, Poll!Loop
<1>3. LoopInv => Poll!DeletedIsSilent
  BY DEF LoopInv, Silent, Poll!DeletedIsSilent
<1> QED
  BY <1>1, <1>2, <1>3, PTL DEF Poll!Spec
=============================================================================
