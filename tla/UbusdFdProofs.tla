---------------------------- MODULE UbusdFdProofs ---------------------------
(***************************************************************************)
(* The descriptor numbers of ubusd, for any number of clients, of numbers    *)
(* and of messages in a queue: none leaks, and until an INVOKE has to wait   *)
(* each one that is held denotes the file it was obtained for.               *)
(***************************************************************************)
EXTENDS UbusdFd, SequenceTheorems, NaturalsInduction, WellFoundedInduction, TLAPS

\* The reference that a client's slot holds, for every number of a slot.
Hold(c, k) == IF k \in Slots(c) THEN RefAt(c, k) ELSE NoFd

\* A file has the number it was given when it was opened, from 1 on.
GoodRef == {NoFd} \cup [fd : Fd, file : 1..files]
QMsg == [ref : GoodRef, sent : BOOLEAN]

FdTypes ==
    /\ table \in [Fd -> Nat] /\ files \in Nat /\ invoked \in BOOLEAN
    /\ conn \in [Client -> GoodRef]
    /\ pending \in [Client -> [type : Type, ref : GoodRef] \cup {NoMsg}]
    /\ txq \in [Client -> Seq(QMsg)]

\* No two slots hold the same file, and each number that is held denotes it.
Owned ==
    /\ \A c \in Client, k \in Nat : Hold(c, k) # NoFd => table[Hold(c, k).fd] = Hold(c, k).file
    /\ \A c, d \in Client, k, l \in Nat :
         Hold(c, k) # NoFd /\ Hold(c, k) = Hold(d, l) => c = d /\ k = l

Held == \A n \in Fd : table[n] # Free => \E c \in Client, k \in Nat : Hold(c, k).fd = n

FdInv == FdTypes /\ Held /\ (invoked \/ Owned)

----------------------------------------------------------------------------
(* A set of natural numbers that is not empty has a least element.          *)
LEMMA LeastNatural ==
  ASSUME NEW S \in SUBSET Nat, S # {}
  PROVE  Min(S) \in S /\ \A y \in S : Min(S) <= y
<1>1. \E x \in S : \A y \in S : ~(<<y, x>> \in OpToRel(<, Nat))
  BY NatLessThanWellFounded, WFMin
<1>2. PICK x \in S : \A y \in S : ~(y < x)
  BY <1>1 DEF OpToRel
<1>3. \A y \in S : x <= y
  BY <1>2
<1> QED
  BY <1>3 DEF Min

(* A number that the kernel hands out was free, and its file is new.        *)
LEMMA OpenIsFree ==
  ASSUME table \in [Fd -> Nat], files \in Nat
  PROVE  \/ Open(table) = NoFd
         \/ /\ Open(table).fd \in Fd /\ Open(table).file = files + 1
            /\ Open(table) = [fd |-> Open(table).fd, file |-> files + 1]
            /\ table[Open(table).fd] = Free
<1> DEFINE free == {n \in Fd : table[n] = Free}
<1>1. CASE free = {}
  BY <1>1 DEF Open
<1>2. CASE free # {}
  <2>1. Min(free) \in free
    BY <1>2, LeastNatural DEF Fd
  <2>2. Open(table) = [fd |-> Min(free), file |-> files + 1]
    BY <1>2 DEF Open
  <2> QED
    BY <2>1, <2>2
<1> QED
  BY <1>1, <1>2

(* What a slot holds is nothing, or a number with its file.                 *)
LEMMA HoldType ==
  ASSUME FdTypes
  PROVE  \A c \in Client, k \in Nat :
           Hold(c, k) = NoFd \/ (Hold(c, k).fd \in Fd /\ Hold(c, k).file \in 1..files
                                 /\ Hold(c, k) = [fd |-> Hold(c, k).fd, file |-> Hold(c, k).file])
<1> SUFFICES ASSUME NEW c \in Client, NEW k \in Nat PROVE Hold(c, k) \in GoodRef
  BY DEF GoodRef
<1>0. NoFd \in GoodRef
  BY DEF GoodRef
<1>1. CASE k = 0
  BY <1>0, <1>1 DEF Hold, RefAt, FdTypes
<1>2. CASE k = 1
  <2>1. pending[c].ref \in GoodRef
    BY <1>0 DEF FdTypes, NoMsg
  <2> QED
    BY <1>0, <1>2, <2>1 DEF Hold, RefAt
<1>3. CASE k > 1 /\ k \in Slots(c)
  <2>1. txq[c] \in Seq(QMsg) /\ k - 1 \in 1..Len(txq[c])
    BY <1>3 DEF FdTypes, Slots
  <2>2. txq[c][k - 1] \in QMsg
    BY <2>1, ElementOfSeq
  <2> QED
    BY <1>3, <2>2 DEF Hold, RefAt, QMsg
<1>4. CASE k \notin Slots(c)
  BY <1>0, <1>4 DEF Hold
<1> QED
  BY <1>1, <1>2, <1>3, <1>4

(* A reference of an earlier state is one of a later state.                 *)
LEMMA GoodRefGrows ==
  ASSUME FdTypes, files' \in Nat, files <= files'
  PROVE  /\ GoodRef \subseteq GoodRef'
         /\ [Client -> GoodRef] \subseteq [Client -> GoodRef']
         /\ [Client -> [type : Type, ref : GoodRef] \cup {NoMsg}]
              \subseteq [Client -> [type : Type, ref : GoodRef'] \cup {NoMsg}]
         /\ [Client -> Seq(QMsg)] \subseteq [Client -> Seq(QMsg')]
<1>1. GoodRef \subseteq GoodRef'
  BY DEF GoodRef, FdTypes
<1>2. QMsg \subseteq QMsg'
  BY <1>1 DEF QMsg
<1>3. Seq(QMsg) \subseteq Seq(QMsg')
  BY <1>2, SeqMonotonic
<1> QED
  BY <1>1, <1>3

(* A number just opened, put into a slot that was empty: nothing else holds  *)
(* that number.                                                             *)
LEMMA OpeningKeeps ==
  ASSUME FdInv, NEW c \in Client, NEW slot \in Nat, FdTypes',
         NEW ref, ref = Open(table), Hold(c, slot) = NoFd,
         table' = Install(table, ref), files' = files + 1, invoked' = invoked,
         \A d \in Client, k \in Nat :
           Hold(d, k)' = IF d = c /\ k = slot THEN ref ELSE Hold(d, k)
  PROVE  FdInv'
<1> USE DEF Free
<1>0. /\ table \in [Fd -> Nat] /\ files \in Nat /\ Held
      /\ NoFd.fd = 0 /\ 0 \notin Fd
  BY DEF FdInv, FdTypes, NoFd, Fd
<1>1. CASE ref = NoFd
  <2>1. table' = table /\ \A d \in Client, k \in Nat : Hold(d, k)' = Hold(d, k)
    BY <1>1 DEF Install
  <2>2. Held'
    BY <1>0, <2>1 DEF Held
  <2>3. Owned => Owned'
    BY <2>1 DEF Owned
  <2> QED
    BY <2>2, <2>3 DEF FdInv
<1>2. CASE ref # NoFd
  <2>1. /\ ref.fd \in Fd /\ ref.file = files + 1 /\ table[ref.fd] = 0
        /\ table' = [table EXCEPT ![ref.fd] = ref.file]
    BY <1>0, <1>2, OpenIsFree DEF Install
  <2>2. Held'
    <3> SUFFICES ASSUME NEW n \in Fd, table'[n] # 0
                 PROVE  \E d \in Client, k \in Nat : Hold(d, k)'.fd = n
      BY DEF Held
    <3>1. CASE n = ref.fd
      BY <3>1
    <3>2. CASE n # ref.fd
      <4>1. table[n] # 0
        BY <1>0, <2>1, <3>2
      <4>2. PICK d \in Client, k \in Nat : Hold(d, k).fd = n
        BY <1>0, <4>1 DEF Held
      <4>3. Hold(d, k) # NoFd
        BY <1>0, <4>2
      <4>4. Hold(d, k)' = Hold(d, k)
        BY <4>3
      <4> QED
        BY <4>2, <4>4
    <3> QED
      BY <3>1, <3>2
  <2>3. ASSUME Owned PROVE Owned'
    <3>1. \A d \in Client, k \in Nat : Hold(d, k) # NoFd =>
            /\ Hold(d, k).fd \in Fd /\ Hold(d, k).fd # ref.fd /\ Hold(d, k) # ref
            /\ table[Hold(d, k).fd] = Hold(d, k).file
      <4> TAKE d \in Client, k \in Nat
      <4> HAVE Hold(d, k) # NoFd
      <4>1. Hold(d, k).fd \in Fd /\ Hold(d, k).file \in 1..files
        BY HoldType DEF FdInv
      <4>2. table[Hold(d, k).fd] = Hold(d, k).file
        BY <2>3 DEF Owned
      <4> QED
        BY <1>0, <2>1, <4>1, <4>2
    <3>2. ASSUME NEW d \in Client, NEW k \in Nat, Hold(d, k)' # NoFd
          PROVE  table'[Hold(d, k)'.fd] = Hold(d, k)'.file
      BY <1>0, <2>1, <3>1, <3>2
    <3>3. ASSUME NEW d \in Client, NEW e \in Client, NEW k \in Nat, NEW l \in Nat,
                 Hold(d, k)' # NoFd, Hold(d, k)' = Hold(e, l)'
          PROVE  d = e /\ k = l
      <4>1. CASE d = c /\ k = slot
        BY <3>1, <3>3, <4>1
      <4>2. CASE ~(d = c /\ k = slot)
        BY <2>3, <3>1, <3>3, <4>2 DEF Owned
      <4> QED
        BY <4>1, <4>2
    <3> QED
      BY <3>2, <3>3 DEF Owned
  <2> QED
    BY <2>2, <2>3 DEF FdInv
<1> QED
  BY <1>1, <1>2

(* Closing the numbers Z, none of which anything goes on to hold.            *)
LEMMA ClosingKeeps ==
  ASSUME FdInv, FdTypes', files' = files, NEW Z,
         table' = [n \in Fd |-> IF n \in Z THEN Free ELSE table[n]],
         \A n \in Fd \ Z : \A c \in Client, k \in Nat :
           Hold(c, k).fd = n => \E d \in Client, l \in Nat : Hold(d, l)'.fd = n,
         invoked' \/ (~invoked /\
           \A d \in Client, k \in Nat : Hold(d, k)' # NoFd =>
             /\ \E e \in Client, l \in Nat : Hold(e, l) = Hold(d, k)' /\ Hold(e, l).fd \notin Z
             /\ \A e \in Client, l \in Nat : Hold(d, k)' = Hold(e, l)' => d = e /\ k = l)
  PROVE  FdInv'
<1> USE DEF Free
<1>1. Held'
  <2> SUFFICES ASSUME NEW n \in Fd, table'[n] # 0
               PROVE  \E d \in Client, k \in Nat : Hold(d, k)'.fd = n
    BY DEF Held
  <2>1. n \notin Z /\ table[n] # 0
    OBVIOUS
  <2> QED
    BY <2>1 DEF FdInv, Held
<1>2. ASSUME ~invoked' PROVE Owned'
  <2>1. ASSUME NEW d \in Client, NEW k \in Nat, Hold(d, k)' # NoFd
        PROVE  table'[Hold(d, k)'.fd] = Hold(d, k)'.file
    <3>1. PICK e \in Client, l \in Nat : Hold(e, l) = Hold(d, k)' /\ Hold(e, l).fd \notin Z
      BY <1>2, <2>1
    <3>2. Hold(e, l).fd \in Fd
      BY <2>1, <3>1, HoldType DEF FdInv
    <3>3. table[Hold(e, l).fd] = Hold(e, l).file
      BY <1>2, <2>1, <3>1 DEF FdInv, Owned
    <3> QED
      BY <3>1, <3>2, <3>3
  <2> QED
    BY <1>2, <2>1 DEF Owned
<1> QED
  BY <1>1, <1>2 DEF FdInv

(* close in the form of ClosingKeeps.                                       *)
LEMMA CloseIs ==
  ASSUME FdTypes, NEW fd
  PROVE  fd = 0 \/ fd \in Fd =>
           /\ close(table, fd) = [n \in Fd |-> IF n \in {fd} THEN Free ELSE table[n]]
           /\ close(close(table, fd), fd) = close(table, fd)
<1> SUFFICES ASSUME fd = 0 \/ fd \in Fd
             PROVE  /\ close(table, fd) = [n \in Fd |-> IF n \in {fd} THEN Free ELSE table[n]]
                    /\ close(close(table, fd), fd) = close(table, fd)
  OBVIOUS
<1>0. table \in [Fd -> Nat] /\ 0 \notin Fd
  BY DEF FdTypes, Fd
<1>1. CASE fd = 0
  BY <1>0, <1>1 DEF close
<1>2. CASE fd \in Fd
  <2>1. close(table, fd) = [table EXCEPT ![fd] = Free]
    BY <1>0, <1>2 DEF close
  <2>2. close(close(table, fd), fd) = [[table EXCEPT ![fd] = Free] EXCEPT ![fd] = Free]
    BY <1>0, <1>2, <2>1 DEF close
  <2> QED
    BY <1>0, <1>2, <2>1, <2>2
<1> QED
  BY <1>1, <1>2

(* With ~invoked no two slots hold the same number.                         *)
LEMMA NumbersDiffer ==
  ASSUME FdInv, ~invoked, NEW c \in Client, NEW d \in Client, NEW k \in Nat, NEW l \in Nat,
         Hold(c, k) # NoFd, Hold(c, k).fd = Hold(d, l).fd
  PROVE  c = d /\ k = l
<1>1. Hold(c, k).fd \in Fd /\ Hold(c, k) = [fd |-> Hold(c, k).fd, file |-> Hold(c, k).file]
  BY HoldType DEF FdInv
<1>2. Hold(d, l) # NoFd
  BY <1>1 DEF NoFd, Fd
<1>3. Hold(d, l) = [fd |-> Hold(d, l).fd, file |-> Hold(d, l).file]
  BY <1>2, HoldType DEF FdInv
<1>4. table[Hold(c, k).fd] = Hold(c, k).file /\ table[Hold(d, l).fd] = Hold(d, l).file
  BY <1>2 DEF FdInv, Owned
<1>5. Hold(c, k) = Hold(d, l)
  BY <1>1, <1>3, <1>4
<1> QED
  BY <1>5 DEF FdInv, Owned

(* A client connects.                                                       *)
LEMMA ConnectKeeps ==
  ASSUME FdInv, NEW c \in Client, get_next_connection(c)
  PROVE  FdInv'
<1> DEFINE ref == Open(table)
<1>0. FdTypes /\ files \in Nat /\ table \in [Fd -> Nat]
  BY DEF FdInv, FdTypes
<1>1. /\ conn' = [conn EXCEPT ![c] = ref] /\ conn[c] = NoFd /\ ref # NoFd
      /\ table' = Install(table, ref) /\ files' = files + 1
      /\ UNCHANGED <<pending, txq, invoked>>
  BY DEF get_next_connection, Connected
<1>2. ref.fd \in Fd /\ ref.file = files + 1 /\ ref = [fd |-> ref.fd, file |-> ref.file]
  BY <1>0, <1>1, OpenIsFree
<1> HIDE DEF ref
<1>3. FdTypes'
  <2>1. table' \in [Fd -> Nat] /\ files' \in Nat
    BY <1>0, <1>1, <1>2 DEF Install
  <2>2. ref \in GoodRef'
    BY <1>0, <1>1, <1>2 DEF GoodRef
  <2>3. conn' \in [Client -> GoodRef']
    BY <1>0, <1>1, <2>1, <2>2, GoodRefGrows DEF FdTypes
  <2> QED
    BY <1>0, <1>1, <2>1, <2>3, GoodRefGrows DEF FdTypes
<1>4. \A d \in Client, k \in Nat : Hold(d, k)' = IF d = c /\ k = 0 THEN ref ELSE Hold(d, k)
  BY <1>0, <1>1 DEF Hold, RefAt, Slots, FdTypes
<1>5. Hold(c, 0) = NoFd
  BY <1>1 DEF Hold, RefAt
<1> QED
  BY <1>1, <1>3, <1>4, <1>5, OpeningKeeps DEF ref

(* A header arrives with a descriptor.                                      *)
LEMMA HeaderKeeps ==
  ASSUME FdInv, NEW c \in Client, NEW type \in Type, RecvHeader(c, type)
  PROVE  FdInv'
<1> DEFINE ref == Open(table)
<1>0. FdTypes /\ files \in Nat /\ table \in [Fd -> Nat]
  BY DEF FdInv, FdTypes
<1>1. /\ pending' = [pending EXCEPT ![c] = [type |-> type, ref |-> ref]] /\ pending[c] = NoMsg
      /\ table' = Install(table, ref) /\ files' = files + 1
      /\ UNCHANGED <<conn, txq, invoked>>
  BY DEF RecvHeader
<1>2. ref = NoFd \/ (ref.fd \in Fd /\ ref.file = files + 1 /\ ref = [fd |-> ref.fd, file |-> ref.file])
  BY <1>0, <1>1, OpenIsFree
<1> HIDE DEF ref
<1>3. FdTypes'
  <2>1. table' \in [Fd -> Nat] /\ files' \in Nat
    BY <1>0, <1>1, <1>2 DEF Install
  <2>2. ref \in GoodRef'
    BY <1>0, <1>1, <1>2 DEF GoodRef
  <2>3. [type |-> type, ref |-> ref] \in [type : Type, ref : GoodRef']
    BY <2>2
  <2>4. pending' \in [Client -> [type : Type, ref : GoodRef'] \cup {NoMsg}]
    BY <1>0, <1>1, <2>1, <2>3, GoodRefGrows DEF FdTypes
  <2>5. conn' \in [Client -> GoodRef'] /\ txq' \in [Client -> Seq(QMsg')]
    <3>1. conn \in [Client -> GoodRef'] /\ txq \in [Client -> Seq(QMsg')]
      BY <1>0, <1>1, <2>1, GoodRefGrows DEF FdTypes
    <3> QED
      BY <1>1, <3>1
  <2> QED
    BY <1>0, <1>1, <2>1, <2>4, <2>5 DEF FdTypes
<1>4. \A d \in Client, k \in Nat : Hold(d, k)' = IF d = c /\ k = 1 THEN ref ELSE Hold(d, k)
  <2>1. pending'[c].ref = ref /\ \A d \in Client \ {c} : pending'[d] = pending[d]
    BY <1>0, <1>1 DEF FdTypes
  <2>2. \A d \in Client : Slots(d)' = Slots(d) /\ 1 \in Slots(d)
    <3> TAKE d \in Client
    <3>1. txq[d] \in Seq(QMsg) /\ txq' = txq
      BY <1>0, <1>1 DEF FdTypes
    <3>2. Len(txq[d]) \in Nat
      BY <3>1, LenProperties
    <3> QED
      BY <3>1, <3>2 DEF Slots
  <2> TAKE d \in Client, k \in Nat
  <2>3. CASE k = 1
    BY <1>1, <2>1, <2>2, <2>3 DEF Hold, RefAt
  <2>4. CASE k # 1
    BY <1>1, <2>2, <2>4 DEF Hold, RefAt
  <2> QED
    BY <2>3, <2>4
<1>5. Hold(c, 1) = NoFd
  BY <1>1 DEF Hold, RefAt, NoMsg
<1> QED
  BY <1>1, <1>3, <1>4, <1>5, OpeningKeeps DEF ref

(* A message just received goes to nobody: its number is closed.            *)
LEMMA DropKeeps ==
  ASSUME FdInv, NEW c \in Client, pending' = [pending EXCEPT ![c] = NoMsg],
         table' = close(table, pending[c].ref.fd),
         UNCHANGED <<files, conn, txq, invoked>>
  PROVE  FdInv'
<1> DEFINE ref == pending[c].ref
<1>0. FdTypes
  BY DEF FdInv
<1>1. ref = Hold(c, 1)
  <2>1. Len(txq[c]) \in Nat
    BY <1>0 DEF FdTypes
  <2> QED
    BY <2>1 DEF Hold, RefAt, Slots
<1>2. ref = NoFd \/ ref.fd \in Fd
  BY <1>0, <1>1, HoldType
<1>3. table' = [n \in Fd |-> IF n \in {ref.fd} THEN Free ELSE table[n]]
  BY <1>0, <1>2, CloseIs DEF NoFd
<1>4. FdTypes'
  <2>1. table' \in [Fd -> Nat] /\ GoodRef' = GoodRef /\ QMsg' = QMsg
    BY <1>0, <1>3 DEF FdTypes, Free, GoodRef, QMsg
  <2>2. pending' \in [Client -> [type : Type, ref : GoodRef] \cup {NoMsg}]
    BY <1>0 DEF FdTypes
  <2> QED
    BY <1>0, <2>1, <2>2 DEF FdTypes
<1>5. \A d \in Client, k \in Nat : Hold(d, k)' = IF d = c /\ k = 1 THEN NoFd ELSE Hold(d, k)
  <2>1. \A d \in Client : pending'[d] = IF d = c THEN NoMsg ELSE pending[d]
    BY <1>0 DEF FdTypes
  <2> QED
    BY <2>1 DEF Hold, RefAt, Slots, NoMsg
<1> HIDE DEF ref
<1>6. ASSUME NEW n \in Fd \ {ref.fd}, NEW d \in Client, NEW k \in Nat, Hold(d, k).fd = n
      PROVE  \E e \in Client, l \in Nat : Hold(e, l)'.fd = n
  BY <1>1, <1>5, <1>6
<1>7. ASSUME ~invoked, NEW d \in Client, NEW k \in Nat, Hold(d, k)' # NoFd
      PROVE  /\ Hold(d, k) = Hold(d, k)' /\ Hold(d, k).fd \notin {ref.fd}
             /\ \A e \in Client, l \in Nat : Hold(d, k)' = Hold(e, l)' => d = e /\ k = l
  <2>1. Hold(d, k) = Hold(d, k)' /\ ~(d = c /\ k = 1)
    BY <1>5, <1>7
  <2>2. Hold(d, k).fd # ref.fd
    BY <1>1, <1>7, <2>1, NumbersDiffer
  <2> QED
    BY <1>5, <1>7, <2>1, <2>2, NumbersDiffer
<1>8. invoked \in BOOLEAN /\ invoked' = invoked
  BY <1>0 DEF FdTypes
<1>9. invoked' \/ (~invoked /\
         \A d \in Client, k \in Nat : Hold(d, k)' # NoFd =>
           /\ \E e \in Client, l \in Nat : Hold(e, l) = Hold(d, k)' /\ Hold(e, l).fd \notin {ref.fd}
           /\ \A e \in Client, l \in Nat : Hold(d, k)' = Hold(e, l)' => d = e /\ k = l)
  BY <1>7, <1>8
<1>10. files' = files
  OBVIOUS
<1> QED
  BY <1>3, <1>4, <1>6, <1>9, <1>10, ClosingKeeps, Zenon

(* A message just received waits in the queue of client d.  Its number stays *)
(* open, or, for an INVOKE, is closed all the same.                         *)
LEMMA QueueKeeps ==
  ASSUME FdInv, NEW c \in Client, NEW d \in Client, NEW sent, Queued(d, sent),
         pending' = [pending EXCEPT ![c] = NoMsg],
         txq' = Enqueue(d, pending[c].ref, sent),
         \/ table' = table /\ invoked' = invoked
         \/ table' = close(table, pending[c].ref.fd) /\ invoked' = TRUE,
         UNCHANGED <<files, conn>>
  PROVE  FdInv'
<1> DEFINE ref == pending[c].ref
           m == [ref |-> ref, sent |-> txq[d] = <<>> /\ sent = "part"]
           Z == IF table' = table /\ invoked' = invoked THEN {} ELSE {ref.fd}
<1>0. FdTypes /\ txq[d] \in Seq(QMsg) /\ Len(txq[d]) \in Nat
  <2>1. FdTypes /\ txq[d] \in Seq(QMsg)
    BY DEF FdInv, FdTypes
  <2> QED
    BY <2>1, LenProperties
<1>1. ref = Hold(c, 1)
  <2>1. Len(txq[c]) \in Nat
    BY <1>0 DEF FdTypes
  <2> QED
    BY <2>1 DEF Hold, RefAt, Slots
<1>2. ref \in GoodRef /\ (ref = NoFd \/ ref.fd \in Fd)
  BY <1>0, <1>1, HoldType DEF GoodRef
<1>3. table' = [n \in Fd |-> IF n \in Z THEN Free ELSE table[n]]
  <2>1. CASE table' = table /\ invoked' = invoked
    BY <1>0, <2>1 DEF FdTypes
  <2>2. CASE ~(table' = table /\ invoked' = invoked)
    BY <1>0, <1>2, <2>2, CloseIs DEF NoFd
  <2> QED
    BY <2>1, <2>2
<1>4. m \in QMsg /\ m.ref = ref
  BY <1>2 DEF QMsg
<1>5. txq' = [txq EXCEPT ![d] = Append(@, m)]
  BY DEF Enqueue
<1> HIDE DEF ref, m
<1>6. FdTypes'
  <2>1. table' \in [Fd -> Nat] /\ GoodRef' = GoodRef /\ QMsg' = QMsg
    BY <1>0, <1>3 DEF FdTypes, Free, GoodRef, QMsg
  <2>4. invoked' \in BOOLEAN
    <3>1. invoked \in BOOLEAN
      BY <1>0 DEF FdTypes
    <3> QED
      BY <3>1, Zenon
  <2>2. pending' \in [Client -> [type : Type, ref : GoodRef] \cup {NoMsg}]
    BY <1>0 DEF FdTypes
  <2>3. txq' \in [Client -> Seq(QMsg)]
    BY <1>0, <1>4, <1>5, AppendProperties DEF FdTypes
  <2> QED
    BY <1>0, <2>1, <2>2, <2>3, <2>4 DEF FdTypes
<1>13. PICK last \in Nat : last = Len(txq[d]) + 2
  BY <1>0
<1>7. Hold(d, last) = NoFd
  BY <1>0, <1>13 DEF Hold, Slots
<1>8. \A e \in Client, k \in Nat :
        Hold(e, k)' = IF e = c /\ k = 1 THEN NoFd
                      ELSE IF e = d /\ k = last THEN ref ELSE Hold(e, k)
  <2>1. \A e \in Client : pending'[e] = IF e = c THEN NoMsg ELSE pending[e]
    BY <1>0 DEF FdTypes
  <2>2. /\ Len(txq'[d]) = Len(txq[d]) + 1 /\ txq'[d][Len(txq[d]) + 1] = m
        /\ \A i \in 1..Len(txq[d]) : txq'[d][i] = txq[d][i]
        /\ \A e \in Client \ {d} : txq'[e] = txq[e]
    <3>1. txq'[d] = Append(txq[d], m)
      BY <1>0, <1>5 DEF FdTypes
    <3>2. \A e \in Client \ {d} : txq'[e] = txq[e]
      BY <1>0, <1>5 DEF FdTypes
    <3> QED
      BY <1>0, <1>4, <3>1, <3>2, AppendProperties
  <2> TAKE e \in Client, k \in Nat
  <2>3. CASE e # d
    BY <2>1, <2>2, <2>3 DEF Hold, RefAt, Slots, NoMsg
  <2>4. CASE e = d /\ k <= 1
    BY <1>0, <1>13, <2>1, <2>2, <2>4 DEF Hold, RefAt, Slots, NoMsg
  <2>5. CASE e = d /\ k > 1 /\ k < last
    <3>1. k - 1 \in 1..Len(txq[d]) /\ k \in Slots(e) /\ k \in Slots(e)'
      BY <1>0, <1>13, <2>2, <2>5 DEF Slots
    <3>2. txq'[d][k - 1] = txq[d][k - 1]
      BY <2>2, <3>1
    <3> QED
      BY <2>5, <3>1, <3>2 DEF Hold, RefAt
  <2>6. CASE e = d /\ k = last
    <3>1. k \in Slots(e)' /\ k - 1 = Len(txq[d]) + 1 /\ k # 0 /\ k # 1
      BY <1>0, <1>13, <2>2, <2>6 DEF Slots
    <3> QED
      BY <1>4, <2>2, <2>6, <3>1 DEF Hold, RefAt
  <2>7. CASE e = d /\ k > last
    BY <1>0, <1>13, <2>2, <2>7 DEF Hold, Slots
  <2> QED
    BY <1>0, <2>3, <2>4, <2>5, <2>6, <2>7
<1>11. last # 1
  BY <1>0, <1>13
<1>9. ASSUME NEW n \in Fd \ Z, NEW e \in Client, NEW k \in Nat, Hold(e, k).fd = n
      PROVE  \E x \in Client, l \in Nat : Hold(x, l)'.fd = n
  <2>1. CASE e = c /\ k = 1
    <3>1. Hold(d, last)' = Hold(e, k)
      BY <1>0, <1>1, <1>8, <1>11, <2>1
    <3> QED
      BY <1>0, <1>9, <3>1
  <2>2. CASE ~(e = c /\ k = 1)
    <3>1. Hold(e, k) # NoFd
      BY <1>9 DEF NoFd, Fd
    <3>2. Hold(e, k)' = Hold(e, k)
      BY <1>7, <1>8, <2>2, <3>1
    <3> QED
      BY <1>9, <3>2
  <2> QED
    BY <2>1, <2>2
<1>14. ASSUME ~invoked', NEW e \in Client, NEW k \in Nat, Hold(e, k)' # NoFd
       PROVE  /\ \E x \in Client, l \in Nat : Hold(x, l) = Hold(e, k)' /\ Hold(x, l).fd \notin Z
              /\ \A x \in Client, l \in Nat : Hold(e, k)' = Hold(x, l)' => e = x /\ k = l
  <2>0. Z = {}
    <3>1. table' = table /\ invoked' = invoked
      BY <1>14, Zenon
    <3> QED
      BY <3>1
  <2>1. ~invoked /\ Owned
    <3>1. ~invoked
      BY <1>14, Zenon
    <3> QED
      BY <3>1 DEF FdInv
  <2>2. \E x \in Client, l \in Nat : Hold(x, l) = Hold(e, k)'
    <3>1. CASE e = d /\ k = last
      BY <1>1, <1>8, <1>11, <3>1
    <3>2. CASE ~(e = d /\ k = last)
      BY <1>8, <1>14, <3>2
    <3> QED
      BY <3>1, <3>2
  <2>3. ASSUME NEW x \in Client, NEW l \in Nat, Hold(e, k)' = Hold(x, l)'
        PROVE  e = x /\ k = l
    <3>1. CASE e = d /\ k = last
      BY <1>1, <1>7, <1>8, <1>14, <2>1, <2>3, <3>1 DEF Owned
    <3>2. CASE ~(e = d /\ k = last)
      BY <1>1, <1>7, <1>8, <1>14, <2>1, <2>3, <3>2 DEF Owned
    <3> QED
      BY <3>1, <3>2
  <2> QED
    BY <2>0, <2>2, <2>3
<1>15. ~invoked' => ~invoked
  BY Zenon
<1> HIDE DEF Z
<1>10. invoked' \/ (~invoked /\
         \A e \in Client, k \in Nat : Hold(e, k)' # NoFd =>
           /\ \E x \in Client, l \in Nat : Hold(x, l) = Hold(e, k)' /\ Hold(x, l).fd \notin Z
           /\ \A x \in Client, l \in Nat : Hold(e, k)' = Hold(x, l)' => e = x /\ k = l)
  BY <1>14, <1>15, Zenon
<1>12. files' = files
  OBVIOUS
<1> QED
  BY <1>3, <1>6, <1>9, <1>10, <1>12, ClosingKeeps, Zenon

(* The body of a message arrives.                                           *)
LEMMA ReceiveKeeps ==
  ASSUME FdInv, NEW c \in Client, ubusd_proto_receive_message(c)
  PROVE  FdInv'
<1> DEFINE ref == pending[c].ref
<1>0. FdTypes /\ invoked \in BOOLEAN
  BY DEF FdInv, FdTypes
<1>1. pending' = [pending EXCEPT ![c] = NoMsg] /\ UNCHANGED <<files, conn>>
  BY DEF ubusd_proto_receive_message
<1>2. ref.fd = 0 \/ ref.fd \in Fd
  <2>1. 1 \in Slots(c)
    <3>1. Len(txq[c]) \in Nat
      BY <1>0 DEF FdTypes
    <3> QED
      BY <3>1 DEF Slots
  <2>2. ref = Hold(c, 1)
    BY <2>1 DEF Hold, RefAt
  <2> QED
    BY <1>0, <2>2, HoldType DEF NoFd
<1>3. close(close(table, ref.fd), ref.fd) = close(table, ref.fd)
  BY <1>0, <1>2, CloseIs
<1>4. CASE table' = close(table, ref.fd) /\ UNCHANGED <<txq, invoked>>
  BY <1>1, <1>4, DropKeeps
<1>5. ASSUME NEW d \in Connected, NEW sent, ubusd_handle_response(ref, d, sent)
      PROVE  FdInv'
  <2>0. d \in Client
    BY DEF Connected
  <2>1. CASE Queued(d, sent)
    <3>1. txq' = Enqueue(d, ref, sent) /\ table' = table /\ invoked' = invoked
      BY <1>5, <2>1 DEF ubusd_handle_response
    <3> QED
      BY <1>1, <2>0, <2>1, <3>1, QueueKeeps
  <2>2. CASE ~Queued(d, sent)
    BY <1>4, <1>5, <2>2 DEF ubusd_handle_response, Enqueue
  <2> QED
    BY <2>1, <2>2
<1>6. ASSUME NEW d \in Connected, NEW sent, ubusd_handle_invoke(ref, d, sent)
      PROVE  FdInv'
  <2>0. d \in Client
    BY DEF Connected
  <2>1. /\ txq' = Enqueue(d, ref, sent) /\ table' = close(table, ref.fd)
        /\ invoked' = (invoked \/ Queued(d, sent))
    BY <1>3, <1>6 DEF ubusd_handle_invoke
  <2>2. CASE Queued(d, sent)
    <3>1. invoked' = TRUE
      BY <2>1, <2>2
    <3> QED
      BY <1>1, <2>0, <2>1, <2>2, <3>1, QueueKeeps
  <2>3. CASE ~Queued(d, sent)
    <3>1. invoked' = invoked
      BY <1>0, <2>1, <2>3
    <3>2. txq' = txq
      BY <2>1, <2>3 DEF Enqueue
    <3> QED
      BY <1>4, <2>1, <3>1, <3>2
  <2> QED
    BY <2>2, <2>3
<1> QED
  BY <1>4, <1>5, <1>6 DEF ubusd_proto_receive_message

(* A client is gone: all that it held is closed, and nothing else.           *)
LEMMA DisconnectKeeps ==
  ASSUME FdInv, NEW c \in Client, handle_client_disconnect(c)
  PROVE  FdInv'
<1> DEFINE mine == {txq[c][i].ref : i \in 1..Len(txq[c])} \cup {pending[c].ref, conn[c]}
           Z == {r.fd : r \in mine}
<1>0. FdTypes /\ txq[c] \in Seq(QMsg) /\ Len(txq[c]) \in Nat
  <2>1. FdTypes /\ txq[c] \in Seq(QMsg)
    BY DEF FdInv, FdTypes
  <2> QED
    BY <2>1, LenProperties
<1>1. /\ table' = [n \in Fd |-> IF n \in Z THEN Free ELSE table[n]]
      /\ txq' = [txq EXCEPT ![c] = <<>>] /\ pending' = [pending EXCEPT ![c] = NoMsg]
      /\ conn' = [conn EXCEPT ![c] = NoFd] /\ files' = files /\ invoked' = invoked
  BY DEF handle_client_disconnect, CloseAll
<1>2. \A r \in mine : \E k \in Nat : r = Hold(c, k)
  <2> TAKE r \in mine
  <2>1. CASE r = conn[c]
    <3>1. r = Hold(c, 0)
      BY <1>0, <2>1 DEF Hold, RefAt, Slots
    <3> QED
      BY <3>1
  <2>2. CASE r = pending[c].ref
    <3>1. r = Hold(c, 1)
      BY <1>0, <2>2 DEF Hold, RefAt, Slots
    <3> QED
      BY <3>1
  <2>3. ASSUME NEW i \in 1..Len(txq[c]), r = txq[c][i].ref
        PROVE  \E k \in Nat : r = Hold(c, k)
    <3>1. i + 1 \in Slots(c) /\ i + 1 # 0 /\ i + 1 # 1 /\ (i + 1) - 1 = i /\ i + 1 \in Nat
      BY <1>0 DEF Slots
    <3>2. r = Hold(c, i + 1)
      BY <2>3, <3>1 DEF Hold, RefAt
    <3> QED
      BY <3>1, <3>2
  <2> QED
    BY <2>1, <2>2, <2>3
<1>3. \A k \in Nat : Hold(c, k) = NoFd \/ Hold(c, k) \in mine
  <2> TAKE k \in Nat
  <2>1. CASE k \in Slots(c) /\ k > 1
    <3>1. k - 1 \in 1..Len(txq[c]) /\ k # 0 /\ k # 1
      BY <1>0, <2>1 DEF Slots
    <3> QED
      BY <2>1, <3>1 DEF Hold, RefAt
  <2> QED
    BY <2>1 DEF Hold, RefAt
<1>4. Z \subseteq {0} \cup {Hold(c, k).fd : k \in Nat} /\ \A k \in Nat : Hold(c, k) # NoFd => Hold(c, k).fd \in Z
  BY <1>2, <1>3
<1> HIDE DEF mine, Z
<1>5. FdTypes'
  <2>1. table' \in [Fd -> Nat] /\ GoodRef' = GoodRef /\ QMsg' = QMsg
    BY <1>0, <1>1 DEF FdTypes, Free, GoodRef, QMsg
  <2>2. pending' \in [Client -> [type : Type, ref : GoodRef] \cup {NoMsg}]
    BY <1>0, <1>1 DEF FdTypes
  <2>3. conn' \in [Client -> GoodRef]
    BY <1>0, <1>1 DEF FdTypes, GoodRef
  <2>4. txq' \in [Client -> Seq(QMsg)]
    <3>1. <<>> \in Seq(QMsg)
      BY EmptySeq
    <3> QED
      BY <1>0, <1>1, <3>1 DEF FdTypes
  <2> QED
    BY <1>0, <1>1, <2>1, <2>2, <2>3, <2>4 DEF FdTypes
<1>6. \A d \in Client, k \in Nat : Hold(d, k)' = IF d = c THEN NoFd ELSE Hold(d, k)
  <2>1. \A d \in Client : /\ pending'[d] = IF d = c THEN NoMsg ELSE pending[d]
                          /\ conn'[d] = IF d = c THEN NoFd ELSE conn[d]
                          /\ txq'[d] = IF d = c THEN <<>> ELSE txq[d]
    BY <1>0, <1>1 DEF FdTypes
  <2> TAKE d \in Client, k \in Nat
  <2>2. CASE d = c
    <3>1. Len(txq'[d]) = 0 /\ pending'[d].ref = NoFd /\ conn'[d] = NoFd
      BY <2>1, <2>2 DEF NoMsg
    <3>2. k \in Slots(d)' => k = 0 \/ k = 1
      BY <3>1 DEF Slots
    <3> QED
      BY <2>2, <3>1, <3>2 DEF Hold, RefAt
  <2>3. CASE d # c
    BY <2>1, <2>3 DEF Hold, RefAt, Slots
  <2> QED
    BY <2>2, <2>3
<1>7. ASSUME NEW n \in Fd \ Z, NEW d \in Client, NEW k \in Nat, Hold(d, k).fd = n
      PROVE  \E e \in Client, l \in Nat : Hold(e, l)'.fd = n
  <2>1. Hold(d, k) # NoFd
    BY <1>7 DEF NoFd, Fd
  <2>2. d # c
    BY <1>4, <1>7, <2>1
  <2> QED
    BY <1>6, <1>7, <2>2
<1>8. ASSUME ~invoked, NEW d \in Client, NEW k \in Nat, Hold(d, k)' # NoFd
      PROVE  /\ Hold(d, k) = Hold(d, k)' /\ Hold(d, k).fd \notin Z
             /\ \A e \in Client, l \in Nat : Hold(d, k)' = Hold(e, l)' => d = e /\ k = l
  <2>1. Hold(d, k) = Hold(d, k)' /\ d # c
    BY <1>6, <1>8
  <2>2. Hold(d, k).fd \notin Z
    <3> SUFFICES ASSUME Hold(d, k).fd \in Z PROVE FALSE
      OBVIOUS
    <3>1. Hold(d, k).fd # 0
      BY <1>0, <1>8, <2>1, HoldType DEF Fd
    <3>2. PICK l \in Nat : Hold(d, k).fd = Hold(c, l).fd
      BY <1>4, <3>1
    <3> QED
      BY <1>8, <2>1, <3>2, NumbersDiffer
  <2>3. ASSUME NEW e \in Client, NEW l \in Nat, Hold(d, k)' = Hold(e, l)'
        PROVE  d = e /\ k = l
    <3>1. Hold(e, l)' = Hold(e, l)
      BY <1>6, <1>8, <2>3
    <3> QED
      BY <1>8, <2>1, <2>3, <3>1, NumbersDiffer
  <2> QED
    BY <2>1, <2>2, <2>3
<1>9. invoked \in BOOLEAN
  BY <1>0 DEF FdTypes
<1>10. invoked' \/ (~invoked /\
         \A d \in Client, k \in Nat : Hold(d, k)' # NoFd =>
           /\ \E e \in Client, l \in Nat : Hold(e, l) = Hold(d, k)' /\ Hold(e, l).fd \notin Z
           /\ \A e \in Client, l \in Nat : Hold(d, k)' = Hold(e, l)' => d = e /\ k = l)
  BY <1>1, <1>8, <1>9
<1>11. files' = files /\ table' = [n \in Fd |-> IF n \in Z THEN Free ELSE table[n]]
  BY <1>1
<1> QED
  BY <1>5, <1>7, <1>10, <1>11, ClosingKeeps, Zenon

(* Part of the first message goes out: its descriptor is still held.        *)
LEMMA PartKeeps ==
  ASSUME FdInv, NEW c \in Client, txq[c] # <<>>, txq' = [txq EXCEPT ![c][1].sent = TRUE],
         UNCHANGED <<table, files, conn, pending, invoked>>
  PROVE  FdInv'
<1> DEFINE m == [txq[c][1] EXCEPT !.sent = TRUE]
<1>0. FdTypes /\ txq[c] \in Seq(QMsg) /\ Len(txq[c]) \in Nat /\ 1 \in 1..Len(txq[c])
  <2>1. FdTypes /\ txq[c] \in Seq(QMsg)
    BY DEF FdInv, FdTypes
  <2> QED
    BY <2>1, EmptySeq, LenProperties
<1>1. txq[c][1] \in QMsg
  BY <1>0, ElementOfSeq
<1>2. m \in QMsg /\ m.ref = txq[c][1].ref
  BY <1>1 DEF QMsg
<1>3. txq' = [txq EXCEPT ![c] = [@ EXCEPT ![1] = m]]
  BY <1>0 DEF FdTypes
<1> HIDE DEF m
<1>4. /\ [txq[c] EXCEPT ![1] = m] \in Seq(QMsg)
      /\ Len([txq[c] EXCEPT ![1] = m]) = Len(txq[c])
      /\ \A i \in 1..Len(txq[c]) : [txq[c] EXCEPT ![1] = m][i] = IF i = 1 THEN m ELSE txq[c][i]
  BY <1>0, <1>2, ExceptSeq
<1>5. \A d \in Client : txq'[d] = IF d = c THEN [txq[c] EXCEPT ![1] = m] ELSE txq[d]
  BY <1>0, <1>3 DEF FdTypes
<1>6. FdTypes'
  <2>1. txq' \in [Client -> Seq(QMsg)]
    BY <1>0, <1>3, <1>4 DEF FdTypes
  <2> QED
    BY <1>0, <2>1 DEF FdTypes, GoodRef, QMsg
<1>7. \A d \in Client, k \in Nat : Hold(d, k)' = Hold(d, k)
  <2> TAKE d \in Client, k \in Nat
  <2>1. CASE d = c
    <3>1. Slots(d)' = Slots(d)
      BY <1>4, <1>5, <2>1 DEF Slots
    <3>2. CASE k \in Slots(d) /\ k > 1
      <4>1. k - 1 \in 1..Len(txq[c]) /\ k # 0 /\ k # 1
        BY <1>0, <2>1, <3>2 DEF Slots
      <4>2. txq'[c][k - 1].ref = txq[c][k - 1].ref
        BY <1>2, <1>4, <1>5, <4>1
      <4> QED
        BY <2>1, <3>1, <4>1, <4>2 DEF Hold, RefAt
    <3> QED
      BY <3>1, <3>2 DEF Hold, RefAt
  <2>2. CASE d # c
    BY <1>5, <2>2 DEF Hold, RefAt, Slots
  <2> QED
    BY <2>1, <2>2
<1>8. Held'
  BY <1>7 DEF FdInv, Held
<1>9. Owned => Owned'
  BY <1>7 DEF Owned
<1> QED
  BY <1>6, <1>8, <1>9, Zenon DEF FdInv

(* The first message has gone out: its number is closed, and the messages   *)
(* behind it move up.                                                       *)
LEMMA SentKeeps ==
  ASSUME FdInv, NEW c \in Client, txq[c] # <<>>, txq' = [txq EXCEPT ![c] = Tail(@)],
         table' = close(table, Head(txq[c]).ref.fd),
         UNCHANGED <<files, conn, pending, invoked>>
  PROVE  FdInv'
<1> DEFINE ref == Head(txq[c]).ref
<1>0. FdTypes /\ txq[c] \in Seq(QMsg) /\ Len(txq[c]) \in Nat /\ 1 \in 1..Len(txq[c])
  <2>1. FdTypes /\ txq[c] \in Seq(QMsg)
    BY DEF FdInv, FdTypes
  <2> QED
    BY <2>1, EmptySeq, LenProperties
<1>1. ref = Hold(c, 2)
  <2>1. 2 \in Slots(c)
    BY <1>0 DEF Slots
  <2>2. Head(txq[c]) = txq[c][1]
    BY <1>0, HeadTailProperties
  <2> QED
    BY <2>1, <2>2 DEF Hold, RefAt
<1>2. ref = NoFd \/ ref.fd \in Fd
  BY <1>0, <1>1, HoldType
<1>3. table' = [n \in Fd |-> IF n \in {ref.fd} THEN Free ELSE table[n]]
  <2>1. ref.fd = 0 \/ ref.fd \in Fd
    BY <1>2 DEF NoFd
  <2>2. table' = close(table, ref.fd)
    OBVIOUS
  <2> HIDE DEF ref
  <2> QED
    BY <1>0, <2>1, <2>2, CloseIs
<1> HIDE DEF ref
<1>4. /\ Tail(txq[c]) \in Seq(QMsg) /\ Len(Tail(txq[c])) = Len(txq[c]) - 1
      /\ \A i \in 1..(Len(txq[c]) - 1) : Tail(txq[c])[i] = txq[c][i + 1]
  BY <1>0, HeadTailProperties
<1>5. \A d \in Client : txq'[d] = IF d = c THEN Tail(txq[c]) ELSE txq[d]
  BY <1>0 DEF FdTypes
<1>6. FdTypes'
  <2>1. table' \in [Fd -> Nat] /\ GoodRef' = GoodRef /\ QMsg' = QMsg
    BY <1>0, <1>3 DEF FdTypes, Free, GoodRef, QMsg
  <2>2. txq' \in [Client -> Seq(QMsg)]
    BY <1>0, <1>4 DEF FdTypes
  <2> QED
    BY <1>0, <2>1, <2>2 DEF FdTypes
<1>7. \A d \in Client, k \in Nat : Hold(d, k)' = IF d = c /\ k > 1 THEN Hold(d, k + 1) ELSE Hold(d, k)
  <2> TAKE d \in Client, k \in Nat
  <2>1. CASE d = c /\ k <= 1
    BY <1>0, <1>4, <1>5, <2>1 DEF Hold, RefAt, Slots
  <2>2. CASE d = c /\ k > 1
    <3>0. Len(txq'[d]) = Len(txq[d]) - 1 /\ Len(txq[d]) \in Nat /\ Len(txq[d]) >= 1
      <4>1. txq'[d] = Tail(txq[c])
        BY <1>5, <2>2
      <4>2. Len(txq'[d]) = Len(txq[c]) - 1
        BY <1>4, <4>1, Zenon
      <4> QED
        BY <1>0, <2>2, <4>2
    <3>3. PICK n \in Nat : n = Len(txq[d])
      BY <3>0
    <3>4. Slots(d)' = 0..n /\ Slots(d) = 0..(n + 1) /\ k \in Nat
      <4>1. Len(txq'[d]) + 1 = n
        BY <3>0, <3>3
      <4> QED
        BY <3>3, <4>1 DEF Slots
    <3>1. k \in Slots(d)' <=> k + 1 \in Slots(d)
      BY <3>4
    <3>2. CASE k + 1 \in Slots(d)
      <4>1. k - 1 \in 1..(Len(txq[c]) - 1) /\ (k - 1) + 1 = (k + 1) - 1 /\ k # 0 /\ k + 1 # 0 /\ k + 1 # 1
        BY <1>0, <2>2, <3>2 DEF Slots
      <4>2. txq'[c][k - 1] = txq[c][(k + 1) - 1]
        BY <1>4, <1>5, <4>1
      <4> QED
        BY <2>2, <3>1, <3>2, <4>1, <4>2 DEF Hold, RefAt
    <3> QED
      BY <2>2, <3>1, <3>2 DEF Hold
  <2>3. CASE d # c
    BY <1>5, <2>3 DEF Hold, RefAt, Slots
  <2> QED
    BY <2>1, <2>2, <2>3
<1>8. ASSUME NEW n \in Fd \ {ref.fd}, NEW d \in Client, NEW k \in Nat, Hold(d, k).fd = n
      PROVE  \E e \in Client, l \in Nat : Hold(e, l)'.fd = n
  <2>1. CASE d = c /\ k > 1
    <3>1. k # 2
      BY <1>1, <1>8, <2>1
    <3>2. k - 1 \in Nat /\ k - 1 > 1 /\ (k - 1) + 1 = k
      BY <2>1, <3>1
    <3>3. Hold(d, k - 1)' = Hold(d, k)
      BY <1>7, <2>1, <3>2
    <3> QED
      BY <1>8, <3>2, <3>3
  <2>2. CASE ~(d = c /\ k > 1)
    BY <1>7, <1>8, <2>2
  <2> QED
    BY <2>1, <2>2
<1>9. ASSUME ~invoked, NEW d \in Client, NEW k \in Nat, Hold(d, k)' # NoFd
      PROVE  /\ \E e \in Client, l \in Nat : Hold(e, l) = Hold(d, k)' /\ Hold(e, l).fd \notin {ref.fd}
             /\ \A e \in Client, l \in Nat : Hold(d, k)' = Hold(e, l)' => d = e /\ k = l
  <2>1. PICK j \in Nat : j = IF d = c /\ k > 1 THEN k + 1 ELSE k
    OBVIOUS
  <2>2. Hold(d, k)' = Hold(d, j) /\ ~(d = c /\ j = 2)
    BY <1>7, <2>1
  <2>3. Hold(d, j).fd # ref.fd
    BY <1>1, <1>9, <2>2, NumbersDiffer
  <2>4. ASSUME NEW e \in Client, NEW l \in Nat, Hold(d, k)' = Hold(e, l)'
        PROVE  d = e /\ k = l
    <3>1. PICK i \in Nat : i = IF e = c /\ l > 1 THEN l + 1 ELSE l
      OBVIOUS
    <3>2. Hold(e, l)' = Hold(e, i)
      BY <1>7, <3>1
    <3>4. Hold(d, j) # NoFd /\ Hold(d, j).fd = Hold(e, i).fd
      BY <1>9, <2>2, <2>4, <3>2
    <3>3. d = e /\ j = i
      BY <1>9, <3>4, NumbersDiffer
    <3> QED
      BY <2>1, <3>1, <3>3
  <2> QED
    BY <2>2, <2>3, <2>4
<1>10. invoked \in BOOLEAN /\ invoked' = invoked
  BY <1>0 DEF FdTypes
<1>11. invoked' \/ (~invoked /\
         \A d \in Client, k \in Nat : Hold(d, k)' # NoFd =>
           /\ \E e \in Client, l \in Nat : Hold(e, l) = Hold(d, k)' /\ Hold(e, l).fd \notin {ref.fd}
           /\ \A e \in Client, l \in Nat : Hold(d, k)' = Hold(e, l)' => d = e /\ k = l)
  BY <1>9, <1>10
<1>12. files' = files
  OBVIOUS
<1> QED
  BY <1>3, <1>6, <1>8, <1>11, <1>12, ClosingKeeps, Zenon

(* Init holds no descriptor.                                                *)
LEMMA FdInitially == Init => FdInv
<1> SUFFICES ASSUME Init PROVE FdInv
  OBVIOUS
<1>1. FdTypes
  <2>1. NoFd \in GoodRef /\ <<>> \in Seq(QMsg)
    BY EmptySeq DEF GoodRef
  <2> QED
    BY <2>1 DEF Init, FdTypes, Free
<1>2. \A c \in Client, k \in Nat : Hold(c, k) = NoFd
  <2> TAKE c \in Client, k \in Nat
  <2>1. Len(txq[c]) = 0 /\ pending[c].ref = NoFd /\ conn[c] = NoFd
    BY DEF Init, NoMsg
  <2>2. k \in Slots(c) => k = 0 \/ k = 1
    BY <2>1 DEF Slots
  <2> QED
    BY <2>1, <2>2 DEF Hold, RefAt
<1>3. Held
  BY DEF Held, Init, Free
<1>4. Owned
  BY <1>2 DEF Owned
<1> QED
  BY <1>1, <1>3, <1>4 DEF FdInv

(* Every step keeps the invariant.                                          *)
LEMMA FdStep == FdInv /\ [Next]_vars => FdInv'
<1> SUFFICES ASSUME FdInv, [Next]_vars PROVE FdInv'
  OBVIOUS
<1>1. CASE UNCHANGED vars
  <2>1. \A c \in Client, k \in Nat : Hold(c, k)' = Hold(c, k)
    BY <1>1 DEF vars, Hold, RefAt, Slots
  <2>2. FdTypes' /\ Held' /\ (Owned => Owned')
    <3>1. FdTypes'
      BY <1>1 DEF vars, FdInv, FdTypes, GoodRef, QMsg
    <3>2. Held' /\ (Owned => Owned')
      BY <1>1, <2>1 DEF vars, FdInv, Held, Owned
    <3> QED
      BY <3>1, <3>2
  <2>3. invoked' = invoked
    BY <1>1 DEF vars
  <2> QED
    BY <2>2, <2>3, Zenon DEF FdInv
<1>2. ASSUME NEW c \in Client, get_next_connection(c) PROVE FdInv'
  BY <1>2, ConnectKeeps
<1>3. ASSUME NEW c \in Client, NEW type \in Type, RecvHeader(c, type) PROVE FdInv'
  BY <1>3, HeaderKeeps
<1>4. ASSUME NEW c \in Client, ubusd_proto_receive_message(c) PROVE FdInv'
  BY <1>4, ReceiveKeeps
<1>5. ASSUME NEW c \in Client, NEW sent, TxRound(c, sent) PROVE FdInv'
  <2>1. CASE handle_client_disconnect(c)
    BY <2>1, DisconnectKeeps
  <2>2. CASE txq' = [txq EXCEPT ![c][1].sent = TRUE] /\ UNCHANGED <<table, files, conn, pending, invoked>>
    BY <1>5, <2>2, PartKeeps DEF TxRound
  <2>3. CASE /\ txq' = [txq EXCEPT ![c] = Tail(@)] /\ table' = close(table, Head(txq[c]).ref.fd)
             /\ UNCHANGED <<files, conn, pending, invoked>>
    BY <1>5, <2>3, SentKeeps DEF TxRound
  <2> QED
    BY <1>5, <2>1, <2>2, <2>3 DEF TxRound
<1>6. ASSUME NEW c \in Client, Disconnect(c) PROVE FdInv'
  BY <1>6, DisconnectKeeps DEF Disconnect
<1> QED
  BY <1>1, <1>2, <1>3, <1>4, <1>5, <1>6 DEF Next

----------------------------------------------------------------------------
(* No descriptor leaks (ubus_msg_free, handle_client_disconnect): with any   *)
(* number of clients, numbers and queued messages, a number that is open is  *)
(* held by a socket or a message, whatever was received, sent or cut off.    *)
THEOREM NoLeak == Spec => []NoFdLeak
<1>1. FdInv => NoFdLeak
  <2> SUFFICES ASSUME FdInv, NEW n \in Fd, table[n] # Free
               PROVE  \E c \in Client : \E k \in Slots(c) : RefAt(c, k).fd = n
    BY DEF NoFdLeak
  <2>1. PICK c \in Client, k \in Nat : Hold(c, k).fd = n
    BY DEF FdInv, Held
  <2>2. Hold(c, k) # NoFd
    BY <2>1 DEF NoFd, Fd
  <2> QED
    BY <2>1, <2>2 DEF Hold
<1> QED
  BY <1>1, FdInitially, FdStep, PTL DEF Spec

(* As long as no INVOKE had to wait in a queue (ubusd_handle_invoke), every   *)
(* number that a socket or a message holds denotes the file it was obtained   *)
(* for: nothing was closed twice, and no other file took the number.         *)
THEOREM HeldFdsIntact == Spec => []FdIntact
<1>1. FdInv => FdIntact
  <2> SUFFICES ASSUME FdInv, ~invoked, NEW c \in Client, NEW k \in Slots(c), RefAt(c, k) # NoFd
               PROVE  table[RefAt(c, k).fd] = RefAt(c, k).file
    BY DEF FdIntact
  <2>1. k \in Nat
    BY DEF Slots
  <2>2. Hold(c, k) = RefAt(c, k)
    BY DEF Hold
  <2> QED
    BY <2>1, <2>2 DEF FdInv, Owned
<1> QED
  BY <1>1, FdInitially, FdStep, PTL DEF Spec
=============================================================================
