----------------------------- MODULE UbusdLookup ----------------------------
(***************************************************************************)
(* Lookups of one client of ubusd: __ubusd_handle_lookup (ubusd_proto.c),    *)
(* which stops when the client's transmit queue fills, the command queue in  *)
(* which it leaves the object to go on from, and the write event of          *)
(* client_cb (ubusd_main.c) that continues it.  Meanwhile other clients      *)
(* publish and withdraw objects.                                            *)
(*                                                                          *)
(* Paths are numbers in the order of the path tree.  A pointer to an object  *)
(* is the path and the generation it was published in: it is stale once      *)
(* another generation, or none, is published there.  Messages have no size:  *)
(* the socket holds Cap of them.                                            *)
(***************************************************************************)
EXTENDS Naturals, Sequences, SequencesExt, FiniteSets, FiniteSetsExt

CONSTANTS N,         \* paths 1..N
          Visible,   \* paths whose object has a type and a method the client may call
          Prefix,    \* the paths that a lookup with a trailing "*" asks for
          Cap,       \* messages the socket holds
          MaxSeq,    \* bound: lookups
          MaxGen,    \* bound: publications
          FreeCursor \* whether an object at which a lookup stopped may go

ASSUME LookupAssumption == Visible \subseteq 1..N /\ Prefix \subseteq 1..N /\ Cap > 0

VARIABLES path,      \* the path tree: path -> generation, 0 if absent
          gen,       \* publications so far
          tx,        \* messages in the transmit queue
          sock,      \* messages in the socket
          write,     \* ULOOP_WRITE is asked for
          cmd_queue, \* lookups that wait: [seq, kind, obj]
          status,    \* history: lookup -> what became of it
          kind,      \* history: lookup -> what it asks for
          listed,    \* history: lookup -> the paths sent for it
          want       \* history: lookup -> paths published all the time since it came

vars == <<path, gen, tx, sock, write, cmd_queue, status, kind, listed, want>>
hist == <<status, kind, listed, want>>

----------------------------------------------------------------------------
Paths == 1..N
Lookup == 1..MaxSeq
All == 0                \* no path attribute
Star == N + 1           \* a path with a trailing "*"
Kind == 0..(N + 1)      \* the others ask for one path
NoObj == <<0, 0>>

Published == {p \in Paths : path[p] > 0}

InOrder(S) == SelectSeq([p \in Paths |-> p], LAMBDA p : p \in S)

IsStale(obj) == obj # NoObj /\ path[obj[1]] # obj[2]

\* A handler works on S: the transmit state, the answers, and where it stopped.
Start == [tx |-> tx, sock |-> sock, write |-> write, listed |-> listed,
          status |-> status, stop |-> NoObj]

ubus_msg_send(S) ==
    IF S.tx = 0 /\ S.sock < Cap THEN [S EXCEPT !.sock = @ + 1]
                                ELSE [S EXCEPT !.tx = @ + 1, !.write = TRUE]

ubusd_send_obj(S, s, p) ==
    IF p \in Visible THEN [ubus_msg_send(S) EXCEPT !.listed[s] = Append(@, p)] ELSE S

\* Fault: going on behind the object at which the lookup stopped.
ListAllSkips(S, s, from) ==
    FoldLeft(LAMBDA X, p : IF X.stop # NoObj THEN X
                           ELSE IF X.tx = 0 THEN ubusd_send_obj(X, s, p)
                           ELSE [X EXCEPT !.stop = <<p, path[p]>>],
             S, InOrder({p \in Published : p > from}))

\* Fault: sending the object before looking at the queue, and again later.
ListAllRepeats(S, s, from) ==
    FoldLeft(LAMBDA X, p : IF X.stop # NoObj THEN X
                           ELSE LET Y == ubusd_send_obj(X, s, p)
                                IN  IF Y.tx = 0 THEN Y ELSE [Y EXCEPT !.stop = <<p, path[p]>>],
             S, InOrder({p \in Published : p >= from}))

\* Keep sending objects until buffering starts.
ListAll(S, s, from) ==
    FoldLeft(LAMBDA X, p : IF X.stop # NoObj THEN X
                           ELSE IF X.tx = 0 THEN ubusd_send_obj(X, s, p)
                           ELSE [X EXCEPT !.stop = <<p, path[p]>>],
             S, InOrder({p \in Published : p >= from}))

\* A lookup of given paths does not stop; it fails if nothing is there.
ListSome(S, s, P) ==
    FoldLeft(LAMBDA X, p : ubusd_send_obj(X, s, p), S, InOrder(P \cap Published))

Asked(k) == IF k = Star THEN Prefix ELSE {k}

__ubusd_handle_lookup(S, s, k, obj) ==
    IF k = All THEN ListAll(S, s, obj[1]) ELSE ListSome(S, s, Asked(k))

\* The status that follows a lookup that has not stopped.
Finish(S, s, k) ==
    LET found == k = All \/ Asked(k) \cap Published # {}
    IN  [ubus_msg_send(S) EXCEPT !.status[s] = IF found THEN "OK" ELSE "NOT_FOUND"]

ubusd_cmd_lookup(S, cmd) ==
    LET S1 == __ubusd_handle_lookup(S, cmd.seq, cmd.kind, cmd.obj)
    IN  IF S1.stop # NoObj THEN S1 ELSE Finish(S1, cmd.seq, cmd.kind)

Commit(S) ==
    /\ tx' = S.tx /\ sock' = S.sock /\ write' = S.write
    /\ listed' = S.listed /\ status' = S.status

----------------------------------------------------------------------------
Init ==
    /\ path = [p \in Paths |-> 0] /\ gen = 0
    /\ tx = 0 /\ sock = 0 /\ write = FALSE /\ cmd_queue = <<>>
    /\ status = [s \in Lookup |-> "none"] /\ kind = [s \in Lookup |-> All]
    /\ listed = [s \in Lookup |-> <<>>] /\ want = [s \in Lookup |-> {}]

\* A lookup waits if something is queued for the client already, or else when
\* its own answers are; k is All, Star, or a path.
ubusd_handle_lookup(s, k) ==
    LET S == ubusd_cmd_lookup(Start, [seq |-> s, kind |-> k, obj |-> NoObj])
        queued(obj) == Append(cmd_queue, [seq |-> s, kind |-> k, obj |-> obj])
    IN  /\ status[s] = "none" /\ \A r \in 1..(s - 1) : status[r] # "none"
        /\ kind' = [kind EXCEPT ![s] = k]
        /\ want' = [want EXCEPT ![s] = Published \cap Visible]
        /\ IF tx = 0
           THEN IF S.stop = NoObj
                THEN Commit(S) /\ UNCHANGED cmd_queue
                ELSE /\ Commit([S EXCEPT !.status[s] = "waits"])
                     /\ cmd_queue' = queued(S.stop)
           ELSE /\ Commit([Start EXCEPT !.status[s] = "waits"])
                /\ cmd_queue' = queued(NoObj)
        /\ UNCHANGED <<path, gen>>

\* Fault: the queue is given up at the first lookup that stops again.
ProcessForgets(S) ==
    LET S1 == ubusd_cmd_lookup(S, Head(cmd_queue))
    IN  IF cmd_queue = <<>> THEN [S |-> S, left |-> <<>>] ELSE [S |-> S1, left |-> <<>>]

\* Every waiting lookup in turn, until one stops again.
ubus_client_cmd_queue_process(S) ==
    FoldLeft(LAMBDA X, cmd :
               IF X.S.stop # NoObj THEN [X EXCEPT !.left = Append(@, cmd)]
               ELSE LET S1 == ubusd_cmd_lookup(X.S, cmd)
                    IN  [S |-> S1, left |-> IF S1.stop = NoObj THEN X.left
                                            ELSE Append(X.left, [cmd EXCEPT !.obj = S1.stop])],
             [S |-> S, left |-> <<>>], cmd_queue)

\* The callback: the transmit loop, then on a write event with the queue empty
\* the commands, and no more write events if there is nothing to write.  What a
\* stale pointer leads to is undefined: it is not followed.
client_cb(events) ==
    LET moved == Min({tx, Cap - sock})
        S1 == [Start EXCEPT !.tx = @ - moved, !.sock = @ + moved]
        X == ubus_client_cmd_queue_process(S1)
    IN  /\ events = "WRITE" => write /\ sock < Cap
        /\ events = "READ" => tx > 0 /\ sock < Cap
        /\ IF tx = moved /\ events = "WRITE"
           THEN /\ \A i \in 1..Len(cmd_queue) : ~IsStale(cmd_queue[i].obj)
                /\ Commit([X.S EXCEPT !.write = X.S.tx > 0])
                /\ cmd_queue' = X.left
           ELSE Commit(S1) /\ UNCHANGED cmd_queue
        /\ UNCHANGED <<path, gen, kind, want>>

Publish(p) ==
    /\ path[p] = 0 /\ gen < MaxGen
    /\ gen' = gen + 1
    /\ path' = [path EXCEPT ![p] = gen + 1]
    /\ UNCHANGED <<tx, sock, write, cmd_queue>> /\ UNCHANGED hist

\* ubusd_free_object takes the path out of the tree and frees the object; the
\* command queues are not looked at.
ubusd_free_object(p) ==
    /\ path[p] > 0
    /\ FreeCursor \/ \A i \in 1..Len(cmd_queue) : cmd_queue[i].obj # <<p, path[p]>>
    /\ path' = [path EXCEPT ![p] = 0]
    /\ want' = [s \in Lookup |-> want[s] \ {p}]
    /\ UNCHANGED <<gen, tx, sock, write, cmd_queue, status, kind, listed>>

PeerRead ==
    /\ sock > 0
    /\ sock' = sock - 1
    /\ UNCHANGED <<path, gen, tx, write, cmd_queue>> /\ UNCHANGED hist

Next ==
    \/ \E s \in Lookup, k \in Kind : ubusd_handle_lookup(s, k)
    \/ \E events \in {"READ", "WRITE"} : client_cb(events)
    \/ \E p \in Paths : Publish(p) \/ ubusd_free_object(p)
    \/ PeerRead

\* The event loop delivers the write event; the client goes on reading.
Spec == Init /\ [][Next]_vars /\ WF_vars(client_cb("WRITE")) /\ WF_vars(PeerRead)

----------------------------------------------------------------------------
Done(s) == status[s] \in {"OK", "NOT_FOUND"}

(* A lookup that waits is in the command queue, once, and the write event   *)
(* that will continue it is asked for.                                      *)
WaitingIsQueued ==
    /\ \A s \in Lookup : status[s] = "waits" <=>
         Cardinality({i \in 1..Len(cmd_queue) : cmd_queue[i].seq = s}) = 1
    /\ Len(cmd_queue) = Cardinality({s \in Lookup : status[s] = "waits"})
    /\ cmd_queue # <<>> => write

(* However often a lookup is interrupted, and whatever is published or       *)
(* withdrawn meanwhile, no object is listed twice and none that was there    *)
(* all the time is left out.                                                *)
AnswersComplete ==
    \A s \in Lookup :
      /\ \A i, j \in 1..Len(listed[s]) : i < j => listed[s][i] < listed[s][j]
      /\ status[s] = "OK" /\ kind[s] = All => want[s] \subseteq ToSet(listed[s])

(* Every lookup gets its status, if the client reads.                       *)
LookupsFinish == \A s \in Lookup : status[s] = "waits" ~> Done(s)

(* `continue from the last object' (ubusd_proto.c:218): the object at which  *)
(* a waiting lookup stopped is still there to continue from.                *)
CursorLive == \A i \in 1..Len(cmd_queue) : ~IsStale(cmd_queue[i].obj)
=============================================================================
