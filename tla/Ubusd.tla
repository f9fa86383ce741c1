------------------------------- MODULE Ubusd --------------------------------
(***************************************************************************)
(* The ubus daemon: every request a client can send, handled whole, with    *)
(* the messages the handler and the functions it calls put on the clients'  *)
(* transmit queues, in the order in which they are put there.               *)
(*                                                                          *)
(* The daemon is one thread, so a handler is one atomic step; the state of  *)
(* the daemon is the record `bus' and a C function is an operator from bus   *)
(* to bus.  Lists are sequences in list order (list_add: newest first), and  *)
(* a loop over a list is a ForEach.                                         *)
(*                                                                          *)
(* The connection to a client is a FIFO (UbusdTx), so what the client will   *)
(* know once it has read everything is settled when the messages are queued: *)
(* bus.view[c] is that knowledge, and of the queue itself only its length    *)
(* bus.tx[c] is kept.  The properties compare the view with the tables.      *)
(*                                                                          *)
(* The result of ubusd_acl_check is an input of the handlers.  The queue of  *)
(* a client holds at most MaxTx messages, whatever their size, and lookup is *)
(* left to the module UbusdLookup; monitors are not connected.              *)
(***************************************************************************)
EXTENDS Naturals, Sequences, SequencesExt

CONSTANTS Client, ObjId, Path, TypeId, Pattern, Null,
          Rank,      \* Pattern -> Nat: alphabetical order of the patterns
          EventId,   \* events that clients send
          Matches,   \* the pairs <<event, pattern>> that match
          MaxSub,    \* bound: subscriptions in the daemon
          MaxPat,    \* bound: event sources
          MaxTx,     \* messages a transmit queue holds
          Cmd        \* the requests that clients send in this instance

ObjAdd == "ubus.object.add"
ObjRemove == "ubus.object.remove"

ASSUME IdsAssumption == IsFiniteSet(ObjId) /\ Null \notin Client \cup ObjId \cup Path \cup TypeId
ASSUME EventAssumption == ObjAdd \notin EventId /\ ObjRemove \notin EventId
ASSUME SizesAssumption == MaxSub \in Nat /\ MaxTx \in Nat

VARIABLE bus

----------------------------------------------------------------------------
(* The tables, as the registry sees them.                                   *)

Count(s, e) == Cardinality({i \in 1..Len(s) : s[i] = e})

Registry == INSTANCE UbusRegistry WITH
    clients <- bus.clients, objects <- bus.objects, path <- bus.path,
    obj_types <- bus.obj_types, patterns <- ToSet(bus.patterns),
    subs <- [st \in ObjId \X ObjId |-> Count(bus.subs, st)], MaxDup <- MaxSub

RefType(types, t) == Registry!RefType(types, t)
Unref(types, t) == Registry!ubus_unref_object_type(types, t)

IsLive(B, o) == B.objects[o].client # Null

\* The list of its subscribers is not empty.
Watched(B, t) == \E i \in 1..Len(B.subs) : B.subs[i][2] = t

\* list_for_each_entry_safe, avl_for_each_element: the elements of s in turn.
ForEach(Body(_, _), X, s) ==
    LET run[i \in 0..Len(s)] == IF i = 0 THEN X ELSE Body(run[i - 1], s[i])
    IN  run[Len(s)]

----------------------------------------------------------------------------
(* Messages.  `req' stands for the sequence number by which a client finds   *)
(* the request that an answer belongs to.                                   *)

Status(req, ret) == [type |-> "STATUS", req |-> req, ret |-> ret]
Data(req, o, t) == [type |-> "DATA", req |-> req, obj |-> o, objtype |-> t]
Response(o) == [type |-> "DATA", req |-> <<"INVOKE">>, obj |-> o, objtype |-> Null]
Notify(o, active) == [type |-> "NOTIFY", obj |-> o, active |-> active]
Unsubscribe(s, t) == [type |-> "UNSUBSCRIBE", obj |-> s, target |-> t]
Invoke(o, peer) == [type |-> "INVOKE", obj |-> o, peer |-> peer]
Event(o, id, about) == [type |-> "INVOKE", obj |-> o, peer |-> Null, method |-> id, about |-> about]

(* What a client knows after it has read a message: its objects, the type    *)
(* ids it may name again, which of its objects are subscribed to, how often  *)
(* an object of its own is subscribed to a target, and the objects that its  *)
(* listening objects have seen appear and not disappear.                    *)

NoView == [own |-> {}, types |-> {}, has |-> {}, seen |-> {},
           watch |-> [st \in ObjId \X ObjId |-> 0]]

Added(v, o, t) ==
    [v EXCEPT !.own = @ \cup {o}, !.types = @ \cup ({t} \ {Null})]

Removed(v, o, t) ==
    [v EXCEPT !.own = @ \ {o}, !.types = @ \ {t}, !.has = @ \ {o},
              !.seen = {x \in @ : x[1] # o},
              !.watch = [st \in ObjId \X ObjId |-> IF st[1] = o THEN 0 ELSE @[st]]]

Learn(v, m) ==
    CASE m.type = "DATA" /\ m.req[1] = "ADD_OBJECT" -> Added(v, m.obj, m.objtype)
      [] m.type = "DATA" /\ m.req[1] = "REMOVE_OBJECT" -> Removed(v, m.obj, m.objtype)
      [] m.type = "NOTIFY" /\ m.obj \in v.own ->
           [v EXCEPT !.has = IF m.active THEN @ \cup {m.obj} ELSE @ \ {m.obj}]
      [] m.type = "UNSUBSCRIBE" -> [v EXCEPT !.watch[<<m.obj, m.target>>] = @ - 1]
      [] m.type = "STATUS" /\ m.ret = "OK" /\ m.req[1] = "SUBSCRIBE" ->
           [v EXCEPT !.watch[<<m.req[2], m.req[3]>>] = @ + 1]
      [] m.type = "STATUS" /\ m.ret = "OK" /\ m.req[1] = "UNSUBSCRIBE" ->
           [v EXCEPT !.watch[<<m.req[2], m.req[3]>>] = @ - 1]
      [] m.type = "INVOKE" /\ m.peer = Null /\ m.method = ObjAdd ->
           [v EXCEPT !.seen = @ \cup {<<m.obj, m.about>>}]
      [] m.type = "INVOKE" /\ m.peer = Null /\ m.method = ObjRemove ->
           [v EXCEPT !.seen = @ \ {<<m.obj, m.about>>}]
      [] OTHER -> v

----------------------------------------------------------------------------
(* The functions of the daemon.                                             *)

\* A message that does not fit is dropped without a trace; `lost' remembers it,
\* and the client knows nothing for sure from then on.  `stray' remembers that
\* a client was sent something for an object it does not know.
ubus_msg_send(B, c, m) ==
    LET stray == m.type \in {"INVOKE", "UNSUBSCRIBE"} /\ m.obj \notin B.view[c].own
    IN  IF B.tx[c] = MaxTx
        THEN [B EXCEPT !.lost = @ \cup {c}, !.view[c] = NoView]
        ELSE IF c \in B.lost THEN [B EXCEPT !.tx[c] = @ + 1]
        ELSE [B EXCEPT !.tx[c] = @ + 1, !.view[c] = Learn(@, m),
                       !.stray = IF stray THEN @ \cup {c} ELSE @]

ubus_notify_subscription(B, o) ==
    ubus_msg_send(B, B.objects[o].client, Notify(o, Watched(B, o)))

\* Fault: the list is tested after the subscription is on it.
SubscribeTestsLate(B, s, t) ==
    LET B1 == [B EXCEPT !.subs = <<<<s, t>>>> \o @]
    IN  IF ~Watched(B1, t) THEN ubus_notify_subscription(B1, t) ELSE B1

ubus_subscribe(B, s, t) ==
    LET first == ~Watched(B, t)
        B1 == [B EXCEPT !.subs = <<<<s, t>>>> \o @]
    IN  IF first THEN ubus_notify_subscription(B1, t) ELSE B1

ubus_unsubscribe(B, st) ==
    LET B1 == [B EXCEPT !.subs = RemoveFirst(@, st)]
    IN  IF ~Watched(B1, st[2]) THEN ubus_notify_subscription(B1, st[2]) ELSE B1

\* Fault: the subscriber is not told.
UnsubscribeSilently(B, st) == ubus_unsubscribe(B, st)

ubus_notify_unsubscribe(B, st) ==
    ubus_unsubscribe(ubus_msg_send(B, B.objects[st[1]].client, Unsubscribe(st[1], st[2])), st)

\* The event sources in the order of the pattern tree; an object with several
\* matching patterns gets the event once (event_seen), and it does not go back
\* to the client that sends it.
ubusd_send_event(B, c, id, about) ==
    LET Deliver(X, op) ==
          LET client == X.bus.objects[op[1]].client
          IN  IF <<id, op[2]>> \notin Matches \/ client = c \/ op[1] \in X.seen THEN X
              ELSE [seen |-> X.seen \cup {op[1]},
                    bus |-> ubus_msg_send(X.bus, client, Event(op[1], id, about))]
    IN  ForEach(Deliver, [seen |-> {}, bus |-> B], B.patterns).bus

\* Fault: a removal is not looped back to the client of the object.
RemovalNotLoopedBack(B, o, add) ==
    ubusd_send_event(B, IF add THEN Null ELSE B.objects[o].client,
                     IF add THEN ObjAdd ELSE ObjRemove, <<B.objects[o].path, o>>)

ubusd_send_obj_event(B, o, add) ==
    ubusd_send_event(B, Null, IF add THEN ObjAdd ELSE ObjRemove, <<B.objects[o].path, o>>)

ubusd_event_cleanup_object(B, o) ==
    LET Keep(left, op) == IF op[1] = o THEN left ELSE Append(left, op)
    IN  [B EXCEPT !.patterns = ForEach(Keep, <<>>, @)]

\* The object's own subscriptions end ...
LeaveTargets(B, o) ==
    LET Leave(X, st) == IF st[1] = o THEN ubus_unsubscribe(X, st) ELSE X
    IN  ForEach(Leave, B, B.subs)

\* ... and those of others to it, who are told.
DropSubscribers(B, o) ==
    LET Drop(X, st) == IF st[2] = o THEN ubus_notify_unsubscribe(X, st) ELSE X
    IN  ForEach(Drop, B, B.subs)

\* Its path goes out of the tree after the event that says so.
WithdrawPath(B, o) ==
    LET p == B.objects[o].path
    IN  IF p = Null THEN B ELSE [ubusd_send_obj_event(B, o, FALSE) EXCEPT !.path[p] = Null]

\* Its id, its reference on its type, its entry in the client's list.
FreeId(B, o) ==
    LET obj == B.objects[o]
    IN  [B EXCEPT !.owned[obj.client] = RemoveFirst(@, o),
                  !.objects[o] = Registry!NoObject,
                  !.obj_types = Unref(@, obj.type)]

\* Fault: the event sources go after the event is sent.
FreeCleansUpLate(B, o) ==
    LET B1 == DropSubscribers(LeaveTargets(B, o), o)
    IN  FreeId(ubusd_event_cleanup_object(WithdrawPath(B1, o), o), o)

ubusd_free_object(B, o) ==
    LET B1 == DropSubscribers(LeaveTargets(B, o), o)
    IN  FreeId(WithdrawPath(ubusd_event_cleanup_object(B1, o), o), o)

\* Fault: the reference of ubusd_create_object itself is not dropped.
CreateLeaksRef(B, c, o, p, t) ==
    LET B1 == [B EXCEPT !.objects[o] = [client |-> c, path |-> p, type |-> t],
                        !.obj_types = RefType(RefType(@, t), t)]
        B2 == IF p = Null THEN B1
              ELSE ubusd_send_obj_event([B1 EXCEPT !.path[p] = o], o, TRUE)
    IN  [B2 EXCEPT !.owned[c] = <<o>> \o @]

\* The object is in the trees when its event is sent, but not yet in its
\* client's list; p is free and publishing it is allowed.
ubusd_create_object(B, c, o, p, t) ==
    LET types == RefType(RefType(B.obj_types, t), t)
        B1 == [B EXCEPT !.objects[o] = [client |-> c, path |-> p, type |-> t],
                        !.obj_types = Unref(types, t)]
        B2 == IF p = Null THEN B1
              ELSE ubusd_send_obj_event([B1 EXCEPT !.path[p] = o], o, TRUE)
    IN  [B2 EXCEPT !.owned[c] = <<o>> \o @]

----------------------------------------------------------------------------
(* The requests: the handler, and the status that                           *)
(* ubusd_proto_receive_message sends after it unless the handler is silent. *)

Request(c, cmd) == cmd \in Cmd /\ c \in bus.clients

Return(B, c, req, ret) == ubus_msg_send(B, c, Status(req, ret))

ubusd_send_pong(c) ==
    /\ Request(c, "PING")
    /\ bus' = Return(ubus_msg_send(bus, c, Data(<<"PING">>, Null, Null)), c, <<"PING">>, "OK")

\* The clients but c that were told of type t.  `taken' remembers that another
\* client has named it since: they may not be told then when it goes.
Told(B, c, t) == {e \in Client \ {c} : t \in B.view[e].types}

\* sig: the request has a signature, t is then the new type (Null if it is
\* malformed); otherwise t is the type the request names (Null: none, unknown).
\* A client may name any id of the type tree: the answers to lookups tell it
\* the types of everybody's objects.
ubusd_handle_add_object(c, o, p, sig, t, acl) ==
    LET refused == p # Null /\ (~acl \/ bus.path[p] # Null)
        B0 == IF sig \/ t = Null THEN bus
              ELSE [bus EXCEPT !.taken = @ \cup (Told(bus, c, t) \X {t})]
        B1 == ubusd_create_object(B0, c, o, p, t)
        B2 == ubus_msg_send(B1, c, Data(<<"ADD_OBJECT">>, o, IF sig THEN t ELSE Null))
    IN  /\ Request(c, "ADD_OBJECT")
        /\ ~IsLive(bus, o)
        /\ t # Null => IF sig THEN bus.obj_types[t] = 0 ELSE bus.obj_types[t] > 0
        /\ bus' = IF refused THEN Return(bus, c, <<"ADD_OBJECT">>, "INVALID_ARGUMENT")
                             ELSE Return(B2, c, <<"ADD_OBJECT">>, "OK")

\* Fault: the type is looked at once it is freed.
RemoveTypeUntold(c, o) ==
    LET obj == bus.objects[o]
        last == obj.type # Null /\ bus.obj_types[obj.type] = 0
        B1 == ubus_msg_send(bus, c, Data(<<"REMOVE_OBJECT">>, o, IF last THEN obj.type ELSE Null))
    IN  /\ Request(c, "REMOVE_OBJECT")
        /\ obj.client = c
        /\ bus' = Return(ubusd_free_object(B1, o), c, <<"REMOVE_OBJECT">>, "OK")

ubusd_handle_remove_object(c, o) ==
    LET obj == bus.objects[o]
        last == obj.type # Null /\ bus.obj_types[obj.type] = 1
        B1 == ubus_msg_send(bus, c, Data(<<"REMOVE_OBJECT">>, o, IF last THEN obj.type ELSE Null))
    IN  /\ Request(c, "REMOVE_OBJECT")
        /\ bus' = IF ~IsLive(bus, o) THEN Return(bus, c, <<"REMOVE_OBJECT">>, "NOT_FOUND")
                  ELSE IF obj.client # c THEN Return(bus, c, <<"REMOVE_OBJECT">>, "PERMISSION_DENIED")
                  ELSE Return(ubusd_free_object(B1, o), c, <<"REMOVE_OBJECT">>, "OK")

\* Fault: a client may watch its own object.
WatchOwn(c, s, t, acl) ==
    /\ Request(c, "SUBSCRIBE")
    /\ Len(bus.subs) < MaxSub
    /\ bus.objects[s].client = c /\ IsLive(bus, t) /\ acl
    /\ bus' = Return(ubus_subscribe(bus, s, t), c, <<"SUBSCRIBE", s, t>>, "OK")

\* acl covers the user and group comparison for a target without a path.
ubusd_handle_add_watch(c, s, t, acl) ==
    LET req == <<"SUBSCRIBE", s, t>>
    IN  /\ Request(c, "SUBSCRIBE")
        /\ Len(bus.subs) < MaxSub
        /\ bus' = IF ~IsLive(bus, s) THEN Return(bus, c, req, "NOT_FOUND")
                  ELSE IF bus.objects[s].client # c THEN Return(bus, c, req, "INVALID_ARGUMENT")
                  ELSE IF ~IsLive(bus, t) THEN Return(bus, c, req, "NOT_FOUND")
                  ELSE IF bus.objects[t].client = c THEN Return(bus, c, req, "INVALID_ARGUMENT")
                  ELSE IF ~acl THEN Return(bus, c, req, "NOT_FOUND")
                  ELSE Return(ubus_subscribe(bus, s, t), c, req, "OK")

ubusd_handle_remove_watch(c, s, t) ==
    LET req == <<"UNSUBSCRIBE", s, t>>
    IN  /\ Request(c, "UNSUBSCRIBE")
        /\ bus' = IF ~IsLive(bus, s) THEN Return(bus, c, req, "NOT_FOUND")
                  ELSE IF bus.objects[s].client # c THEN Return(bus, c, req, "INVALID_ARGUMENT")
                  ELSE IF ~Contains(bus.subs, <<s, t>>) THEN Return(bus, c, req, "NOT_FOUND")
                  ELSE Return(ubus_unsubscribe(bus, <<s, t>>), c, req, "OK")

\* One invocation for every subscription, a duplicate one included.
NotifySubscribers(B, c, o) ==
    LET Tell(X, st) == IF st[2] # o THEN X
                       ELSE ubus_msg_send(X, X.objects[st[1]].client, Invoke(st[1], c))
    IN  ForEach(Tell, B, B.subs)

\* With no_reply the notifier is not told who gets it.
ubusd_handle_notify(c, o, no_reply) ==
    LET B1 == IF no_reply THEN bus ELSE ubus_msg_send(bus, c, Status(<<"NOTIFY">>, "OK"))
    IN  /\ Request(c, "NOTIFY")
        /\ bus' = IF ~IsLive(bus, o) THEN Return(bus, c, <<"NOTIFY">>, "NOT_FOUND")
                  ELSE IF bus.objects[o].client # c THEN Return(bus, c, <<"NOTIFY">>, "PERMISSION_DENIED")
                  ELSE NotifySubscribers(B1, c, o)

ubusd_handle_invoke(c, o, acl) ==
    /\ Request(c, "INVOKE")
    /\ bus' = IF ~IsLive(bus, o) THEN Return(bus, c, <<"INVOKE">>, "NOT_FOUND")
              ELSE IF ~acl THEN Return(bus, c, <<"INVOKE">>, "PERMISSION_DENIED")
              ELSE ubus_msg_send(bus, bus.objects[o].client, Invoke(o, c))

\* A status or data answer that client c gives for its object o to a peer; what
\* does not fit is ignored in silence.
ubusd_handle_response(c, o, peer) ==
    /\ Request(c, "RESPONSE")
    /\ bus.objects[o].client = c
    /\ peer \in bus.clients
    /\ bus' = ubus_msg_send(bus, peer, Response(o))

\* The method "register" of the event object.
ubusd_alloc_event_pattern(c, o, pat, acl) ==
    LET before == {i \in 1..Len(bus.patterns) : Rank[bus.patterns[i][2]] <= Rank[pat]}
    IN  /\ Request(c, "REGISTER")
        /\ Len(bus.patterns) < MaxPat
        /\ bus' = IF ~IsLive(bus, o) THEN Return(bus, c, <<"REGISTER">>, "NOT_FOUND")
                  ELSE IF bus.objects[o].client # c \/ ~acl
                       THEN Return(bus, c, <<"REGISTER">>, "PERMISSION_DENIED")
                  ELSE Return([bus EXCEPT !.patterns = InsertAt(@, Cardinality(before) + 1, <<o, pat>>)],
                              c, <<"REGISTER">>, "OK")

\* The method "send" of the event object; a client cannot send "ubus.*".
ubusd_forward_event(c, id, acl) ==
    /\ Request(c, "SEND")
    /\ bus' = IF ~acl THEN Return(bus, c, <<"SEND">>, "PERMISSION_DENIED")
              ELSE Return(ubusd_send_event(bus, c, id, Null), c, <<"SEND">>, "OK")

ubusd_proto_new_client(c) ==
    /\ c \notin bus.clients
    /\ bus' = ubus_msg_send([bus EXCEPT !.clients = @ \cup {c}], c, [type |-> "HELLO"])

\* Fault: the walk over the objects stops after the one it has freed.
DisconnectFreesOne(c) ==
    LET B1 == IF bus.owned[c] = <<>> THEN bus ELSE ubusd_free_object(bus, Head(bus.owned[c]))
    IN  /\ c \in bus.clients
        /\ bus' = [B1 EXCEPT !.clients = @ \ {c}, !.tx[c] = 0, !.lost = @ \ {c},
                             !.view[c] = NoView, !.stray = @ \ {c},
                             !.taken = {x \in @ : x[1] # c}]

\* The queue is emptied first; what the freed objects still send to the client
\* is never written.
handle_client_disconnect(c) ==
    LET B1 == ForEach(ubusd_free_object, [bus EXCEPT !.tx[c] = 0], bus.owned[c])
    IN  /\ c \in bus.clients
        /\ bus' = [B1 EXCEPT !.clients = @ \ {c}, !.tx[c] = 0, !.lost = @ \ {c},
                             !.view[c] = NoView, !.stray = @ \ {c},
                             !.taken = {x \in @ : x[1] # c}]

----------------------------------------------------------------------------
\* The client takes the next message from its socket.
Read(c) ==
    /\ bus.tx[c] > 0
    /\ bus' = [bus EXCEPT !.tx[c] = @ - 1]

----------------------------------------------------------------------------
Init ==
    bus = [clients |-> {},
              objects |-> [o \in ObjId |-> Registry!NoObject],
              path |-> [p \in Path |-> Null],
              obj_types |-> [t \in TypeId |-> 0],
              subs |-> <<>>,
              patterns |-> <<>>,
              owned |-> [c \in Client |-> <<>>],
              tx |-> [c \in Client |-> 0],
              view |-> [c \in Client |-> NoView],
              lost |-> {},
              stray |-> {},
              taken |-> {}]

Handle(c) ==
    \/ ubusd_send_pong(c)
    \/ \E o \in ObjId, p \in Path \cup {Null}, sig \in BOOLEAN, t \in TypeId \cup {Null}, acl \in BOOLEAN :
         ubusd_handle_add_object(c, o, p, sig, t, acl)
    \/ \E o \in ObjId : ubusd_handle_remove_object(c, o)
    \/ \E s, t \in ObjId, acl \in BOOLEAN : ubusd_handle_add_watch(c, s, t, acl)
    \/ \E s, t \in ObjId : ubusd_handle_remove_watch(c, s, t)
    \/ \E o \in ObjId, no_reply \in BOOLEAN : ubusd_handle_notify(c, o, no_reply)
    \/ \E o \in ObjId, acl \in BOOLEAN : ubusd_handle_invoke(c, o, acl)
    \/ \E o \in ObjId, peer \in Client : ubusd_handle_response(c, o, peer)
    \/ \E o \in ObjId, pat \in Pattern, acl \in BOOLEAN : ubusd_alloc_event_pattern(c, o, pat, acl)
    \/ \E id \in EventId, acl \in BOOLEAN : ubusd_forward_event(c, id, acl)
    \/ ubusd_proto_new_client(c)
    \/ handle_client_disconnect(c)

Next == \E c \in Client : Handle(c) \/ Read(c)

Spec == Init /\ [][Next]_bus

----------------------------------------------------------------------------
Informed == bus.clients \ bus.lost

(* The tables are those of the registry, the lists hold what the tables say, *)
(* and a queue never exceeds its limit.                                     *)
TypeOK ==
    /\ Registry!TypeOK
    /\ \A c \in Client : /\ ToSet(bus.owned[c]) = {o \in ObjId : bus.objects[o].client = c}
                         /\ bus.tx[c] \in 0..MaxTx
                         /\ c \notin bus.clients => bus.tx[c] = 0 /\ bus.owned[c] = <<>>
    /\ bus.lost \subseteq bus.clients

(* Once it has read what is queued for it, the owner of an object knows      *)
(* whether anyone subscribes to it: the notifications of ubus_subscribe,     *)
(* ubus_unsubscribe and ubusd_free_object cover every way the first          *)
(* subscriber comes and the last one goes, disconnects included.            *)
OwnerKnowsSubscribers ==
    \A c \in Informed :
      bus.view[c].has = {o \in ToSet(bus.owned[c]) : Watched(bus, o)}

(* Once it has read what is queued for it, a client knows how often each of  *)
(* its objects is subscribed to each target: one UNSUBSCRIBE arrives for     *)
(* every subscription that ends because the target goes away, and none for   *)
(* one that the client ended itself.                                        *)
SubscriberKnowsTargets ==
    \A c \in Informed :
      bus.view[c].watch = [st \in ObjId \X ObjId |->
                          IF bus.objects[st[1]].client = c THEN Count(bus.subs, st) ELSE 0]

(* Once it has read what is queued for it, a client knows its objects, and   *)
(* every type id it still holds is in the type tree, so it can name it in    *)
(* its next request: the reply to a removal says whether the type went too   *)
(* (ubusd_handle_remove_object).  It only says so to the client that removes *)
(* the last object of the type, so that the ids that another client has      *)
(* named as well (bus.taken) are left out.                                  *)
ClientKnowsObjects ==
    \A c \in Informed :
      /\ bus.view[c].own = ToSet(bus.owned[c])
      /\ \A t \in bus.view[c].types : bus.obj_types[t] > 0 \/ <<c, t>> \in bus.taken

(* An object that a listener saw appear and not disappear is still published *)
(* under that path with that id, once the queue is read: object events are   *)
(* neither missed nor sent in the wrong order when a path changes hands.     *)
ListenerTracksObjects ==
    \A c \in Informed : \A x \in bus.view[c].seen :
      (\A op \in ToSet(bus.patterns) :
         op[1] = x[1] /\ <<ObjAdd, op[2]>> \in Matches => <<ObjRemove, op[2]>> \in Matches)
      => bus.path[x[2][1]] = x[2][2]

(* An invocation, an event or an UNSUBSCRIBE names an object that its reader *)
(* knows at the moment it reads it: it follows the answer to the object's    *)
(* creation and precedes the answer to its removal.                         *)
MessagesFindTheirObject == bus.stray = {}

(* Nothing is ever queued, or dropped for want of room, for a client that    *)
(* handle_client_disconnect has freed: every message goes to the client of   *)
(* an object found through a subscription, a pattern, a path or an id, and   *)
(* none of these still leads to an object of the client that left.          *)
NothingForTheGone == \A c \in Client \ bus.clients : bus.tx[c] = 0 /\ c \notin bus.lost

(* Every step of the daemon is a step of the registry, or leaves the tables  *)
(* as they are.                                                             *)
ImplementsRegistry == Registry!Spec
=============================================================================
