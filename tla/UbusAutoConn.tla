---------------------------- MODULE UbusAutoConn ----------------------------
(***************************************************************************)
(* A process that keeps a connection to ubusd over restarts of the daemon    *)
(* (struct ubus_auto_conn): it publishes its objects again after each        *)
(* reconnect, and its subscriber subscribes to every matching object that    *)
(* exists or appears (libubus.c, libubus-io.c, libubus-obj.c, libubus-sub.c).*)
(*                                                                          *)
(* Every blocking call is one step, at the moment ubusd handles it; other    *)
(* clients and crashes come in between.  A lookup is the exception: its      *)
(* answers are sent one by one, as ubusd visits the objects, and each is     *)
(* handed to a callback that makes a call of its own.  The daemon's tables   *)
(* appear as far as this process has part in them.                          *)
(***************************************************************************)
EXTENDS Naturals, Sequences, FiniteSetsExt

CONSTANTS Obj,      \* the application's objects
          Target,   \* objects of others that the subscriber wants, numbered in
                    \* the order of their paths
          MaxGen,   \* bound: incarnations of the daemon
          MaxOther  \* bound: publications of targets and subscriptions of others
                    \* to this process's objects

VARIABLES up, gen,     \* the daemon runs; its incarnation
          epoch,       \* the incarnation the socket was connected to, 0 for none
          timer,       \* conn->timer is set
          registered,  \* ctx->sock.registered: the event loop watches the socket
          pc, todo,    \* the function that runs, and what it still has to do
          tree,        \* ctx->objects
          auto,        \* ctx->auto_subscribers is not empty
          queue,       \* messages for objects, read or not, in order
          has_subscribers,
          pub,         \* daemon: objects of this process
          listening,   \* daemon: "ubus.object.add" is registered
          target,      \* daemon: target -> its id, 0 if it is not published
          subs,        \* daemon: target -> subscriptions of the subscriber
          watchers,    \* daemon: object -> it has subscribers
          left, sent,  \* the lookup: targets ubusd has to visit, answers to be read
          late,        \* and answers put off while others were handed out
          tids, watched, \* targets published, subscriptions by others so far
          dropped,     \* history: objects that could not be published (again)
          stale,       \* history: has_subscribers dates from an earlier daemon
          missed       \* history: answers that no callback has seen

daemon == <<pub, listening, target, subs, watchers>>
client == <<epoch, timer, registered, pc, todo, tree, auto, has_subscribers>>
look == <<left, sent, late, missed>>
bounds == <<tids, watched>>
vars == <<up, gen, client, queue, daemon, look, bounds, dropped, stale>>

----------------------------------------------------------------------------
Sub == "subscriber"
Ev == "event handler"

ASSUME NamesAssumption == Sub \notin Obj /\ Ev \notin Obj /\ Target \subseteq Nat

Live == up /\ epoch = gen

Event(id, t) == [obj |-> Ev, gen |-> gen, t |-> t, id |-> id, active |-> FALSE]
Notify(o, active) == [obj |-> o, gen |-> gen, t |-> "none", id |-> 0, active |-> active]

Init ==
    /\ up = TRUE /\ gen = 1 /\ epoch = 0
    /\ timer = TRUE /\ registered = FALSE /\ pc = "connect" /\ todo = {}
    /\ tree = {} /\ auto = FALSE
    /\ queue = <<>> /\ has_subscribers = [o \in Obj |-> FALSE]
    /\ pub = {} /\ listening = FALSE
    /\ target = [t \in Target |-> 0] /\ subs = [t \in Target |-> 0]
    /\ watchers = [o \in Obj |-> FALSE]
    /\ left = {} /\ sent = {} /\ late = {} /\ missed = {}
    /\ tids = 0 /\ watched = 0 /\ dropped = {} /\ stale = {}

----------------------------------------------------------------------------
\* A call fails: the write fails, or the end of the stream is read instead of
\* the answer, which calls connection_lost (ubus_auto_disconnect_cb).
CallFails ==
    /\ ~Live
    /\ timer' \in {timer, TRUE}
    /\ UNCHANGED daemon

\* The answer's DATA enters the object into ctx->objects; the connection may
\* still end before its STATUS.
ubus_add_object(o) ==
    \/ /\ Live
       /\ pub' = pub \cup {o} /\ tree' = tree \cup {o}
       /\ UNCHANGED <<timer, listening, target, subs, watchers, dropped>>
    \/ /\ CallFails
       /\ \/ tree' = tree \cup {o} /\ UNCHANGED dropped
          \/ dropped' = dropped \cup {o} /\ UNCHANGED tree

\* ubusd subscribes once more when the subscription exists already.
ubus_subscribe(t, id) ==
    \/ /\ Live
       /\ subs' = IF target[t] = id /\ Sub \in pub THEN [subs EXCEPT ![t] = @ + 1] ELSE subs
       /\ UNCHANGED <<timer, pub, listening, target, watchers>>
    \/ CallFails

\* The first connection.  The application's callback (conn->cb) then publishes
\* its objects and registers its subscriber.
ubus_auto_connect_cb ==
    /\ pc = "connect" /\ timer
    /\ IF up THEN epoch' = gen /\ timer' = FALSE /\ pc' = "setup" /\ todo' = Obj
             ELSE UNCHANGED <<epoch, timer, pc, todo>>
    /\ UNCHANGED <<up, gen, registered, tree, auto, queue, has_subscribers, daemon,
                   look, bounds, dropped, stale>>

Setup ==
    /\ pc = "setup"
    /\ \E o \in todo : ubus_add_object(o) /\ todo' = todo \ {o}
    /\ UNCHANGED <<up, gen, registered, epoch, pc, auto, queue, has_subscribers,
                   look, bounds, stale>>

ubus_register_subscriber ==
    /\ pc = "setup" /\ todo = {}
    /\ ubus_add_object(Sub)
    /\ auto' = Live
    /\ pc' = IF Live THEN "register" ELSE "attach"
    /\ UNCHANGED <<up, gen, registered, epoch, todo, queue, has_subscribers, look, bounds, stale>>

\* Fault: a connection attempt that fails is the last one.
ReconnectOnce ==
    /\ pc = "idle" /\ timer
    /\ registered' = FALSE
    /\ timer' = FALSE
    /\ IF up
       THEN /\ epoch' = gen /\ pc' = "refresh"
            /\ todo' = tree /\ tree' = {}
            /\ queue' \in {SubSeq(queue, 1, n) : n \in 0..Len(queue)}
       ELSE UNCHANGED <<epoch, pc, todo, tree, queue>>
    /\ stale' = IF up THEN Obj ELSE stale
    /\ UNCHANGED <<up, gen, auto, has_subscribers, daemon, look, bounds, dropped>>

\* ubus_auto_reconnect_cb and ubus_reconnect up to the HELLO; what was not read
\* from the old socket is gone.  ubus_refresh_state then takes the objects out
\* of ctx->objects and publishes them again, in the order of their old ids.
ubus_auto_reconnect_cb ==
    /\ pc = "idle" /\ timer
    /\ registered' = FALSE
    /\ IF up
       THEN /\ epoch' = gen /\ timer' = FALSE /\ pc' = "refresh"
            /\ todo' = tree /\ tree' = {}
            /\ queue' \in {SubSeq(queue, 1, n) : n \in 0..Len(queue)}
            /\ stale' = Obj
       ELSE UNCHANGED <<epoch, timer, pc, todo, tree, queue, stale>>
    /\ UNCHANGED <<up, gen, auto, has_subscribers, daemon, look, bounds, dropped>>

\* Fault: an event handler that has an object is taken to be registered, as in
\* ubus_register_subscriber.
RefreshUnregistered ==
    /\ pc = "refresh"
    /\ \/ /\ \E o \in todo : ubus_add_object(o) /\ todo' = todo \ {o}
          /\ UNCHANGED pc
       \/ /\ todo = {}
          /\ pc' = IF ~auto THEN "attach" ELSE IF Ev \in tree THEN "lookup" ELSE "register"
          /\ UNCHANGED <<timer, daemon, tree, dropped, todo>>
    /\ UNCHANGED <<up, gen, registered, epoch, auto, queue, has_subscribers, look, bounds, stale>>

ubus_refresh_state ==
    /\ pc = "refresh"
    /\ \/ /\ \E o \in todo : ubus_add_object(o) /\ todo' = todo \ {o}
          /\ UNCHANGED pc
       \/ /\ todo = {} /\ pc' = IF auto THEN "register" ELSE "attach"
          /\ UNCHANGED <<timer, daemon, tree, dropped, todo>>
    /\ UNCHANGED <<up, gen, registered, epoch, auto, queue, has_subscribers, look, bounds, stale>>

\* ubus_register_event_handler: an object first if it has none, then the
\* pattern.  Both callers go on with the lookup whatever it returns.
AddEventObject ==
    /\ pc = "register" /\ Ev \notin tree
    /\ \/ Live /\ ubus_add_object(Ev) /\ UNCHANGED pc
       \/ CallFails /\ tree' \in {tree, tree \cup {Ev}} /\ UNCHANGED dropped /\ pc' = "lookup"
    /\ UNCHANGED <<up, gen, registered, epoch, todo, auto, queue, has_subscribers,
                   look, bounds, stale>>

RegisterPattern ==
    /\ pc = "register" /\ Ev \in tree
    /\ \/ /\ Live
          /\ listening' = (Ev \in pub)
          /\ UNCHANGED <<timer, pub, target, subs, watchers>>
       \/ CallFails
    /\ pc' = "lookup"
    /\ UNCHANGED <<up, gen, registered, epoch, todo, tree, auto, queue, has_subscribers,
                   look, bounds, dropped, stale>>

\* ubus_lookup: ubusd is to visit every object.
ubus_lookup ==
    /\ pc = "lookup"
    /\ \/ /\ Live /\ pc' = "subscribe"
          /\ left' = Target /\ sent' = {} /\ late' = {} /\ todo' = {}
          /\ UNCHANGED <<timer, daemon>>
       \/ CallFails /\ pc' = "attach" /\ UNCHANGED <<left, sent, late, todo>>
    /\ UNCHANGED <<up, gen, registered, epoch, tree, auto, queue, has_subscribers,
                   missed, bounds, dropped, stale>>

\* ubusd visits t, the next one in the order of the path tree, at once or when
\* it goes on with a lookup that had to wait for room, and sends the id that t
\* has now.
Visit(t) ==
    /\ Live /\ t \in left /\ \A u \in left : t <= u
    /\ left' = left \ {t}
    /\ sent' = sent \cup {<<t, id>> : id \in {target[t]} \ {0}}
    /\ UNCHANGED <<up, gen, client, queue, daemon, late, missed, bounds, dropped, stale>>

\* ubus_process_req_data and ubus_auto_sub_lookup: an answer is handed to the
\* callback, which subscribes.  While that call waits, all other answers that
\* are there are put off; the list of those is then handed out (todo).
FirstAnswer ==
    /\ pc = "subscribe" /\ todo = {}
    /\ \E x \in sent : /\ \A y \in sent : x[1] <= y[1]
                      /\ ubus_subscribe(x[1], x[2])
                      /\ todo' = late \cup (sent \ {x})
    /\ sent' = {} /\ late' = {}
    /\ UNCHANGED <<up, gen, registered, epoch, pc, tree, auto, queue, has_subscribers,
                   left, missed, bounds, dropped, stale>>

\* __ubus_process_req_data: the newest of those put off comes first, and what
\* is put off meanwhile goes to the head of the list, where this round does not
\* come again.
PutOffAnswer ==
    /\ pc = "subscribe"
    /\ \E x \in todo : /\ \A y \in todo : y[1] <= x[1]
                      /\ ubus_subscribe(x[1], x[2])
                      /\ todo' = todo \ {x}
    /\ late' = late \cup sent /\ sent' = {}
    /\ UNCHANGED <<up, gen, registered, epoch, pc, tree, auto, queue, has_subscribers,
                   left, missed, bounds, dropped, stale>>

\* An answer about an object that the subscriber does not want lets the list
\* be handed out, too.
UnwantedAnswer ==
    /\ pc = "subscribe" /\ todo = {} /\ late # {}
    /\ todo' = late /\ late' = {}
    /\ UNCHANGED <<up, gen, epoch, timer, registered, pc, tree, auto, queue, has_subscribers,
                   daemon, left, sent, missed, bounds, dropped, stale>>

\* The STATUS follows the last answer and completes the request, and what is
\* still put off is never handed out.
LookupDone ==
    /\ pc = "subscribe" /\ todo = {}
    /\ \/ left = {} /\ sent = {} /\ UNCHANGED <<timer, daemon>>
       \/ CallFails
    /\ pc' = "attach"
    /\ left' = {} /\ sent' = {} /\ late' = {} /\ missed' = missed \cup late
    /\ UNCHANGED <<up, gen, registered, epoch, todo, tree, auto, queue, has_subscribers,
                   bounds, dropped, stale>>

ubus_add_uloop ==
    /\ pc = "attach"
    /\ pc' = "idle" /\ registered' = TRUE
    /\ UNCHANGED <<up, gen, epoch, timer, todo, tree, auto, queue, has_subscribers,
                   daemon, look, bounds, dropped, stale>>

----------------------------------------------------------------------------
\* Fault: a daemon that starts again hands out the same ids.
IdsReused ==
    LET m == Head(queue)
        found == m.obj \in tree
    IN  /\ queue # <<>> /\ pc # "subscribe"
        /\ queue' = Tail(queue)
        /\ IF found /\ m.obj = Ev THEN ubus_subscribe(m.t, m.id)
                                  ELSE UNCHANGED <<timer, daemon>>
        /\ IF found /\ m.obj \in Obj
           THEN /\ has_subscribers' = [has_subscribers EXCEPT ![m.obj] = m.active]
                /\ stale' = stale \ {m.obj}
           ELSE UNCHANGED <<has_subscribers, stale>>
        /\ UNCHANGED <<up, gen, registered, epoch, pc, todo, tree, auto, look, bounds, dropped>>

\* A message for an object: between two calls, or from the event loop.  Ids are
\* drawn afresh by each daemon, so a message of an earlier one finds no object.
\* (UNSUBSCRIBE, for a target that goes away, calls the application only.)
ubus_process_obj_msg ==
    LET m == Head(queue)
        found == m.gen = epoch /\ m.obj \in tree
    IN  /\ queue # <<>> /\ pc # "subscribe"
        /\ queue' = Tail(queue)
        /\ IF found /\ m.obj = Ev THEN ubus_subscribe(m.t, m.id)
                                  ELSE UNCHANGED <<timer, daemon>>
        /\ IF found /\ m.obj \in Obj
           THEN /\ has_subscribers' = [has_subscribers EXCEPT ![m.obj] = m.active]
                /\ stale' = stale \ {m.obj}
           ELSE UNCHANGED <<has_subscribers, stale>>
        /\ UNCHANGED <<up, gen, registered, epoch, pc, todo, tree, auto, look, bounds, dropped>>

\* The event loop reports the end of the stream, once, and stops to watch the
\* socket (uloop_fetch_events): ubus_auto_disconnect_cb.
HangUp ==
    /\ pc = "idle" /\ registered /\ ~Live
    /\ timer' = TRUE /\ registered' = FALSE
    /\ UNCHANGED <<up, gen, epoch, pc, todo, tree, auto, queue, has_subscribers,
                   daemon, look, bounds, dropped, stale>>

----------------------------------------------------------------------------
\* Other clients of the daemon.
Publish(t) ==
    /\ up /\ target[t] = 0 /\ tids + watched < MaxOther
    /\ tids' = tids + 1
    /\ target' = [target EXCEPT ![t] = tids + 1]
    /\ queue' = IF Live /\ listening THEN Append(queue, Event(tids + 1, t)) ELSE queue
    /\ UNCHANGED <<up, gen, client, pub, listening, subs, watchers, look, watched, dropped, stale>>

Unpublish(t) ==
    /\ up /\ target[t] # 0
    /\ target' = [target EXCEPT ![t] = 0] /\ subs' = [subs EXCEPT ![t] = 0]
    /\ UNCHANGED <<up, gen, client, queue, pub, listening, watchers, look, bounds, dropped, stale>>

\* ubusd tells the owner when the first subscriber comes and the last one goes.
Watch(o) ==
    /\ up /\ o \in pub /\ ~watchers[o] /\ tids + watched < MaxOther
    /\ watched' = watched + 1
    /\ watchers' = [watchers EXCEPT ![o] = TRUE]
    /\ queue' = IF Live THEN Append(queue, Notify(o, TRUE)) ELSE queue
    /\ UNCHANGED <<up, gen, client, pub, listening, target, subs, look, tids, dropped, stale>>

Unwatch(o) ==
    /\ up /\ watchers[o]
    /\ watchers' = [watchers EXCEPT ![o] = FALSE]
    /\ queue' = IF Live THEN Append(queue, Notify(o, FALSE)) ELSE queue
    /\ UNCHANGED <<up, gen, client, pub, listening, target, subs, look, bounds, dropped, stale>>

\* The daemon's tables end with it; what it has sent can still be read.
Crash ==
    /\ up /\ gen < MaxGen
    /\ up' = FALSE
    /\ pub' = {} /\ listening' = FALSE
    /\ target' = [t \in Target |-> 0] /\ subs' = [t \in Target |-> 0]
    /\ watchers' = [o \in Obj |-> FALSE]
    /\ UNCHANGED <<gen, client, queue, look, bounds, dropped, stale>>

Restart ==
    /\ ~up
    /\ up' = TRUE /\ gen' = gen + 1
    /\ UNCHANGED <<client, queue, daemon, look, bounds, dropped, stale>>

----------------------------------------------------------------------------
Calls == \/ ubus_auto_connect_cb \/ Setup \/ ubus_register_subscriber
         \/ ubus_auto_reconnect_cb \/ ubus_refresh_state
         \/ AddEventObject \/ RegisterPattern \/ ubus_lookup
         \/ FirstAnswer \/ PutOffAnswer \/ LookupDone \/ ubus_add_uloop

Next ==
    \/ Calls \/ UnwantedAnswer \/ ubus_process_obj_msg \/ HangUp
    \/ \E t \in Target : Visit(t) \/ Publish(t) \/ Unpublish(t)
    \/ \E o \in Obj : Watch(o) \/ Unwatch(o)
    \/ Crash \/ Restart

\* The process runs, its calls return (a daemon that runs reads and completes
\* what it has begun: see Libubus), ubusd goes on with a lookup, timers expire,
\* and init starts the daemon again.
Spec ==
    /\ Init /\ [][Next]_vars
    /\ WF_vars(Calls) /\ WF_vars(ubus_process_obj_msg) /\ WF_vars(HangUp) /\ WF_vars(Restart)
    /\ WF_vars(\E t \in Target : Visit(t))

----------------------------------------------------------------------------
Settled == pc = "idle" /\ Live /\ queue = <<>>

(* Auto-subscription leaves no gap: once the calls after a connect have      *)
(* returned and the events that came in between are handled, every object    *)
(* that the subscriber wants is subscribed to, whether it appeared before    *)
(* the lookup, during it or after, and however often the daemon crashed in   *)
(* between.  One that appeared between the registration and the lookup is    *)
(* subscribed to twice (both report it), never more often.  The exceptions   *)
(* are a subscriber that a crash has made drop out of ctx->objects, and an   *)
(* answer of the lookup that came while put-off ones were handed out and     *)
(* was still put off when the lookup ended.                                 *)
TargetsCovered ==
    Settled /\ auto /\ Sub \in tree =>
        \A t \in Target : target[t] # 0 =>
            subs[t] \in 1..2 \/ (subs[t] = 0 /\ <<t, target[t]>> \in missed)

(* What an object believes about its subscribers is right when all messages  *)
(* are handled: a NOTIFY of an earlier connection never overwrites it.  It   *)
(* may only be out of date for an object that had subscribers before the     *)
(* daemon restarted and has had none since: ubus_refresh_state keeps         *)
(* has_subscribers and ubusd does not tell the owner that there are none.    *)
HasSubscribersKnown ==
    Settled => \A o \in Obj \cap tree :
        has_subscribers[o] = watchers[o] \/ (has_subscribers[o] /\ o \in stale)

(* However often the daemon crashes, also in the middle of the calls that    *)
(* follow a reconnect, the process ends up connected, with every object that *)
(* is in ctx->objects published and every other one counted as dropped.      *)
Recovers ==
    <>[](/\ pc = "idle" /\ Live /\ tree \subseteq pub
         /\ (Obj \cup {Sub}) \ dropped \subseteq tree
         /\ auto => listening)
=============================================================================
